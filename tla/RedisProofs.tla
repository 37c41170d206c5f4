---------------------------- MODULE RedisProofs ----------------------------
(***************************************************************************)
(* Theorems about RedisProvider, for every value of its constants: any     *)
(* number of jobs, of requests, of operations and of restarts, pipelines   *)
(* of any size.                                                            *)
(*                                                                         *)
(* What the proof says of one key is said of a list of operations o and of *)
(* the operation v that the key has in Redis: the lemmas on one key know   *)
(* nothing of the state.                                                   *)
(***************************************************************************)
EXTENDS RedisProvider, FiniteSetTheorems, WellFoundedInduction, TLAPS

JobStates == {"none", "open", "succeeded", "failed", "gone"}
Loops == {"off", "take", "execute", "attempted", "attempt handled", "backoff", "exited"}

Saves ==
  {SetOp(k, "open", FALSE) : k \in Keys} \cup {SetOp(k, "failed", FALSE) : k \in Keys}
    \cup {SetOp(k, "succeeded", FinishedJobTTL # 0) : k \in Keys}
Ops == Saves \cup {DelOp(k) : k \in Keys} \cup {DelAllOp, None}

Touches(o, i, k) == k \in o[i].keys
Sets(o, i, k) == o[i].kind = "set" /\ k \in o[i].keys

\* The last of the first n operations that touches a key, and what it leaves in Redis.
LastBy(o, k, n) == Latest({i \in 1 .. n : k \in o[i].keys})
LeftBy(o, k, n) ==
  IF LastBy(o, k, n) = 0 THEN 0 ELSE IF o[LastBy(o, k, n)].kind = "set" THEN LastBy(o, k, n) ELSE 0

Right(o, v, k, n) == v = LeftBy(o, k, n) \/ (v = 0 /\ o[LeftBy(o, k, n)].ttl)

\* A key is as it must be and nothing will touch it again, or its last operation is still
\* to be executed.
SavedOrToSave(o, v, k, n, rest) ==
  LastBy(o, k, n) \in rest \/ (Right(o, v, k, n) /\ \A i \in rest : ~Touches(o, i, k))

\* What is to be executed again does not bring back an older version than the one in Redis.
NoneOlder(o, v, k, rest) == \A i \in rest : Sets(o, i, k) => v <= i

\* An attempt that failed may have written one of the operations it tried, even an older one.
KeyOk(o, v, k, n, rest, tried) ==
  /\ v \in 0 .. n
  /\ v # 0 => Sets(o, v, k)
  /\ SavedOrToSave(o, v, k, n, rest)
  /\ NoneOlder(o, v, k, rest) \/ v \in tried

\* A job is what its last operation says, unless it had expired when the process loaded the
\* jobs: `written' are the operations that will not be executed again.
JobOk(o, j, v, k, n, written) ==
  \/ j \in {"none", "gone"} /\ (LastBy(o, k, n) = 0 \/ o[LastBy(o, k, n)].kind # "set")
  \/ /\ LastBy(o, k, n) # 0 /\ o[LastBy(o, k, n)].kind = "set"
     /\ j = o[LastBy(o, k, n)].value
  \/ /\ j \in {"none", "gone"} /\ v = 0
     /\ LastBy(o, k, n) \in written /\ o[LastBy(o, k, n)].kind = "set"
     /\ o[LastBy(o, k, n)].ttl

\* Between two processes, a job whose changes had all been written is what Redis has.
JobSaved(o, j, v) ==
  IF v # 0 THEN j = o[v].value
           ELSE j \in {"none", "gone"} \/ (j = "succeeded" /\ FinishedJobTTL # 0)

-----------------------------------------------------------------------------
(* The inductive invariant.                                                *)

Typed ==
  /\ op \in [1 .. MaxOps -> Ops]
  /\ pushed \in 0 .. MaxOps /\ taken \in 0 .. pushed /\ done \in 0 .. taken
  /\ running \in BOOLEAN /\ closed \in BOOLEAN /\ abandon \in BOOLEAN
  /\ loop \in Loops /\ failed \in BOOLEAN /\ ok \in BOOLEAN
  /\ ops \subseteq 1 .. taken /\ retry \subseteq 1 .. done
  /\ redis \in [Keys -> 0 .. taken] /\ job \in [Keys -> JobStates]

\* Between an attempt and its consequences, what it executed is what the loop took, and what
\* must be executed again, if it failed, is all of it; otherwise it is what failed before.
Trying == loop \in {"attempted", "attempt handled"}
Upto == IF Trying THEN taken ELSE done
Rest == IF ~Trying THEN retry ELSE IF failed THEN ops ELSE {}
Tried == IF Trying THEN Rest ELSE {}

\* Where the loop is says what it has counted.
LoopIsRight ==
  /\ loop \in {"off", "take", "attempt handled", "backoff", "exited"} => done = taken
  /\ loop = "execute" => ops = retry \cup (done + 1 .. taken)
  /\ ok => retry = {}
  /\ abandon => closed
  /\ loop = "exited" => closed
  /\ loop = "exited" /\ ~abandon => retry = {} /\ taken = pushed
  /\ running <=> loop # "off"
  /\ loop = "off" => /\ taken = pushed /\ ops = {} /\ retry = {}
                     /\ \A i \in 1 .. pushed : op[i].kind \in {"set", "none"}

KeysAreRight == \A k \in Keys : KeyOk(op, redis[k], k, Upto, Rest, Tried)

Written == {i \in 1 .. taken : i \notin ops \cup retry}

JobsAreRight ==
  /\ running => \A k \in Keys : JobOk(op, job[k], redis[k], k, pushed, Written)
  /\ ~running => \A k \in Keys \ lost : JobSaved(op, job[k], redis[k])

IInv == Typed /\ LoopIsRight /\ KeysAreRight /\ JobsAreRight

-----------------------------------------------------------------------------
(* The operations, and the last one of a key.                              *)

\* A set of numbers has a least one: the induction that LatestIsLast needs.
LEMMA LeastNumber ==
  ASSUME NEW T \in SUBSET Nat, T # {}
  PROVE  \E m \in T : \A k \in T : m <= k
<1> DEFINE R == OpToRel(<, Nat)
<1>1. \A x, y \in Nat : x < y => <<x, y>> \in R
  BY DEF OpToRel
<1>2. IsWellFoundedOn(R, Nat)
  BY NatLessThanWellFounded
<1> HIDE DEF R
<1>3. PICK m \in T : \A k \in T : ~(<<k, m>> \in R)
  BY <1>2, WFMin
<1>4. ASSUME NEW k \in T PROVE m <= k
  <2>1. ~(<<k, m>> \in R)
    BY <1>3
  <2>2. ~(k < m)
    BY <1>1, <2>1
  <2> QED
    BY <2>2
<1> QED
  BY <1>4

\* Latest is the greatest number of a bounded set, 0 if it is empty.
LEMMA LatestIsLast ==
  ASSUME NEW n \in Nat, NEW I \in SUBSET (1 .. n)
  PROVE  /\ Latest(I) \in Nat
         /\ I = {} => Latest(I) = 0
         /\ I # {} => Latest(I) \in I
         /\ \A i \in I : i <= Latest(I)
<1>1. CASE I = {}
  BY <1>1 DEF Latest
<1>2. CASE I # {}
  <2> DEFINE T == {m \in Nat : \A i \in I : i <= m}
  <2>1. T \in SUBSET Nat /\ n \in T
    OBVIOUS
  <2>2. PICK m \in T : \A k \in T : m <= k
    BY <2>1, LeastNumber
  <2>3. m \in I
    <3>1. SUFFICES ASSUME m \notin I PROVE FALSE
      OBVIOUS
    <3>2. m \in Nat /\ \A i \in I : i \in Nat /\ i < m
      <4>1. m \in Nat /\ \A i \in I : i \in Nat /\ i <= m
        BY <2>2
      <4>2. \A i \in I : i # m
        BY <3>1
      <4> QED
        BY <4>1, <4>2
    <3>3. m - 1 \in T
      <4>1. PICK i \in I : TRUE
        BY <1>2
      <4>2. i \in Nat /\ i >= 1
        BY <4>1
      <4>3. m - 1 \in Nat
        BY <4>1, <4>2, <3>2
      <4>4. \A j \in I : j <= m - 1
        BY <3>2
      <4> QED
        BY <4>3, <4>4
    <3>4. m <= m - 1
      BY <3>3, <2>2
    <3> QED
      BY <3>2, <3>4
  <2>4. \A j \in I : j <= m
    BY <2>2
  <2>5. \E i \in I : \A j \in I : j <= i
    BY <2>3, <2>4
  <2>6. Latest(I) = CHOOSE i \in I : \A j \in I : j <= i
    BY <1>2 DEF Latest
  <2>7. Latest(I) \in I /\ \A j \in I : j <= Latest(I)
    BY <2>5, <2>6
  <2>8. \A x \in I : x \in Nat
    OBVIOUS
  <2>9. Latest(I) \in Nat
    BY <2>7, <2>8, Zenon
  <2> QED
    BY <2>7, <2>9, <1>2, Zenon
<1> QED
  BY <1>1, <1>2

\* What an operation touches, and what a saved copy has.
LEMMA OpFacts ==
  ASSUME NEW x \in Ops
  PROVE  /\ x.kind \in {"set", "del", "delAll", "none"}
         /\ x.keys \subseteq Keys
         /\ x.kind = "set" =>
              /\ \A k, h \in x.keys : k = h
              /\ x.value \in {"open", "succeeded", "failed"}
              /\ x.ttl <=> x.value = "succeeded" /\ FinishedJobTTL # 0
         /\ x.kind = "delAll" => x.keys = Keys
         /\ x.kind = "none" => x.keys = {}
<1>5. CASE x \in Saves
  <2>1. PICK k \in Keys : \/ x = SetOp(k, "open", FALSE) \/ x = SetOp(k, "failed", FALSE)
                          \/ x = SetOp(k, "succeeded", FinishedJobTTL # 0)
    BY <1>5 DEF Saves
  <2>2. /\ x.kind = "set" /\ x.keys = {k} /\ x.value \in {"open", "succeeded", "failed"}
        /\ x.ttl <=> x.value = "succeeded" /\ FinishedJobTTL # 0
    <3>1. CASE x = SetOp(k, "open", FALSE)
      BY <3>1 DEF SetOp
    <3>2. CASE x = SetOp(k, "failed", FALSE)
      BY <3>2 DEF SetOp
    <3>3. CASE x = SetOp(k, "succeeded", FinishedJobTTL # 0)
      BY <3>3 DEF SetOp
    <3> QED
      BY <2>1, <3>1, <3>2, <3>3
  <2> QED
    BY <2>2
<1>2. CASE x \in {DelOp(k) : k \in Keys}
  BY <1>2 DEF DelOp
<1>3. CASE x = DelAllOp
  BY <1>3 DEF DelAllOp
<1>4. CASE x = None
  BY <1>4 DEF None
<1> QED
  BY <1>2, <1>3, <1>4, <1>5 DEF Ops

\* The last operation of a key among the first n is the one that no later one touches.
LEMMA LastIsLast ==
  ASSUME NEW o, NEW k, NEW n \in Nat
  PROVE  /\ LastBy(o, k, n) \in 0 .. n
         /\ LastBy(o, k, n) # 0 => k \in o[LastBy(o, k, n)].keys
         /\ \A i \in 1 .. n : k \in o[i].keys => i <= LastBy(o, k, n)
<1> DEFINE I == {i \in 1 .. n : k \in o[i].keys}
<1>1. I \in SUBSET (1 .. n)
  OBVIOUS
<1>2. /\ Latest(I) \in Nat
      /\ I = {} => Latest(I) = 0
      /\ I # {} => Latest(I) \in I
      /\ \A i \in I : i <= Latest(I)
  BY <1>1, LatestIsLast
<1>3. LastBy(o, k, n) = Latest(I)
  BY DEF LastBy
<1> QED
  BY <1>2, <1>3
\* It is the only one.
LEMMA LastIsUnique ==
  ASSUME NEW o, NEW k, NEW n \in Nat, NEW m \in 0 .. n,
         m # 0 => k \in o[m].keys,
         \A i \in 1 .. n : k \in o[i].keys => i <= m
  PROVE  LastBy(o, k, n) = m
BY LastIsLast

\* Operations that come after the first n, or that are not of the first n, do not count.
LEMMA LastIsLocal ==
  ASSUME NEW o, NEW p, NEW k, NEW n \in Nat, NEW m \in Nat, n <= m,
         \A i \in 1 .. n : p[i] = o[i],
         \A i \in n + 1 .. m : ~Touches(p, i, k)
  PROVE  LastBy(p, k, m) = LastBy(o, k, n) /\ LeftBy(p, k, m) = LeftBy(o, k, n)
<1>1. /\ LastBy(o, k, n) \in 0 .. n
      /\ LastBy(o, k, n) # 0 => k \in o[LastBy(o, k, n)].keys
      /\ \A i \in 1 .. n : k \in o[i].keys => i <= LastBy(o, k, n)
  BY LastIsLast
<1>2. LastBy(o, k, n) # 0 => p[LastBy(o, k, n)] = o[LastBy(o, k, n)]
  BY <1>1
<1>3. \A i \in 1 .. m : k \in p[i].keys => i <= LastBy(o, k, n)
  BY <1>1 DEF Touches
<1>4. LastBy(p, k, m) = LastBy(o, k, n)
  BY <1>1, <1>2, <1>3, LastIsUnique
<1> QED
  BY <1>2, <1>4 DEF LeftBy

\* What Wanted says of a key.
LEMMA WantedIsLeft ==
  ASSUME NEW n, NEW k \in Keys
  PROVE  Wanted(n)[k] = LeftBy(op, k, n)
BY DEF Wanted, Executed, LeftBy, LastBy

-----------------------------------------------------------------------------
(* One key.                                                                *)

\* The operations that are executed: those to retry and all those after the first n.
Executing(S, rest, n, m) ==
  /\ n \in Nat /\ m \in Nat /\ n <= m /\ rest \subseteq 1 .. n
  /\ S = rest \cup (n + 1 .. m)

\* What operations of S may do to a key, if not all of them are executed: nothing, or some
\* operation of S that touches it does what it can do.
MayLeave(o, v, w, k, S) ==
  w = v \/ ((\E i \in S : Touches(o, i, k)) /\ (w = 0 \/ (w \in S /\ Sets(o, w, k))))

\* What the operations of I do to a key if all of them are: the last one that touches it counts.
LeaveLast(o, v, w, k, I) ==
  /\ (\A i \in I : ~Touches(o, i, k)) => w = v
  /\ \A m \in I : Touches(o, m, k) /\ (\A i \in I : Touches(o, i, k) => i <= m)
       => w = IF o[m].kind = "set" THEN m ELSE 0

\* Executing some of the operations of S leaves one of them, or changes nothing.
LEMMA ExecutedMayLeave ==
  ASSUME NEW n \in Nat, NEW S \in SUBSET (1 .. n), NEW I \in SUBSET S, NEW r, NEW k \in Keys
  PROVE  /\ MayLeave(op, r[k], Executed(r, I)[k], k, S)
         /\ LeaveLast(op, r[k], Executed(r, I)[k], k, I)
<1> DEFINE J == {i \in I : k \in op[i].keys}
<1>1. J \in SUBSET (1 .. n)
  OBVIOUS
<1>2. /\ J = {} => Latest(J) = 0
      /\ J # {} => Latest(J) \in J
      /\ \A i \in J : i <= Latest(J)
  BY <1>1, LatestIsLast
<1>3. Executed(r, I)[k] = IF Latest(J) = 0 THEN r[k] ELSE IF op[Latest(J)].kind = "set" THEN Latest(J) ELSE 0
  BY DEF Executed
<1>4. \A i \in J : i \in S /\ Touches(op, i, k) /\ i # 0 /\ i \in Nat
  BY <1>1 DEF Touches
<1>5. \A i \in I : Touches(op, i, k) => i \in J
  BY DEF Touches
<1>6. CASE J = {}
  <2>1. Executed(r, I)[k] = r[k]
    BY <1>2, <1>3, <1>6
  <2> QED
    BY <2>1, <1>5, <1>6 DEF MayLeave, LeaveLast
<1>7. CASE J # {}
  <2>1. Latest(J) \in J
    BY <1>2, <1>7
  <2>2. Executed(r, I)[k] = IF op[Latest(J)].kind = "set" THEN Latest(J) ELSE 0
    BY <1>3, <1>4, <2>1
  <2>3. MayLeave(op, r[k], Executed(r, I)[k], k, S)
    BY <2>1, <2>2, <1>4 DEF MayLeave, Sets, Touches
  <2>4. ASSUME NEW m \in I, Touches(op, m, k), \A i \in I : Touches(op, i, k) => i <= m
        PROVE  m = Latest(J)
    <3>1. m \in J /\ Latest(J) \in I /\ Touches(op, Latest(J), k)
      BY <2>1, <2>4, <1>4, <1>5
    <3>2. m <= Latest(J) /\ Latest(J) <= m
      BY <3>1, <1>2, <2>4
    <3> QED
      BY <3>1, <3>2, <1>4, <2>1
  <2> QED
    BY <2>1, <2>2, <2>3, <2>4, <1>4 DEF LeaveLast
<1> QED
  BY <1>6, <1>7

\* Whatever an attempt did to a key, retrying all of its operations makes it right.
LEMMA KeyTried ==
  ASSUME NEW o, NEW v, NEW w, NEW k, NEW n, NEW m, NEW rest, NEW S,
         Executing(S, rest, n, m), KeyOk(o, v, k, n, rest, {}), MayLeave(o, v, w, k, S)
  PROVE  KeyOk(o, w, k, m, S, S) /\ (w = 0 \/ w >= v)
<1>1. /\ n \in Nat /\ m \in Nat /\ n <= m /\ S \subseteq 1 .. m
      /\ rest \subseteq S /\ n + 1 .. m \subseteq S /\ \A i \in S : i \in rest \/ i > n
  BY DEF Executing
<1>2. v \in 0 .. n /\ (v # 0 => Sets(o, v, k)) /\ NoneOlder(o, v, k, rest)
  BY DEF KeyOk
<1>3. \A i \in S : Sets(o, i, k) => v <= i
  BY <1>1, <1>2 DEF NoneOlder
<1>4. w \in 0 .. m /\ (w # 0 => Sets(o, w, k)) /\ (w = 0 \/ w >= v)
  <2>1. CASE w = v
    BY <2>1, <1>1, <1>2
  <2>2. CASE w = 0
    BY <2>2, <1>1
  <2>3. CASE w \in S /\ Sets(o, w, k)
    <3>1. v <= w /\ w \in 1 .. m
      BY <2>3, <1>1, <1>3
    <3> QED
      BY <2>3, <3>1, <1>2
  <2> QED
    BY <2>1, <2>2, <2>3 DEF MayLeave
<1>5. NoneOlder(o, w, k, S) \/ w \in S
  <2>1. CASE w = v
    BY <2>1, <1>3 DEF NoneOlder
  <2>2. CASE w = 0
    BY <2>2, <1>1 DEF NoneOlder
  <2> QED
    BY <2>1, <2>2 DEF MayLeave
<1>6. SavedOrToSave(o, w, k, m, S)
  <2>1. CASE \E i \in n + 1 .. m : Touches(o, i, k)
    <3>1. PICK i \in n + 1 .. m : Touches(o, i, k)
      BY <2>1
    <3>2. i \in 1 .. m /\ i <= LastBy(o, k, m) /\ LastBy(o, k, m) \in 0 .. m
      BY <3>1, <1>1, LastIsLast DEF Touches
    <3>3. LastBy(o, k, m) \in n + 1 .. m
      BY <3>2, <1>1
    <3> QED
      BY <3>3, <1>1 DEF SavedOrToSave
  <2>2. CASE \A i \in n + 1 .. m : ~Touches(o, i, k)
    <3>1. LastBy(o, k, m) = LastBy(o, k, n) /\ LeftBy(o, k, m) = LeftBy(o, k, n)
      BY <2>2, <1>1, LastIsLocal
    <3>2. SavedOrToSave(o, v, k, n, rest)
      BY DEF KeyOk
    <3>3. CASE LastBy(o, k, n) \in rest
      BY <3>1, <3>3, <1>1 DEF SavedOrToSave
    <3>4. CASE Right(o, v, k, n) /\ \A i \in rest : ~Touches(o, i, k)
      <4>1. \A i \in S : ~Touches(o, i, k)
        BY <2>2, <3>4 DEF Executing
      <4>2. w = v
        BY <4>1 DEF MayLeave
      <4>3. Right(o, w, k, m)
        BY <3>1, <3>4, <4>2 DEF Right
      <4> QED
        BY <4>1, <4>3 DEF SavedOrToSave
    <3> QED
      BY <3>2, <3>3, <3>4 DEF SavedOrToSave
  <2> QED
    BY <2>1, <2>2
<1> QED
  BY <1>4, <1>5, <1>6 DEF KeyOk

\* A pipeline that succeeds leaves nothing to retry.
LEMMA KeyExecuted ==
  ASSUME NEW n, NEW m, NEW rest, NEW S, NEW r, NEW k \in Keys,
         Executing(S, rest, n, m), KeyOk(op, r[k], k, n, rest, {})
  PROVE  /\ MayLeave(op, r[k], Executed(r, S)[k], k, S)
         /\ KeyOk(op, Executed(r, S)[k], k, m, {}, {})
<1> DEFINE w == Executed(r, S)[k]
<1>1. m \in Nat /\ S \in SUBSET (1 .. m) /\ S \in SUBSET S
  BY DEF Executing
<1>2. /\ MayLeave(op, r[k], w, k, S)
      /\ LeaveLast(op, r[k], w, k, S)
  BY <1>1, ExecutedMayLeave
<1> HIDE DEF w
<1>3. KeyOk(op, w, k, m, S, S)
  BY <1>2, KeyTried
<1>4. /\ LastBy(op, k, m) \in 0 .. m
      /\ LastBy(op, k, m) # 0 => k \in op[LastBy(op, k, m)].keys
      /\ \A i \in 1 .. m : k \in op[i].keys => i <= LastBy(op, k, m)
  BY <1>1, LastIsLast
<1>5. Right(op, w, k, m)
  <2>1. SavedOrToSave(op, w, k, m, S)
    BY <1>3 DEF KeyOk
  <2>2. CASE LastBy(op, k, m) \in S
    <3>1. LastBy(op, k, m) # 0 /\ Touches(op, LastBy(op, k, m), k)
      BY <2>2, <1>1, <1>4 DEF Touches
    <3>2. \A i \in S : Touches(op, i, k) => i <= LastBy(op, k, m)
      BY <1>1, <1>4 DEF Touches
    <3>3. w = IF op[LastBy(op, k, m)].kind = "set" THEN LastBy(op, k, m) ELSE 0
      BY <1>2, <2>2, <3>1, <3>2 DEF LeaveLast
    <3> QED
      BY <3>1, <3>3 DEF Right, LeftBy
  <2> QED
    BY <2>1, <2>2 DEF SavedOrToSave
<1>6. KeyOk(op, w, k, m, {}, {})
  BY <1>3, <1>5 DEF KeyOk, SavedOrToSave, NoneOlder
<1> QED
  BY <1>2, <1>6 DEF w

\* To coalesce the operations keeps the last one of each key, and drops those that are older
\* than what Redis has.
LEMMA KeyCoalesced ==
  ASSUME NEW n \in Nat, NEW S \in SUBSET (1 .. n), NEW v, NEW k \in Keys,
         op \in [1 .. MaxOps -> Ops], n <= MaxOps,
         KeyOk(op, v, k, n, S, S)
  PROVE  Coalesce(S) \subseteq S /\ KeyOk(op, v, k, n, Coalesce(S), {})
<1>0. MaxOps \in Nat /\ \A i \in S : i \in Nat /\ op[i] \in Ops
  BY WriterAssumption
<1>1. Coalesce(S) \subseteq S
  BY DEF Coalesce
<1>2. \A i \in S : IsDelAll(i) => Touches(op, i, k)
  BY <1>0, OpFacts DEF IsDelAll, Touches
<1>3. /\ LastBy(op, k, n) \in 0 .. n
      /\ \A i \in 1 .. n : k \in op[i].keys => i <= LastBy(op, k, n)
      /\ LastBy(op, k, n) # 0 => k \in op[LastBy(op, k, n)].keys
  BY LastIsLast
<1>4. SavedOrToSave(op, v, k, n, Coalesce(S))
  <2>1. SavedOrToSave(op, v, k, n, S)
    BY DEF KeyOk
  <2>2. CASE LastBy(op, k, n) \in S
    <3>1. LastBy(op, k, n) # 0 /\ Touches(op, LastBy(op, k, n), k)
      BY <2>2, <1>3 DEF Touches
    <3>2. \A j \in S : j > LastBy(op, k, n) => ~Touches(op, j, k)
      BY <1>0, <1>3 DEF Touches
    <3>3. \A j \in S : j > LastBy(op, k, n) =>
             ~IsDelAll(j) /\ op[j].keys # op[LastBy(op, k, n)].keys
      BY <3>1, <3>2, <1>2 DEF Touches
    <3>4. LastBy(op, k, n) \in Coalesce(S)
      BY <3>3, <2>2 DEF Coalesce
    <3> QED
      BY <3>4 DEF SavedOrToSave
  <2> QED
    BY <2>1, <2>2, <1>1 DEF SavedOrToSave
<1>5. NoneOlder(op, v, k, Coalesce(S))
  <2>1. CASE NoneOlder(op, v, k, S)
    BY <2>1, <1>1 DEF NoneOlder
  <2>2. CASE v \in S
    <3>1. Sets(op, v, k)
      BY <2>2 DEF KeyOk
    <3>2. ASSUME NEW i \in Coalesce(S), Sets(op, i, k), ~(v <= i) PROVE FALSE
      <4>1. i \in S /\ v > i
        <5>1. i \in S /\ i \in Nat /\ v \in Nat
          BY <1>0, <1>1, <2>2
        <5> QED
          BY <5>1, <3>2
      <4>2. op[i].keys = op[v].keys /\ ~IsDelAll(i)
        <5>1. op[i].kind = "set" /\ k \in op[i].keys /\ op[v].kind = "set" /\ k \in op[v].keys
          BY <3>1, <3>2 DEF Sets
        <5>2. /\ \A g, h \in op[i].keys : g = h
              /\ \A g, h \in op[v].keys : g = h
          BY <5>1, <4>1, <2>2, <1>0, OpFacts
        <5> QED
          <6>1. \A g \in op[i].keys : g = k
            BY <5>1, <5>2
          <6>2. \A g \in op[v].keys : g = k
            BY <5>1, <5>2
          <6>3. op[i].keys = {k} /\ op[v].keys = {k}
            <7>1. i \in S /\ op[i] \in Ops /\ op[v] \in Ops
              BY <4>1, <2>2, <1>0
            <7>2. op[i].keys \subseteq Keys /\ op[v].keys \subseteq Keys
              BY <7>1, OpFacts
            <7> QED
              BY <6>1, <6>2, <5>1, <7>2
          <6> QED
            BY <6>3, <5>1 DEF IsDelAll
      <4> QED
        BY <4>1, <4>2, <2>2, <3>2 DEF Coalesce
    <3> QED
      BY <3>2 DEF NoneOlder
  <2> QED
    BY <2>1, <2>2 DEF KeyOk
<1> QED
  BY <1>1, <1>4, <1>5 DEF KeyOk

\* A key does not depend on the operations that are still queued.
LEMMA KeyPushed ==
  ASSUME NEW o, NEW p, NEW v, NEW k, NEW n \in Nat, NEW rest \in SUBSET (1 .. n),
         NEW tried, \A i \in 1 .. n : p[i] = o[i],
         KeyOk(o, v, k, n, rest, tried)
  PROVE  KeyOk(p, v, k, n, rest, tried)
<1>1. LastBy(p, k, n) = LastBy(o, k, n) /\ LeftBy(p, k, n) = LeftBy(o, k, n)
  <2>1. n <= n /\ \A i \in n + 1 .. n : ~Touches(p, i, k)
    OBVIOUS
  <2> QED
    BY <2>1, LastIsLocal
<1>2. LastBy(o, k, n) \in 0 .. n /\ LeftBy(o, k, n) \in 0 .. n
  BY LastIsLast DEF LeftBy
<1>3. \A i \in rest : p[i] = o[i]
  OBVIOUS
<1>4. v \in 0 .. n /\ (v # 0 => Sets(p, v, k))
  BY DEF KeyOk, Sets
<1>5. SavedOrToSave(o, v, k, n, rest) => SavedOrToSave(p, v, k, n, rest)
  <2>1. Right(o, v, k, n) => Right(p, v, k, n)
    <3>1. CASE LeftBy(o, k, n) = 0
      <4>1. Right(o, v, k, n) => v = 0 \/ v = LeftBy(o, k, n)
        BY DEF Right
      <4> QED
        BY <3>1, <4>1, <1>1 DEF Right
    <3>2. CASE LeftBy(o, k, n) # 0
      <4>1. p[LeftBy(o, k, n)] = o[LeftBy(o, k, n)]
        BY <3>2, <1>2
      <4> QED
        BY <4>1, <1>1 DEF Right
    <3> QED
      BY <3>1, <3>2
  <2> QED
    BY <2>1, <1>1, <1>3 DEF SavedOrToSave, Touches
<1>6. NoneOlder(o, v, k, rest) => NoneOlder(p, v, k, rest)
  BY <1>3 DEF NoneOlder, Sets
<1> QED
  BY <1>4, <1>5, <1>6 DEF KeyOk

\* A key that expires is as it must be.
LEMMA KeyExpired ==
  ASSUME NEW o, NEW v, NEW k, NEW n \in Nat, NEW rest \in SUBSET (1 .. n),
         NEW tried, KeyOk(o, v, k, n, rest, tried), v # 0, o[v].ttl
  PROVE  KeyOk(o, 0, k, n, rest, tried)
<1>1. Right(o, v, k, n) => Right(o, 0, k, n)
  BY DEF Right
<1>2. SavedOrToSave(o, 0, k, n, rest)
  BY <1>1 DEF KeyOk, SavedOrToSave
<1>3. NoneOlder(o, 0, k, rest)
  BY DEF NoneOlder
<1> QED
  BY <1>2, <1>3 DEF KeyOk

\* A key that a stopped process leaves is as it must be, of the operations that are still
\* seen in Redis.
LEMMA KeyRestarted ==
  ASSUME NEW p, NEW k \in Keys, NEW n \in Nat, NEW v \in 0 .. n,
         v # 0 => Sets(p, v, k), \A i \in 1 .. n : Touches(p, i, k) => i = v
  PROVE  KeyOk(p, v, k, n, {}, {})
<1>1. LastBy(p, k, n) = v
  BY LastIsUnique DEF Sets, Touches
<1> QED
  BY <1>1 DEF KeyOk, SavedOrToSave, NoneOlder, Right, LeftBy, Sets

-----------------------------------------------------------------------------
(* One job.                                                                *)

\* What is written is not written again, and the history only grows.
LEMMA JobStays ==
  ASSUME NEW o, NEW j, NEW v, NEW k, NEW n, NEW W, NEW X,
         JobOk(o, j, v, k, n, W), W \subseteq X
  PROVE  JobOk(o, j, v, k, n, X)
BY DEF JobOk

\* The next operation leaves the jobs it does not touch alone.
LEMMA JobNotTouched ==
  ASSUME NEW o, NEW p, NEW j, NEW v, NEW k, NEW n \in Nat, NEW W,
         \A i \in 1 .. n : p[i] = o[i], ~Touches(p, n + 1, k),
         JobOk(o, j, v, k, n, W)
  PROVE  JobOk(p, j, v, k, n + 1, W)
<1>1. LastBy(p, k, n + 1) = LastBy(o, k, n)
  BY LastIsLocal
<1>2. LastBy(o, k, n) \in 0 .. n
  BY LastIsLast
<1>3. LastBy(o, k, n) # 0 => p[LastBy(o, k, n)] = o[LastBy(o, k, n)]
  BY <1>2
<1>4. CASE LastBy(o, k, n) = 0
  BY <1>1, <1>4 DEF JobOk
<1>5. CASE LastBy(o, k, n) # 0
  BY <1>1, <1>3, <1>5 DEF JobOk
<1> QED
  BY <1>4, <1>5

\* A job that it touches is what it says.
LEMMA JobTouched ==
  ASSUME NEW p, NEW j, NEW v, NEW k, NEW n \in Nat, NEW W,
         Touches(p, n + 1, k),
         IF p[n + 1].kind = "set" THEN j = p[n + 1].value ELSE j \in {"none", "gone"}
  PROVE  JobOk(p, j, v, k, n + 1, W)
<1>1. LastBy(p, k, n + 1) = n + 1
  <2>1. n + 1 \in Nat /\ n + 1 \in 1 .. n + 1 /\ n + 1 \in 0 .. n + 1
    OBVIOUS
  <2>2. LastBy(p, k, n + 1) \in 0 .. n + 1 /\ n + 1 <= LastBy(p, k, n + 1)
    BY <2>1, LastIsLast DEF Touches
  <2> QED
    BY <2>2
<1> QED
  BY <1>1 DEF JobOk

\* An attempt does not touch a job whose last operation is written.
LEMMA JobTried ==
  ASSUME NEW o, NEW j, NEW v, NEW w, NEW k, NEW n, NEW m, NEW p \in Nat, NEW rest, NEW S,
         NEW W \in SUBSET (1 .. m), \A i \in W : i \notin S, m <= p,
         Executing(S, rest, n, m), KeyOk(o, v, k, n, rest, {}), MayLeave(o, v, w, k, S),
         JobOk(o, j, v, k, p, W)
  PROVE  JobOk(o, j, w, k, p, W)
<1>1. /\ n \in Nat /\ m \in Nat /\ n <= m
      /\ rest \subseteq S /\ n + 1 .. m \subseteq S /\ \A i \in S : i \in rest \/ i \in n + 1 .. m
  BY DEF Executing
<1> DEFINE last == LastBy(o, k, p)
<1>2. /\ last \in 0 .. p
      /\ last # 0 => k \in o[last].keys
      /\ \A i \in 1 .. p : k \in o[i].keys => i <= last
  BY LastIsLast
<1> HIDE DEF last
<1>3. ASSUME last \in W PROVE w = v
  <2>1. last \in 1 .. m /\ last \notin S
    BY <1>3
  <2>2. last \in 1 .. n
    BY <2>1, <1>1
  <2>3. LastBy(o, k, n) = last
    <3>1. last \in 0 .. n /\ last # 0
      BY <2>2, <1>1
    <3>2. \A i \in 1 .. n : k \in o[i].keys => i <= last
      BY <1>1, <1>2
    <3> QED
      BY <3>1, <3>2, <1>1, <1>2, LastIsUnique
  <2>4. \A i \in rest : ~Touches(o, i, k)
    BY <2>1, <2>3, <1>1 DEF KeyOk, SavedOrToSave
  <2>5. \A i \in n + 1 .. m : ~Touches(o, i, k)
    BY <2>2, <1>1, <1>2 DEF Touches
  <2>6. ~(\E i \in S : Touches(o, i, k))
    BY <2>4, <2>5, <1>1
  <2> QED
    BY <2>6 DEF MayLeave
<1>4. JobOk(o, j, v, k, p, W) => JobOk(o, j, w, k, p, W)
  BY <1>3 DEF JobOk, last
<1> QED
  BY <1>4

\* Once nothing waits to be written, a job is what Redis has.
LEMMA JobIsSaved ==
  ASSUME NEW o, NEW j, NEW v, NEW k, NEW n \in Nat, NEW W,
         \A i \in 1 .. n : o[i] \in Ops,
         v # 0 => Sets(o, v, k), Right(o, v, k, n), JobOk(o, j, v, k, n, W)
  PROVE  JobSaved(o, j, v)
<1> DEFINE last == LastBy(o, k, n)
<1>1. last \in 0 .. n
  BY LastIsLast
<1>2. last # 0 /\ o[last].kind = "set" /\ o[last].ttl =>
        o[last].value = "succeeded" /\ FinishedJobTTL # 0
  BY <1>1, OpFacts
<1> HIDE DEF last
<1>3. LeftBy(o, k, n) = IF last = 0 THEN 0 ELSE IF o[last].kind = "set" THEN last ELSE 0
  BY DEF LeftBy, last
<1>4. \/ j \in {"none", "gone"} /\ (last = 0 \/ o[last].kind # "set")
      \/ last # 0 /\ o[last].kind = "set" /\ j = o[last].value
      \/ j \in {"none", "gone"} /\ v = 0 /\ o[last].kind = "set" /\ o[last].ttl
  BY DEF JobOk, last
<1>5. CASE v # 0
  <2>1. v = last /\ last # 0 /\ o[last].kind = "set"
    BY <1>3, <1>5 DEF Right
  <2> QED
    BY <2>1, <1>4, <1>5 DEF JobSaved
<1>6. CASE v = 0
  <2>1. last = 0 \/ o[last].kind # "set" \/ o[last].ttl
    BY <1>3, <1>6 DEF Right
  <2> QED
    BY <2>1, <1>2, <1>4, <1>6 DEF JobSaved
<1> QED
  BY <1>5, <1>6

-----------------------------------------------------------------------------
(* The steps.                                                              *)

USE DEF Trying

\* What is to be executed again was executed.
LEMMA UptoRest ==
  ASSUME Typed
  PROVE  Upto \in Nat /\ Upto <= pushed /\ Rest \in SUBSET (1 .. Upto)
<1>1. /\ taken \in Nat /\ done \in Nat /\ pushed \in Nat /\ taken <= pushed /\ done <= taken
      /\ ops \in SUBSET (1 .. taken) /\ retry \in SUBSET (1 .. done)
  BY WriterAssumption DEF Typed
<1>2. CASE Trying
  <2>1. Upto = taken /\ (Rest = ops \/ Rest = {})
    BY <1>2 DEF Upto, Rest
  <2> QED
    BY <1>1, <2>1
<1>3. CASE ~Trying
  <2>1. Upto = done /\ Rest = retry
    BY <1>3 DEF Upto, Rest
  <2>2. done <= pushed
    BY <1>1
  <2> QED
    BY <1>1, <2>1, <2>2
<1> QED
  BY <1>2, <1>3

\* What a step leaves alone, if it changes neither the operations nor Redis.
LEMMA SameKeys ==
  ASSUME KeysAreRight, UNCHANGED <<op, redis>>, Upto' = Upto, Rest' = Rest, Tried' = Tried
  PROVE  KeysAreRight'
BY DEF KeysAreRight

LEMMA SameJobs ==
  ASSUME JobsAreRight, UNCHANGED <<op, redis, job, pushed, running, lost>>, Written \subseteq Written'
  PROVE  JobsAreRight'
<1>1. ASSUME running', NEW k \in Keys PROVE JobOk(op, job[k], redis[k], k, pushed, Written')
  BY <1>1, JobStays DEF JobsAreRight
<1>2. ASSUME ~running', NEW k \in Keys \ lost PROVE JobSaved(op, job[k], redis[k])
  BY <1>2 DEF JobsAreRight
<1> QED
  BY <1>1, <1>2 DEF JobsAreRight

\* Requests come and go, the stop comes and gives up.
LEMMA OthersKeep ==
  ASSUME IInv, Stop \/ GiveUp \/ (\E q \in Requests : Wait(q) \/ Released(q)), UNCHANGED providerVars
  PROVE  IInv'
<1>1. /\ UNCHANGED <<queueVars, loopVars, redis, running, providerVars>>
      /\ \/ closed' = TRUE /\ UNCHANGED abandon
         \/ closed /\ loop # "exited" /\ abandon' = TRUE /\ UNCHANGED closed
         \/ UNCHANGED <<closed, abandon>>
  BY DEF Stop, GiveUp, Wait, Released, flags
<1>2. UNCHANGED <<op, pushed, taken, done, loop, ops, failed, retry, ok, redis, running, job, lost>>
  BY <1>1 DEF queueVars, loopVars, providerVars
<1>3. closed' \in BOOLEAN /\ abandon' \in BOOLEAN
  BY <1>1, Zenon DEF IInv, Typed
<1>4. Typed'
  BY <1>2, <1>3 DEF IInv, Typed
<1>9. /\ closed => closed'
      /\ abandon => abandon'
      /\ abandon' => abandon \/ closed
      /\ (loop = "exited" /\ ~abandon') => ~abandon
  <2>1. CASE closed' = TRUE /\ abandon' = abandon
    BY <2>1, Zenon
  <2>2. CASE closed /\ loop # "exited" /\ abandon' = TRUE /\ closed' = closed
    BY <2>2, Zenon
  <2>3. CASE closed' = closed /\ abandon' = abandon
    BY <2>3, Zenon
  <2> QED
    BY <1>1, <2>1, <2>2, <2>3
<1>5. LoopIsRight'
  BY <1>2, <1>9 DEF IInv, LoopIsRight
<1>6. KeysAreRight'
  BY <1>2, SameKeys DEF IInv, Upto, Rest, Tried
<1>7. JobsAreRight'
  BY <1>2, SameJobs DEF IInv, Written
<1> QED
  BY <1>4, <1>5, <1>6, <1>7 DEF IInv

\* The operations that the loop takes are the next ones.
LEMMA TakeKeeps ==
  ASSUME IInv, Take, UNCHANGED providerVars
  PROVE  IInv'
<1> DEFINE next == {i \in taken + 1 .. pushed : i <= taken + MaxBatch}
<1> DEFINE b == IF pushed <= taken + MaxBatch THEN pushed ELSE taken + MaxBatch
<1>0. /\ taken \in Nat /\ pushed \in Nat /\ taken <= pushed /\ MaxBatch \in Nat /\ MaxBatch >= 1
      /\ done = taken /\ retry \subseteq 1 .. done /\ pushed <= MaxOps /\ MaxOps \in Nat
  BY WriterAssumption DEF IInv, Typed, LoopIsRight, Take
<1>1. b \in Nat /\ taken <= b /\ b <= pushed /\ (b = taken => taken = pushed)
  BY <1>0
<1>2. next = taken + 1 .. b
  BY <1>0, <1>1
<1>3. Cardinality(next) = b - taken
  <2>1. taken + 1 \in Int /\ b \in Int
    BY <1>0, <1>1
  <2>2. Cardinality(taken + 1 .. b) = IF taken + 1 > b THEN 0 ELSE b - (taken + 1) + 1
    BY <2>1, FS_Interval
  <2>3. Cardinality(next) = Cardinality(taken + 1 .. b)
    <3> HIDE DEF next, b
    <3> QED
      BY <1>2
  <2>4. (IF taken + 1 > b THEN 0 ELSE b - (taken + 1) + 1) = b - taken
    <3> HIDE DEF next, b
    <3> QED
      BY <1>0, <1>1
  <2> HIDE DEF next, b
  <2> QED
    BY <2>2, <2>3, <2>4
<1>4. /\ loop = "take" /\ taken' = taken + Cardinality(next) /\ ops' = retry \cup next
      /\ (retry \cup next # {} \/ closed)
      /\ loop' = (IF retry \cup next = {} THEN "exited" ELSE "execute")
      /\ UNCHANGED <<op, pushed, done, running, closed, abandon, failed, retry, ok, redis, target>>
  BY DEF Take, flags
<1>5. taken' = b
  BY <1>4, <1>3, <1>0, <1>1
<1>6. UNCHANGED <<job, lost>>
  BY DEF providerVars
<1>7. next = {} => b = taken
  <2>1. next = {} => ~(taken + 1 <= b)
    BY <1>2, <1>0, <1>1
  <2> QED
    BY <2>1, <1>0, <1>1
<1>8. next \subseteq 1 .. b /\ \A i \in next : i > taken
  BY <1>2, <1>0, <1>1
<1> HIDE DEF next, b
<1>9. Typed'
  <2>1. taken' \in 0 .. pushed' /\ done' \in 0 .. taken'
    BY <1>0, <1>1, <1>4, <1>5
  <2>2. ops' \subseteq 1 .. taken' /\ retry' \subseteq 1 .. done'
    BY <1>0, <1>1, <1>4, <1>5, <1>8
  <2>3. loop' \in Loops
    BY <1>4 DEF Loops
  <2>4. redis' \in [Keys -> 0 .. taken']
    <3>1. 0 .. taken \subseteq 0 .. b
      BY <1>0, <1>1
    <3>2. redis \in [Keys -> 0 .. taken]
      BY DEF IInv, Typed
    <3> QED
      BY <3>1, <3>2, <1>4, <1>5
  <2> QED
    BY <2>1, <2>2, <2>3, <2>4, <1>4, <1>6 DEF IInv, Typed
<1>10. LoopIsRight'
  <2>1. CASE retry \cup next = {}
    <3>1. loop' = "exited" /\ taken' = taken /\ taken = pushed /\ ops' = {} /\ retry = {} /\ closed
      BY <2>1, <1>1, <1>4, <1>5, <1>7
    <3> QED
      BY <3>1, <1>0, <1>4 DEF IInv, LoopIsRight
  <2>2. CASE retry \cup next # {}
    <3>1. loop' = "execute" /\ ops' = retry' \cup (done' + 1 .. taken')
      BY <2>2, <1>0, <1>2, <1>4, <1>5
    <3> QED
      BY <3>1, <1>4 DEF IInv, LoopIsRight
  <2> QED
    BY <2>1, <2>2
<1>11. KeysAreRight'
  BY <1>4, SameKeys DEF IInv, Upto, Rest, Tried
<1>12. JobsAreRight'
  <2>1. Written \subseteq Written'
    BY <1>0, <1>1, <1>4, <1>5, <1>8 DEF Written
  <2> QED
    BY <2>1, <1>4, <1>6, SameJobs DEF IInv
<1> QED
  BY <1>9, <1>10, <1>11, <1>12 DEF IInv

\* What the loop executes is what it must retry and what it has just taken.
LEMMA LoopExecutes ==
  ASSUME IInv, loop = "execute"
  PROVE  /\ Executing(ops, retry, done, taken)
         /\ ops \in SUBSET (1 .. taken) /\ taken \in Nat
         /\ \A k \in Keys : KeyOk(op, redis[k], k, done, retry, {})
         /\ \A i \in ops : op[i] \in Ops
<1>1. /\ ops = retry \cup (done + 1 .. taken) /\ retry \subseteq 1 .. done
      /\ ops \subseteq 1 .. taken
      /\ pushed \in 0 .. MaxOps /\ taken \in 0 .. pushed /\ done \in 0 .. taken
      /\ MaxOps \in Nat /\ op \in [1 .. MaxOps -> Ops]
  BY WriterAssumption DEF IInv, Typed, LoopIsRight
<1>2. Executing(ops, retry, done, taken) /\ taken \in Nat
  BY <1>1 DEF Executing
<1>3. \A i \in ops : op[i] \in Ops
  BY <1>1
<1>4. \A k \in Keys : KeyOk(op, redis[k], k, done, retry, {})
  BY DEF IInv, KeysAreRight, Upto, Rest, Tried
<1> QED
  BY <1>1, <1>2, <1>3, <1>4

\* An attempt, whatever it does: what it may leave decides the rest.
LEMMA AttemptKeeps ==
  ASSUME IInv, loop = "execute", loop' = "attempted", failed' \in BOOLEAN,
         redis' \in [Keys -> 0 .. taken],
         UNCHANGED <<op, pushed, taken, done, running, closed, abandon, ops, retry, ok, job, lost>>,
         \A k \in Keys : MayLeave(op, redis[k], redis'[k], k, ops),
         ~failed' => \A k \in Keys : KeyOk(op, redis'[k], k, taken, {}, {})
  PROVE  IInv'
<1>1. /\ Executing(ops, retry, done, taken)
      /\ \A k \in Keys : KeyOk(op, redis[k], k, done, retry, {})
  BY LoopExecutes
<1>2. Typed'
  BY DEF IInv, Typed, Loops
<1>3. LoopIsRight'
  BY DEF IInv, LoopIsRight
<1>4. KeysAreRight'
  <2>1. CASE failed'
    <3>1. Upto' = taken /\ Rest' = ops /\ Tried' = ops
      BY <2>1 DEF Upto, Rest, Tried
    <3>2. \A k \in Keys : KeyOk(op, redis'[k], k, taken, ops, ops)
      BY <1>1, KeyTried
    <3> QED
      BY <3>1, <3>2 DEF KeysAreRight
  <2>2. CASE ~failed'
    <3>1. Upto' = taken /\ Rest' = {} /\ Tried' = {}
      BY <2>2 DEF Upto, Rest, Tried
    <3> QED
      BY <3>1, <2>2 DEF KeysAreRight
  <2> QED
    BY <2>1, <2>2
<1>5. JobsAreRight'
  <2>1. running /\ running'
    BY DEF IInv, LoopIsRight
  <2>2. Written' = Written /\ Written \in SUBSET (1 .. taken) /\ \A i \in Written : i \notin ops
    BY DEF Written
  <2>3. pushed \in Nat /\ taken <= pushed
    BY DEF IInv, Typed
  <2>4. ASSUME NEW k \in Keys PROVE JobOk(op, job[k], redis'[k], k, pushed, Written)
    <3>1. JobOk(op, job[k], redis[k], k, pushed, Written)
      BY <2>1 DEF IInv, JobsAreRight
    <3>2. KeyOk(op, redis[k], k, done, retry, {}) /\ MayLeave(op, redis[k], redis'[k], k, ops)
      BY <1>1
    <3> HIDE DEF Written
    <3> QED
      BY <3>1, <3>2, <2>2, <2>3, <1>1, JobTried
  <2> QED
    BY <2>1, <2>2, <2>4 DEF JobsAreRight
<1> QED
  BY <1>2, <1>3, <1>4, <1>5 DEF IInv

\* What an attempt may leave is the number of an operation that it took.
LEMMA AttemptTyped ==
  ASSUME IInv, loop = "execute", redis' = [k \in Keys |-> redis'[k]],
         \A k \in Keys : MayLeave(op, redis[k], redis'[k], k, ops)
  PROVE  redis' \in [Keys -> 0 .. taken]
<1>1. /\ ops \in SUBSET (1 .. taken) /\ taken \in Nat /\ redis \in [Keys -> 0 .. taken]
  BY LoopExecutes DEF IInv, Typed
<1>2. ASSUME NEW k \in Keys PROVE redis'[k] \in 0 .. taken
  <2>1. redis'[k] = redis[k] \/ redis'[k] = 0 \/ redis'[k] \in ops
    BY DEF MayLeave
  <2>2. redis[k] \in 0 .. taken /\ 0 \in 0 .. taken
    BY <1>1
  <2>3. \A i \in ops : i \in 0 .. taken
    BY <1>1
  <2> QED
    BY <2>1, <2>2, <2>3
<1> QED
  BY <1>2

\* The pipelines of an attempt are operations that the loop took.
LEMMA ExecuteMayLeave ==
  ASSUME IInv, Execute
  PROVE  /\ loop = "execute"
         /\ redis' \in [Keys -> 0 .. taken]
         /\ \A k \in Keys : /\ MayLeave(op, redis[k], redis'[k], k, ops)
                            /\ KeyOk(op, redis'[k], k, taken, {}, {})
<1>1. loop = "execute" /\ redis' = Executed(redis, ops)
  BY DEF Execute
<1>2. /\ Executing(ops, retry, done, taken)
      /\ \A k \in Keys : KeyOk(op, redis[k], k, done, retry, {})
  BY <1>1, LoopExecutes
<1>3. \A k \in Keys : /\ MayLeave(op, redis[k], redis'[k], k, ops)
                      /\ KeyOk(op, redis'[k], k, taken, {}, {})
  BY <1>1, <1>2, KeyExecuted
<1>4. redis' = [k \in Keys |-> redis'[k]]
  BY <1>1 DEF Executed
<1> QED
  BY <1>1, <1>3, <1>4, AttemptTyped

LEMMA ExecuteFailsMayLeave ==
  ASSUME IInv, ExecuteFails
  PROVE  /\ loop = "execute"
         /\ redis' \in [Keys -> 0 .. taken]
         /\ \A k \in Keys : MayLeave(op, redis[k], redis'[k], k, ops)
<1>0. loop = "execute"
  BY DEF ExecuteFails
<1>1. /\ ops \in SUBSET (1 .. taken) /\ taken \in Nat
      /\ \A i \in ops : op[i] \in Ops
  BY <1>0, LoopExecutes
<1>2. PICK s \in ops, S \in SUBSET ops, K \in SUBSET Keys :
        LET before == {i \in ops : i < s}
            pipeline == {i \in ops : i >= s /\ \A j \in ops : s <= j /\ j <= i => ~IsDelAll(j)}
        IN  IF IsDelAll(s)
              THEN redis' = [k \in Keys |-> IF k \in K THEN 0 ELSE Executed(redis, before)[k]]
              ELSE S \subseteq pipeline /\ redis' = Executed(redis, before \cup S)
  BY DEF ExecuteFails
<1> DEFINE before == {i \in ops : i < s}
<1>3. before \in SUBSET ops /\ before \cup S \in SUBSET ops
  OBVIOUS
<1> HIDE DEF before
<1>4. CASE IsDelAll(s)
  <2>1. redis' = [k \in Keys |-> IF k \in K THEN 0 ELSE Executed(redis, before)[k]]
    BY <1>2, <1>4 DEF before
  <2>2. ASSUME NEW k \in Keys PROVE MayLeave(op, redis[k], redis'[k], k, ops)
    <3>1. MayLeave(op, redis[k], Executed(redis, before)[k], k, ops)
      BY <1>1, <1>3, ExecutedMayLeave
    <3>2. Touches(op, s, k)
      BY <1>1, <1>4, OpFacts DEF IsDelAll, Touches
    <3>3. MayLeave(op, redis[k], 0, k, ops)
      BY <3>2 DEF MayLeave
    <3> QED
      BY <2>1, <3>1, <3>3
  <2>3. redis' = [k \in Keys |-> redis'[k]]
    BY <2>1
  <2> QED
    BY <1>0, <2>2, <2>3, AttemptTyped
<1>5. CASE ~IsDelAll(s)
  <2>1. redis' = Executed(redis, before \cup S)
    BY <1>2, <1>5 DEF before
  <2>2. \A k \in Keys : MayLeave(op, redis[k], redis'[k], k, ops)
    BY <2>1, <1>1, <1>3, ExecutedMayLeave
  <2>3. redis' = [k \in Keys |-> redis'[k]]
    BY <2>1 DEF Executed
  <2> QED
    BY <1>0, <2>2, <2>3, AttemptTyped
<1> QED
  BY <1>4, <1>5

LEMMA ExecuteKeeps ==
  ASSUME IInv, Execute \/ ExecuteFails, UNCHANGED providerVars
  PROVE  IInv'
<1>1. /\ loop' = "attempted"
      /\ UNCHANGED <<op, pushed, taken, done, running, closed, abandon, ops, retry, ok, job, lost>>
  BY DEF Execute, ExecuteFails, queueVars, flags, providerVars
<1>2. CASE Execute
  <2>1. failed' = FALSE
    BY <1>2 DEF Execute
  <2>2. failed' \in BOOLEAN /\ ~failed'
    BY <2>1, Zenon
  <2> QED
    BY <1>1, <1>2, <2>2, ExecuteMayLeave, AttemptKeeps
<1>3. CASE ExecuteFails
  <2>1. failed' = TRUE
    BY <1>3 DEF ExecuteFails
  <2>2. failed' \in BOOLEAN /\ failed'
    BY <2>1, Zenon
  <2> QED
    BY <1>1, <1>3, <2>2, ExecuteFailsMayLeave, AttemptKeeps
<1> QED
  BY <1>2, <1>3

\* The loop draws the consequences of an attempt, and waits.
LEMMA AttemptedKeeps ==
  ASSUME IInv, Attempted, UNCHANGED providerVars
  PROVE  IInv'
<1>1. /\ loop = "attempted" /\ done' = taken /\ loop' = "attempt handled"
      /\ UNCHANGED <<op, pushed, taken, running, closed, abandon, ops, failed, retry, ok, redis,
                     job, lost>>
  BY DEF Attempted, flags, providerVars
<1>2. Typed'
  <2>1. taken \in Nat /\ done \in 0 .. taken /\ retry \subseteq 1 .. done
    BY DEF IInv, Typed
  <2>2. done' \in 0 .. taken'
    <3>1. done' = taken /\ taken' = taken
      BY <1>1
    <3>2. taken \in 0 .. taken
      BY <2>1
    <3> QED
      BY <3>1, <3>2
  <2>3. retry' \subseteq 1 .. done'
    <3>1. 1 .. done \subseteq 1 .. taken
      BY <2>1
    <3>2. retry' = retry /\ done' = taken
      BY <1>1
    <3> QED
      BY <2>1, <3>1, <3>2
  <2> QED
    BY <1>1, <2>2, <2>3 DEF IInv, Typed, Loops
<1>3. LoopIsRight'
  BY <1>1 DEF IInv, LoopIsRight
<1>4. KeysAreRight'
  BY <1>1, SameKeys DEF IInv, Upto, Rest, Tried
<1>5. JobsAreRight'
  BY <1>1, SameJobs DEF IInv, Written
<1> QED
  BY <1>2, <1>3, <1>4, <1>5 DEF IInv

LEMMA SucceededKeeps ==
  ASSUME IInv, Succeeded, UNCHANGED providerVars
  PROVE  IInv'
<1>1. /\ loop = "attempt handled" /\ ~failed /\ retry' = {} /\ ok' = TRUE /\ loop' = "take"
      /\ UNCHANGED <<op, pushed, taken, done, running, closed, abandon, ops, failed, redis,
                     job, lost>>
  BY DEF Succeeded, queueVars, flags, providerVars
<1>2. ok' \in BOOLEAN
  BY <1>1, Zenon
<1>3. Typed'
  BY <1>1, <1>2 DEF IInv, Typed, Loops
<1>4. LoopIsRight'
  BY <1>1 DEF IInv, LoopIsRight
<1>5. KeysAreRight'
  <2>1. done = taken
    BY <1>1 DEF IInv, LoopIsRight
  <2>2. Upto' = Upto /\ Rest' = Rest /\ Tried' = Tried
    BY <1>1, <2>1 DEF Upto, Rest, Tried
  <2> QED
    BY <1>1, <2>2, SameKeys DEF IInv
<1>6. JobsAreRight'
  BY <1>1, SameJobs DEF IInv, Written
<1> QED
  BY <1>3, <1>4, <1>5, <1>6 DEF IInv

LEMMA FailedKeeps ==
  ASSUME IInv, Failed, UNCHANGED providerVars
  PROVE  IInv'
<1>1. /\ loop = "attempt handled" /\ failed /\ retry' = Coalesce(ops) /\ ok' = FALSE
      /\ loop' = "backoff"
      /\ UNCHANGED <<op, pushed, taken, done, running, closed, abandon, ops, failed, redis,
                     job, lost>>
  BY DEF Failed, queueVars, flags, providerVars
<1>2. ok' \in BOOLEAN /\ ~ok'
  BY <1>1, Zenon
<1>3. done = taken /\ taken \in Nat /\ ops \in SUBSET (1 .. taken) /\ taken <= MaxOps
  <2>1. done = taken
    BY <1>1 DEF IInv, LoopIsRight
  <2>2. /\ MaxOps \in Nat /\ pushed \in 0 .. MaxOps /\ taken \in 0 .. pushed
        /\ ops \subseteq 1 .. taken
    BY WriterAssumption DEF IInv, Typed
  <2> QED
    BY <2>1, <2>2
<1>4. Coalesce(ops) \subseteq ops
  BY DEF Coalesce
<1>5. Typed'
  <2>1. retry' \subseteq 1 .. done'
    BY <1>1, <1>3, <1>4
  <2> QED
    BY <1>1, <1>2, <2>1 DEF IInv, Typed, Loops
<1>6. LoopIsRight'
  BY <1>1, <1>2 DEF IInv, LoopIsRight
<1>7. KeysAreRight'
  <2>1. Upto = taken /\ Rest = ops /\ Tried = ops
    BY <1>1 DEF Upto, Rest, Tried
  <2>2. Upto' = taken /\ Rest' = Coalesce(ops) /\ Tried' = {}
    BY <1>1, <1>3 DEF Upto, Rest, Tried
  <2>3. ASSUME NEW k \in Keys PROVE KeyOk(op, redis[k], k, taken, Coalesce(ops), {})
    <3>1. KeyOk(op, redis[k], k, taken, ops, ops)
      BY <2>1 DEF IInv, KeysAreRight
    <3>2. op \in [1 .. MaxOps -> Ops]
      BY DEF IInv, Typed
    <3> QED
      BY <3>1, <3>2, <1>3, KeyCoalesced
  <2> QED
    BY <1>1, <2>2, <2>3 DEF KeysAreRight
<1>8. JobsAreRight'
  <2>1. Written \subseteq Written'
    BY <1>1, <1>4 DEF Written
  <2> QED
    BY <1>1, <2>1, SameJobs DEF IInv
<1> QED
  BY <1>5, <1>6, <1>7, <1>8 DEF IInv

LEMMA BackoffKeeps ==
  ASSUME IInv, Backoff, UNCHANGED providerVars
  PROVE  IInv'
<1>1. /\ loop = "backoff" /\ loop' = (IF abandon THEN "exited" ELSE "take")
      /\ UNCHANGED <<op, pushed, taken, done, running, closed, abandon, ops, failed, retry, ok,
                     redis, job, lost>>
  BY DEF Backoff, queueVars, flags, providerVars
<1>2. loop' \in Loops /\ loop' \in {"take", "exited"}
  BY <1>1 DEF Loops
<1>3. Typed'
  BY <1>1, <1>2 DEF IInv, Typed
<1>4. LoopIsRight'
  BY <1>1 DEF IInv, LoopIsRight
<1>5. KeysAreRight'
  BY <1>1, <1>2, SameKeys DEF IInv, Upto, Rest, Tried
<1>6. JobsAreRight'
  BY <1>1, SameJobs DEF IInv, Written
<1> QED
  BY <1>3, <1>4, <1>5, <1>6 DEF IInv

\* A key expires, and with it the job that a next process will find.
LEMMA ExpireKeeps ==
  ASSUME IInv, NEW h \in Keys, Expire(h)
  PROVE  IInv'
<1>1. /\ redis[h] # 0 /\ op[redis[h]].ttl /\ redis' = [redis EXCEPT ![h] = 0]
      /\ UNCHANGED <<op, pushed, taken, done, running, closed, abandon, loop, ops, failed, retry,
                     ok, job, lost>>
  BY DEF Expire, queueVars, flags, loopVars, providerVars
<1>2. redis \in [Keys -> 0 .. taken] /\ taken \in Nat
  BY DEF IInv, Typed
<1>3. redis'[h] = 0 /\ \A k \in Keys : k # h => redis'[k] = redis[k]
  BY <1>1, <1>2
<1>4. Typed'
  <2>1. redis' \in [Keys -> 0 .. taken]
    BY <1>1, <1>2
  <2> QED
    BY <1>1, <2>1 DEF IInv, Typed
<1>5. LoopIsRight'
  BY <1>1 DEF IInv, LoopIsRight
<1>6. Upto \in Nat /\ Rest \in SUBSET (1 .. Upto)
  BY UptoRest DEF IInv
<1>7. KeysAreRight'
  <2>1. ASSUME NEW k \in Keys PROVE KeyOk(op, redis'[k], k, Upto, Rest, Tried)
    <3>1. KeyOk(op, redis[k], k, Upto, Rest, Tried)
      BY DEF IInv, KeysAreRight
    <3>2. CASE k = h
      BY <3>1, <3>2, <1>1, <1>3, <1>6, KeyExpired
    <3>3. CASE k # h
      BY <3>1, <3>3, <1>3
    <3> QED
      BY <3>2, <3>3
  <2>2. Upto' = Upto /\ Rest' = Rest /\ Tried' = Tried
    BY <1>1 DEF Upto, Rest, Tried
  <2> QED
    BY <1>1, <2>1, <2>2 DEF KeysAreRight
<1>8. JobsAreRight'
  <2>1. Written' = Written
    BY <1>1 DEF Written
  <2>2. ASSUME running', NEW k \in Keys PROVE JobOk(op, job[k], redis'[k], k, pushed, Written)
    <3>1. JobOk(op, job[k], redis[k], k, pushed, Written)
      BY <2>2, <1>1 DEF IInv, JobsAreRight
    <3>2. redis'[k] = redis[k] \/ redis'[k] = 0
      BY <1>3
    <3> QED
      BY <3>1, <3>2 DEF JobOk
  <2>3. ASSUME ~running', NEW k \in Keys \ lost PROVE JobSaved(op, job[k], redis'[k])
    <3>1. JobSaved(op, job[k], redis[k])
      BY <2>3, <1>1 DEF IInv, JobsAreRight
    <3>2. CASE k = h
      <4>1. job[h] = op[redis[h]].value /\ redis[h] \in 1 .. taken
        BY <3>1, <3>2, <1>1, <1>2 DEF JobSaved
      <4>2. KeyOk(op, redis[h], h, Upto, Rest, Tried)
        BY DEF IInv, KeysAreRight
      <4>3. op[redis[h]].kind = "set"
        BY <4>2, <1>1 DEF KeyOk, Sets
      <4>4. op[redis[h]] \in Ops
        BY <4>1, WriterAssumption DEF IInv, Typed
      <4>5. op[redis[h]].value = "succeeded" /\ FinishedJobTTL # 0
        BY <4>3, <4>4, <1>1, OpFacts
      <4> QED
        BY <4>1, <4>5, <3>2, <1>3 DEF JobSaved
    <3>3. CASE k # h
      BY <3>1, <3>3, <1>3
    <3> QED
      BY <3>2, <3>3
  <2> QED
    BY <1>1, <2>1, <2>2, <2>3 DEF JobsAreRight
<1> QED
  BY <1>4, <1>5, <1>7, <1>8 DEF IInv

\* An event queues an operation, which says what becomes of the jobs it touches.
LEMMA PushKeeps ==
  ASSUME IInv, NEW x \in Ops, Push(x), lost' = lost, job' \in [Keys -> JobStates],
         \A k \in Keys :
           IF k \in x.keys
             THEN IF x.kind = "set" THEN job'[k] = x.value ELSE job'[k] \in {"none", "gone"}
             ELSE job'[k] = job[k]
  PROVE  IInv'
<1>1. /\ running /\ ~closed /\ pushed < MaxOps /\ pushed' = pushed + 1
      /\ op' = [op EXCEPT ![pushed + 1] = x]
      /\ UNCHANGED <<taken, done, running, closed, abandon, loop, ops, failed, retry, ok, redis>>
  BY DEF Push, flags, loopVars
<1>2. /\ MaxOps \in Nat /\ pushed \in Nat /\ taken \in Nat /\ taken <= pushed /\ done \in Nat
      /\ done <= taken /\ op \in [1 .. MaxOps -> Ops]
      /\ ops \in SUBSET (1 .. taken) /\ retry \in SUBSET (1 .. done)
  BY WriterAssumption DEF IInv, Typed
<1>3. /\ op' \in [1 .. MaxOps -> Ops] /\ op'[pushed + 1] = x
      /\ \A i \in 1 .. pushed : op'[i] = op[i]
  BY <1>1, <1>2
<1>4. Typed'
  <2>1. pushed' \in 0 .. MaxOps' /\ taken' \in 0 .. pushed'
    BY <1>1, <1>2
  <2> QED
    BY <1>1, <1>3, <2>1 DEF IInv, Typed
<1>5. LoopIsRight'
  BY <1>1 DEF IInv, LoopIsRight
<1>6. KeysAreRight'
  <2>1. Upto' = Upto /\ Rest' = Rest /\ Tried' = Tried
    BY <1>1 DEF Upto, Rest, Tried
  <2>2. Upto \in Nat /\ Rest \in SUBSET (1 .. Upto) /\ Upto <= pushed
    BY UptoRest DEF IInv
  <2>3. \A i \in 1 .. Upto : op'[i] = op[i]
    BY <1>2, <1>3, <2>2
  <2>4. \A k \in Keys : KeyOk(op', redis[k], k, Upto, Rest, Tried)
    BY <2>2, <2>3, KeyPushed DEF IInv, KeysAreRight
  <2> QED
    BY <1>1, <2>1, <2>4 DEF KeysAreRight
<1>7. JobsAreRight'
  <2>1. Written' = Written
    BY <1>1 DEF Written
  <2>2. ASSUME NEW k \in Keys PROVE JobOk(op', job'[k], redis[k], k, pushed + 1, Written)
    <3>1. JobOk(op, job[k], redis[k], k, pushed, Written)
      BY <1>1 DEF IInv, JobsAreRight
    <3>2. CASE k \in x.keys
      <4>1. Touches(op', pushed + 1, k)
        BY <1>3, <3>2 DEF Touches
      <4>2. IF op'[pushed + 1].kind = "set" THEN job'[k] = op'[pushed + 1].value
                                             ELSE job'[k] \in {"none", "gone"}
        BY <1>3, <3>2
      <4> QED
        BY <4>1, <4>2, <1>2, JobTouched
    <3>3. CASE k \notin x.keys
      <4>1. ~Touches(op', pushed + 1, k) /\ job'[k] = job[k]
        BY <1>3, <3>3 DEF Touches
      <4> QED
        BY <4>1, <3>1, <1>2, <1>3, JobNotTouched
    <3> QED
      BY <3>2, <3>3
  <2> QED
    BY <1>1, <2>1, <2>2 DEF JobsAreRight
<1> QED
  BY <1>4, <1>5, <1>6, <1>7 DEF IInv

\* The events.
LEMMA SaveKeeps ==
  ASSUME IInv, NEW h \in Keys, NEW state \in {"open", "succeeded", "failed"}, NEW ttl \in BOOLEAN,
         SetOp(h, state, ttl) \in Ops, SaveJob(h, state, ttl)
  PROVE  IInv'
<1> DEFINE x == SetOp(h, state, ttl)
<1>1. x.keys = {h} /\ x.kind = "set" /\ x.value = state
  BY DEF SetOp
<1>2. Push(x) /\ job' = [job EXCEPT ![h] = state] /\ lost' = lost
  BY DEF SaveJob
<1>3. job \in [Keys -> JobStates] /\ state \in JobStates /\ x \in Ops
  BY DEF IInv, Typed, JobStates
<1> HIDE DEF x
<1>4. job' \in [Keys -> JobStates]
  BY <1>2, <1>3
<1>5. \A k \in Keys :
        IF k \in x.keys
          THEN IF x.kind = "set" THEN job'[k] = x.value ELSE job'[k] \in {"none", "gone"}
          ELSE job'[k] = job[k]
  BY <1>1, <1>2, <1>3
<1> QED
  BY <1>2, <1>3, <1>4, <1>5, PushKeeps

LEMMA ServiceKeeps ==
  ASSUME IInv, ServiceStep
  PROVE  IInv'
<1>0. /\ \A k \in Keys : /\ SetOp(k, "open", FALSE) \in Ops /\ SetOp(k, "failed", FALSE) \in Ops
                         /\ SetOp(k, "succeeded", FinishedJobTTL # 0) \in Ops
                         /\ DelOp(k) \in Ops
      /\ DelAllOp \in Ops
  BY DEF Ops, Saves
<1>1. ASSUME NEW k \in Keys, OnJobCreated(k) \/ OnJobEvent(k) \/ OnJobUpdated(k) PROVE IInv'
  <2>1. SaveJob(k, "open", FALSE)
    BY <1>1 DEF OnJobCreated, OnJobEvent, OnJobUpdated
  <2> QED
    BY <2>1, <1>0, SaveKeeps
<1>2. ASSUME NEW k \in Keys, OnJobSucceeded(k) PROVE IInv'
  <2>1. SaveJob(k, "succeeded", FinishedJobTTL # 0) /\ (FinishedJobTTL # 0) \in BOOLEAN
    BY <1>2 DEF OnJobSucceeded
  <2> QED
    BY <2>1, <1>0, SaveKeeps
<1>3. ASSUME NEW k \in Keys, OnJobTerminated(k) PROVE IInv'
  <2>1. SaveJob(k, "failed", FALSE)
    BY <1>3 DEF OnJobTerminated
  <2> QED
    BY <2>1, <1>0, SaveKeeps
<1>4. ASSUME NEW h \in Keys, OnJobDeleted(h) PROVE IInv'
  <2>1. Push(DelOp(h)) /\ job' = [job EXCEPT ![h] = "gone"] /\ lost' = lost
    BY <1>4 DEF OnJobDeleted
  <2>2. DelOp(h).keys = {h} /\ DelOp(h).kind = "del" /\ DelOp(h) \in Ops
    BY <1>0 DEF DelOp
  <2>3. job \in [Keys -> JobStates] /\ job' \in [Keys -> JobStates]
    BY <2>1 DEF IInv, Typed, JobStates
  <2>4. \A k \in Keys :
          IF k \in DelOp(h).keys
            THEN IF DelOp(h).kind = "set" THEN job'[k] = DelOp(h).value
                                          ELSE job'[k] \in {"none", "gone"}
            ELSE job'[k] = job[k]
    BY <2>1, <2>2, <2>3
  <2> QED
    BY <2>1, <2>2, <2>3, <2>4, PushKeeps
<1>5. CASE OnJobsDeleted
  <2>1. /\ Push(DelAllOp) /\ lost' = lost
        /\ job' = [k \in Keys |-> IF Exists(k) THEN "gone" ELSE job[k]]
    BY <1>5 DEF OnJobsDeleted
  <2>2. DelAllOp.keys = Keys /\ DelAllOp.kind = "delAll" /\ DelAllOp \in Ops
    BY <1>0 DEF DelAllOp
  <2>3. job \in [Keys -> JobStates] /\ job' \in [Keys -> JobStates]
    BY <2>1 DEF IInv, Typed, JobStates
  <2>4. \A k \in Keys :
          IF k \in DelAllOp.keys
            THEN IF DelAllOp.kind = "set" THEN job'[k] = DelAllOp.value
                                          ELSE job'[k] \in {"none", "gone"}
            ELSE job'[k] = job[k]
    BY <2>1, <2>2 DEF Exists
  <2> QED
    BY <2>1, <2>2, <2>3, <2>4, PushKeeps
<1> QED
  BY <1>1, <1>2, <1>3, <1>4, <1>5 DEF ServiceStep

\* A key that no operation still to be executed touches is as all the operations leave it.
LEMMA KeyIsSaved ==
  ASSUME IInv, NEW k \in Keys, \A i \in Unsaved : ~Touches(op, i, k)
  PROVE  Right(op, redis[k], k, pushed)
<1>1. /\ taken \in Nat /\ done \in Nat /\ pushed \in Nat /\ taken <= pushed /\ done <= taken
  BY WriterAssumption DEF IInv, Typed
<1>2. Upto \in Nat /\ Upto <= pushed /\ Rest \in SUBSET (1 .. Upto)
  BY UptoRest DEF IInv
<1>3. Rest \subseteq Unsaved
  BY DEF Rest, Unsaved
<1>4. Upto + 1 .. pushed \subseteq Unsaved
  <2>1. \A i \in 1 .. pushed : i > taken => i \in Unsaved
    BY DEF Unsaved
  <2>2. CASE Trying \/ done = taken
    <3>1. Upto = taken
      BY <2>2 DEF Upto
    <3> QED
      BY <2>1, <3>1, <1>1
  <2>3. CASE ~Trying /\ done # taken
    <3>1. loop = "execute" /\ Upto = done
      BY <2>3 DEF IInv, Typed, Loops, LoopIsRight, Upto
    <3>2. done + 1 .. taken \subseteq ops /\ ops \subseteq Unsaved
      BY <3>1 DEF IInv, LoopIsRight, Unsaved
    <3> QED
      BY <2>1, <3>1, <3>2, <1>1
  <2> QED
    BY <2>2, <2>3
<1>5. LastBy(op, k, pushed) = LastBy(op, k, Upto) /\ LeftBy(op, k, pushed) = LeftBy(op, k, Upto)
  <2>1. PICK n \in Nat, m \in Nat : n = Upto /\ m = pushed /\ n <= m
    BY <1>1, <1>2
  <2>2. \A i \in n + 1 .. m : ~Touches(op, i, k)
    BY <1>4, <2>1
  <2>3. LastBy(op, k, m) = LastBy(op, k, n) /\ LeftBy(op, k, m) = LeftBy(op, k, n)
    BY <2>1, <2>2, LastIsLocal
  <2> QED
    BY <2>1, <2>3
<1>6. LastBy(op, k, Upto) \notin Rest
  <2>1. LastBy(op, k, Upto) # 0 => Touches(op, LastBy(op, k, Upto), k)
    BY <1>2, LastIsLast DEF Touches
  <2>2. 0 \notin Rest
    BY <1>2
  <2> QED
    BY <2>1, <2>2, <1>3
<1>7. SavedOrToSave(op, redis[k], k, Upto, Rest)
  BY DEF IInv, KeysAreRight, KeyOk
<1>8. Right(op, redis[k], k, Upto)
  BY <1>6, <1>7 DEF SavedOrToSave
<1> QED
  BY <1>5, <1>8 DEF Right

\* The process ends: what Redis shows of the operations is all that is left of them.
LEMMA RestartKeeps ==
  ASSUME IInv, Restart
  PROVE  IInv'
<1>1. /\ running
      /\ lost' = UNION {op[i].keys : i \in Unsaved}
      /\ op' = [i \in 1 .. MaxOps |-> IF \E k \in Keys : redis[k] = i THEN op[i] ELSE None]
      /\ taken' = pushed /\ done' = pushed
      /\ running' = FALSE /\ closed' = FALSE /\ abandon' = FALSE
      /\ loop' = "off" /\ ops' = {} /\ failed' = FALSE /\ retry' = {} /\ ok' = TRUE
      /\ UNCHANGED <<pushed, redis, job>>
  BY DEF Restart
<1>2. /\ MaxOps \in Nat /\ pushed \in Nat /\ pushed <= MaxOps /\ taken \in Nat /\ taken <= pushed
      /\ op \in [1 .. MaxOps -> Ops] /\ redis \in [Keys -> 0 .. taken]
  BY WriterAssumption DEF IInv, Typed
<1>3. \A k \in Keys : redis[k] # 0 => Sets(op, redis[k], k)
  BY DEF IInv, KeysAreRight, KeyOk
<1>4. ASSUME NEW i \in 1 .. MaxOps, op'[i] # None
      PROVE  /\ op'[i] = op[i] /\ op[i].kind = "set"
             /\ \E k \in Keys : redis[k] = i /\ op[i].keys = {k}
  <2>1. PICK k \in Keys : redis[k] = i /\ op'[i] = op[i]
    BY <1>1, <1>4
  <2>2. op[i].kind = "set" /\ k \in op[i].keys /\ op[i] \in Ops
    BY <2>1, <1>2, <1>3 DEF Sets
  <2>3. op[i].keys = {k}
    <3>1. /\ \A g, h \in op[i].keys : g = h
          /\ op[i].keys \subseteq Keys
      BY <2>2, OpFacts
    <3> QED
      BY <3>1, <2>2
  <2> QED
    BY <2>1, <2>2, <2>3
<1>5. ASSUME NEW k \in Keys, redis[k] # 0 PROVE op'[redis[k]] = op[redis[k]]
  <2>1. redis[k] \in 1 .. MaxOps
    BY <1>2, <1>5
  <2> QED
    BY <2>1, <1>1
<1>6. None.kind = "none" /\ None.keys = {} /\ None \in Ops
  BY DEF None, Ops
<1>7. Typed'
  <2>1. op' \in [1 .. MaxOps -> Ops]
    BY <1>1, <1>2, <1>6
  <2>2. running' \in BOOLEAN /\ closed' \in BOOLEAN /\ abandon' \in BOOLEAN
    BY <1>1, Zenon
  <2>3. failed' \in BOOLEAN /\ ok' \in BOOLEAN
    BY <1>1, Zenon
  <2>4. redis' \in [Keys -> 0 .. taken']
    <3>1. 0 .. taken \subseteq 0 .. pushed
      BY <1>2
    <3> QED
      BY <3>1, <1>1, <1>2
  <2>5. pushed' \in 0 .. MaxOps' /\ taken' \in 0 .. pushed' /\ done' \in 0 .. taken'
    BY <1>1, <1>2
  <2>6. loop' \in Loops /\ ops' \subseteq 1 .. taken' /\ retry' \subseteq 1 .. done'
    BY <1>1 DEF Loops
  <2>7. job' \in [Keys -> JobStates]
    BY <1>1 DEF IInv, Typed
  <2> QED
    BY <2>1, <2>2, <2>3, <2>4, <2>5, <2>6, <2>7 DEF Typed
<1>8. LoopIsRight'
  <2>1. \A i \in 1 .. pushed : op'[i].kind \in {"set", "none"}
    BY <1>2, <1>4, <1>6
  <2>2. ~running' /\ ~abandon'
    BY <1>1, Zenon
  <2> QED
    BY <1>1, <2>1, <2>2 DEF LoopIsRight
<1>9. KeysAreRight'
  <2>1. Upto' = pushed /\ Rest' = {} /\ Tried' = {}
    BY <1>1 DEF Upto, Rest, Tried
  <2>2. ASSUME NEW k \in Keys PROVE KeyOk(op', redis[k], k, pushed, {}, {})
    <3>1. redis[k] \in 0 .. pushed
      BY <1>2
    <3>2. redis[k] # 0 => Sets(op', redis[k], k)
      BY <1>3, <1>5 DEF Sets
    <3>3. ASSUME NEW i \in 1 .. pushed, Touches(op', i, k) PROVE i = redis[k]
      <4>1. i \in 1 .. MaxOps
        BY <1>2
      <4>2. op'[i] # None
        BY <3>3, <1>6 DEF Touches
      <4>3. op'[i] = op[i] /\ \E h \in Keys : redis[h] = i /\ op[i].keys = {h}
        BY <4>1, <4>2, <1>4
      <4> QED
        BY <4>3, <3>3 DEF Touches
    <3> QED
      BY <3>1, <3>2, <3>3, <1>2, KeyRestarted
  <2> QED
    BY <1>1, <2>1, <2>2 DEF KeysAreRight
<1>10. JobsAreRight'
  <2>1. ~running'
    BY <1>1, Zenon
  <2>2. ASSUME NEW k \in Keys \ lost' PROVE JobSaved(op', job[k], redis[k])
    <3>1. \A i \in Unsaved : ~Touches(op, i, k)
      BY <1>1, <2>2 DEF Touches
    <3>2. Right(op, redis[k], k, pushed)
      BY <3>1, KeyIsSaved
    <3>3. JobOk(op, job[k], redis[k], k, pushed, Written)
      BY <1>1 DEF IInv, JobsAreRight
    <3>4. \A i \in 1 .. pushed : op[i] \in Ops
      BY <1>2
    <3>5. JobSaved(op, job[k], redis[k])
      BY <3>2, <3>3, <3>4, <1>2, <1>3, JobIsSaved
    <3> QED
      BY <3>5, <1>5 DEF JobSaved
  <2> QED
    BY <1>1, <2>1, <2>2 DEF JobsAreRight
<1> QED
  BY <1>7, <1>8, <1>9, <1>10 DEF IInv

\* The next process finds in Redis what the jobs are.
LEMMA LoadKeeps ==
  ASSUME IInv, LoadJobs
  PROVE  IInv'
<1>1. /\ ~running /\ ~closed /\ running' = TRUE /\ loop' = "take"
      /\ UNCHANGED <<op, pushed, taken, done, closed, abandon, ops, failed, retry, ok, redis, lost>>
  BY DEF LoadJobs, Start, queueVars
<1>2. /\ loop = "off" /\ done = taken /\ taken = pushed /\ ops = {} /\ retry = {}
  BY <1>1 DEF IInv, LoopIsRight
<1>3. /\ MaxOps \in Nat /\ pushed \in Nat /\ pushed <= MaxOps
      /\ op \in [1 .. MaxOps -> Ops] /\ job \in [Keys -> JobStates]
  BY WriterAssumption DEF IInv, Typed
<1>4. /\ job' = [k \in Keys |-> job'[k]]
      /\ \A k \in Keys : /\ redis[k] # 0 => job'[k] = op[redis[k]].value
                         /\ redis[k] = 0 => job'[k] \in {"none", "gone"}
  BY <1>3 DEF LoadJobs, Exists
<1>5. ASSUME NEW k \in Keys
      PROVE  KeyOk(op, redis[k], k, pushed, {}, {})
  BY <1>2 DEF IInv, KeysAreRight, Upto, Rest, Tried
<1>6. ASSUME NEW k \in Keys PROVE job'[k] \in JobStates
  <2>1. CASE redis[k] # 0
    <3>1. redis[k] \in 1 .. pushed /\ op[redis[k]].kind = "set"
      BY <2>1, <1>3, <1>5 DEF KeyOk, Sets
    <3>2. op[redis[k]] \in Ops
      BY <3>1, <1>3
    <3>3. op[redis[k]].value \in {"open", "succeeded", "failed"}
      BY <3>1, <3>2, OpFacts
    <3> QED
      BY <2>1, <3>3, <1>4 DEF JobStates
  <2>2. CASE redis[k] = 0
    BY <2>2, <1>4 DEF JobStates
  <2> QED
    BY <2>1, <2>2
<1>7. Typed'
  <2>1. job' \in [Keys -> JobStates]
    BY <1>4, <1>6
  <2>2. running' \in BOOLEAN
    BY <1>1, Zenon
  <2> QED
    BY <1>1, <2>1, <2>2 DEF IInv, Typed, Loops
<1>8. LoopIsRight'
  <2>1. running'
    BY <1>1, Zenon
  <2> QED
    BY <1>1, <1>2, <2>1 DEF IInv, LoopIsRight
<1>9. KeysAreRight'
  BY <1>1, <1>2, SameKeys DEF IInv, Upto, Rest, Tried
<1>10. JobsAreRight'
  <2>1. running'
    BY <1>1, Zenon
  <2>2. Written' = 1 .. pushed
    BY <1>1, <1>2 DEF Written
  <2>3. ASSUME NEW k \in Keys PROVE JobOk(op, job'[k], redis[k], k, pushed, 1 .. pushed)
    <3> DEFINE last == LastBy(op, k, pushed)
    <3>1. last \in 0 .. pushed
      BY <1>3, LastIsLast
    <3>2. Right(op, redis[k], k, pushed)
      BY <1>5 DEF KeyOk, SavedOrToSave
    <3>3. LeftBy(op, k, pushed) = IF last = 0 THEN 0 ELSE IF op[last].kind = "set" THEN last ELSE 0
      BY DEF LeftBy
    <3> HIDE DEF last
    <3>4. CASE redis[k] # 0
      <4>1. last # 0 /\ redis[k] = last /\ op[last].kind = "set"
        BY <3>2, <3>3, <3>4 DEF Right
      <4> QED
        BY <4>1, <3>4, <1>4 DEF JobOk, last
    <3>5. CASE redis[k] = 0
      <4>1. last = 0 \/ op[last].kind # "set" \/ op[last].ttl
        BY <3>2, <3>3, <3>5 DEF Right
      <4>2. last # 0 => last \in 1 .. pushed
        BY <3>1, <1>3
      <4> QED
        BY <4>1, <4>2, <3>5, <1>4 DEF JobOk, last
    <3> QED
      BY <3>4, <3>5
  <2> QED
    BY <1>1, <2>1, <2>2, <2>3 DEF JobsAreRight
<1> QED
  BY <1>7, <1>8, <1>9, <1>10 DEF IInv

-----------------------------------------------------------------------------
(* The theorems.                                                           *)

LEMMA InitIInv == ProviderInit => IInv
<1> SUFFICES ASSUME ProviderInit PROVE IInv
  OBVIOUS
<1>1. /\ op = [i \in 1 .. MaxOps |-> None] /\ pushed = 0 /\ taken = 0 /\ done = 0
      /\ running = FALSE /\ closed = FALSE /\ abandon = FALSE
      /\ loop = "off" /\ ops = {} /\ failed = FALSE /\ retry = {} /\ ok = TRUE
      /\ redis = [k \in Keys |-> 0] /\ job = [k \in Keys |-> "none"] /\ lost = {}
  BY DEF ProviderInit, Init
<1>2. /\ running \in BOOLEAN /\ closed \in BOOLEAN /\ abandon \in BOOLEAN
      /\ failed \in BOOLEAN /\ ok \in BOOLEAN /\ ~running /\ ~abandon
  BY <1>1, Zenon
<1>3. Typed
  <2>1. op \in [1 .. MaxOps -> Ops]
    BY <1>1 DEF Ops
  <2>2. redis \in [Keys -> 0 .. taken] /\ job \in [Keys -> JobStates]
    BY <1>1 DEF JobStates
  <2> QED
    BY <1>1, <1>2, <2>1, <2>2, WriterAssumption DEF Typed, Loops
<1>4. LoopIsRight
  BY <1>1, <1>2 DEF LoopIsRight
<1>5. KeysAreRight
  <2>1. Upto = 0 /\ Rest = {} /\ Tried = {}
    BY <1>1 DEF Upto, Rest, Tried
  <2>2. ASSUME NEW k \in Keys PROVE KeyOk(op, 0, k, 0, {}, {})
    BY KeyRestarted
  <2> QED
    BY <1>1, <2>1, <2>2 DEF KeysAreRight
<1>6. JobsAreRight
  BY <1>1, <1>2 DEF JobsAreRight, JobSaved
<1> QED
  BY <1>3, <1>4, <1>5, <1>6 DEF IInv

LEMMA NextKeeps == IInv /\ [ProviderNext]_allVars => IInv'
<1> SUFFICES ASSUME IInv, [ProviderNext]_allVars PROVE IInv'
  OBVIOUS
<1>1. CASE ServiceStep
  BY <1>1, ServiceKeeps
<1>2. CASE WriterStep /\ UNCHANGED providerVars
  BY <1>2, OthersKeep, TakeKeeps, ExecuteKeeps, AttemptedKeeps, SucceededKeeps, FailedKeeps,
     BackoffKeeps DEF WriterStep, LoopStep
<1>3. CASE \E k \in Keys : Expire(k)
  BY <1>3, ExpireKeeps
<1>4. CASE Restart
  BY <1>4, RestartKeeps
<1>5. CASE LoadJobs
  BY <1>5, LoadKeeps
<1>6. CASE UNCHANGED allVars
  <2>1. UNCHANGED <<op, pushed, taken, done, running, closed, abandon, loop, ops, failed, retry,
                    ok, redis, job, lost>>
    BY <1>6 DEF allVars, vars, providerVars
  <2>2. Typed'
    BY <2>1 DEF IInv, Typed
  <2>3. LoopIsRight'
    BY <2>1 DEF IInv, LoopIsRight
  <2>4. KeysAreRight'
    BY <2>1, SameKeys DEF IInv, Upto, Rest, Tried
  <2>5. JobsAreRight'
    BY <2>1, SameJobs DEF IInv, Written
  <2> QED
    BY <2>2, <2>3, <2>4, <2>5 DEF IInv
<1> QED
  BY <1>1, <1>2, <1>3, <1>4, <1>5, <1>6 DEF ProviderNext

LEMMA Invariance == ProviderSpec => []IInv
BY InitIInv, NextKeeps, PTL DEF ProviderSpec

\* What Redis holds when the writer says that all is well is every change that the requests
\* were released for, and what it holds when the loop returned without giving up is every
\* change that was queued (writer.go: the loop takes, executes, and retries what failed); the
\* succeeded jobs, and they only, expire (redisprovider.go: saveJob).  Whatever the pipelines
\* that fail, and whatever the jobs, the operations and the restarts.
THEOREM RedisHoldsTheChanges == ProviderSpec => []RedisIsRight
<1>1. IInv => RedisIsRight
  <2> SUFFICES ASSUME IInv PROVE RedisIsRight
    OBVIOUS
  <2>1. ASSUME retry = {}, ~Trying, NEW k \in Keys PROVE Right(op, redis[k], k, done)
    <3>1. Upto = done /\ Rest = {}
      BY <2>1 DEF Upto, Rest
    <3> QED
      BY <3>1 DEF IInv, KeysAreRight, KeyOk, SavedOrToSave
  <2>2. ASSUME retry = {}, ~Trying PROVE Holds(done)
    <3>1. ASSUME NEW k \in Keys
          PROVE  redis[k] = Wanted(done)[k] \/ (redis[k] = 0 /\ op[Wanted(done)[k]].ttl)
      BY <2>1, <2>2, WantedIsLeft DEF Right
    <3> QED
      BY <3>1 DEF Holds
  <2>3. HealthyMeansSaved
    BY <2>2 DEF IInv, LoopIsRight, HealthyMeansSaved
  <2>4. StopWritesEverything
    BY <2>2 DEF IInv, LoopIsRight, StopWritesEverything
  <2>5. OnlySucceededJobsExpire
    <3>1. ASSUME NEW k \in Keys, redis[k] # 0
          PROVE  op[redis[k]].ttl <=> op[redis[k]].value = "succeeded" /\ FinishedJobTTL # 0
      <4>1. op[redis[k]].kind = "set"
        BY <3>1 DEF IInv, KeysAreRight, KeyOk, Sets
      <4>2. redis[k] \in 1 .. MaxOps
        BY <3>1, WriterAssumption DEF IInv, Typed
      <4>3. op[redis[k]] \in Ops
        BY <4>2 DEF IInv, Typed
      <4> QED
        BY <4>1, <4>3, OpFacts
    <3> QED
      BY <3>1 DEF OnlySucceededJobsExpire
  <2> QED
    BY <2>3, <2>4, <2>5 DEF RedisIsRight
<1> QED
  BY <1>1, Invariance, PTL

\* The retries never write an older version of a job over a newer one, although a failed
\* attempt may have executed any part of a pipeline and the whole pipeline is coalesced and
\* sent again (writer.go: coalesce, execute).
THEOREM RetriesBringNothingBack == ProviderSpec => NoOlderVersion
<1>1. IInv /\ [ProviderNext]_allVars =>
        [\A k \in Keys : redis'[k] = 0 \/ redis'[k] >= redis[k]]_allVars
  <2> SUFFICES ASSUME IInv, [ProviderNext]_allVars, NEW k \in Keys
               PROVE  redis'[k] = 0 \/ redis'[k] >= redis[k]
    OBVIOUS
  <2>1. redis \in [Keys -> 0 .. taken] /\ taken \in Nat
    BY DEF IInv, Typed
  <2>2. CASE redis' = redis
    BY <2>1, <2>2
  <2>3. CASE \E h \in Keys : Expire(h)
    <3>1. PICK h \in Keys : redis' = [redis EXCEPT ![h] = 0]
      BY <2>3 DEF Expire
    <3> QED
      BY <2>1, <3>1
  <2>4. CASE Execute \/ ExecuteFails
    <3>1. loop = "execute" /\ MayLeave(op, redis[k], redis'[k], k, ops)
      BY <2>4, ExecuteMayLeave, ExecuteFailsMayLeave
    <3>2. /\ Executing(ops, retry, done, taken)
          /\ KeyOk(op, redis[k], k, done, retry, {})
      BY <3>1, LoopExecutes
    <3>3. PICK o, v, w, n, m, rest, S :
            /\ o = op /\ v = redis[k] /\ w = redis'[k]
            /\ n = done /\ m = taken /\ rest = retry /\ S = ops
      OBVIOUS
    <3>4. Executing(S, rest, n, m) /\ KeyOk(o, v, k, n, rest, {}) /\ MayLeave(o, v, w, k, S)
      BY <3>1, <3>2, <3>3
    <3>5. w = 0 \/ w >= v
      BY <3>4, KeyTried
    <3> QED
      BY <3>3, <3>5
  <2>5. redis' = redis \/ (\E h \in Keys : Expire(h)) \/ Execute \/ ExecuteFails
    <3>1. ServiceStep => redis' = redis
      BY DEF ServiceStep, OnJobCreated, OnJobEvent, OnJobSucceeded, OnJobTerminated, OnJobUpdated,
             OnJobDeleted, OnJobsDeleted, SaveJob, Push
    <3>2. WriterStep => redis' = redis \/ Execute \/ ExecuteFails
      BY DEF WriterStep, LoopStep, Stop, GiveUp, Wait, Released, Take, Attempted, Succeeded, Failed,
             Backoff
    <3>3. Restart \/ LoadJobs \/ UNCHANGED allVars => redis' = redis
      BY DEF Restart, LoadJobs, Start, allVars, vars
    <3> QED
      BY <3>1, <3>2, <3>3 DEF ProviderNext
  <2> QED
    BY <2>2, <2>3, <2>4, <2>5
<1> QED
  BY <1>1, Invariance, PTL DEF ProviderSpec, NoOlderVersion

\* A process that starts after a stop or a crash of another one finds each job as it was,
\* unless its last change was waiting to be written, or it is a succeeded job that has
\* expired (redisprovider.go: LoadJobs).
THEOREM RestartsLoseOnlyWhatWaited == ProviderSpec => RestartLosesOnlyWhatWaits
<1> DEFINE A == LoadJobs => \A k \in Keys \ lost :
        job'[k] = job[k] \/ (job[k] = "succeeded" /\ FinishedJobTTL # 0 /\ job'[k] = "gone")
<1>1. IInv => A
  <2> SUFFICES ASSUME IInv, LoadJobs, NEW k \in Keys \ lost
               PROVE  \/ job'[k] = job[k]
                      \/ job[k] = "succeeded" /\ FinishedJobTTL # 0 /\ job'[k] = "gone"
    OBVIOUS
  <2>1. JobSaved(op, job[k], redis[k])
    BY DEF LoadJobs, Start, IInv, JobsAreRight
  <2>2. job'[k] = CASE redis[k] # 0 -> op[redis[k]].value
                    [] redis[k] = 0 /\ ~Exists(k) -> job[k]
                    [] OTHER -> "gone"
    BY DEF LoadJobs
  <2>3. CASE redis[k] # 0
    BY <2>1, <2>2, <2>3 DEF JobSaved
  <2>4. CASE redis[k] = 0 /\ ~Exists(k)
    BY <2>2, <2>4
  <2>5. CASE redis[k] = 0 /\ Exists(k)
    <3>1. job'[k] = "gone"
      BY <2>2, <2>5
    <3>2. job[k] = "succeeded" /\ FinishedJobTTL # 0
      BY <2>1, <2>5 DEF JobSaved, Exists
    <3> QED
      BY <3>1, <3>2
  <2> QED
    BY <2>3, <2>4, <2>5
<1>2. IInv /\ [ProviderNext]_allVars => [A]_allVars
  BY <1>1
<1> QED
  BY <1>2, Invariance, PTL DEF ProviderSpec, RestartLosesOnlyWhatWaits
=============================================================================
