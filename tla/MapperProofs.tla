---------------------------- MODULE MapperProofs ----------------------------
(***************************************************************************)
(* Theorems about the allocator and the URID map, for all threads, URIs,   *)
(* hashes, lengths and sizes: types, one injection per request, memory     *)
(* that is refused at the end only and handed out once, one URID for every *)
(* URI for all time, and the implementation of UridTable.                  *)
(***************************************************************************)
EXTENDS Mapper, FiniteSetTheorems, TLAPS

USE PoolAssumption, MapAssumption

(* Division splits an offset into a pool and a byte.                       *)
LEMMA PoolFact ==
  ASSUME NEW a \in Nat
  PROVE  /\ PoolOf(a) \in Nat /\ Byte(a) \in 0..PoolSize - 1
         /\ a = PoolSize * PoolOf(a) + Byte(a)
  BY DEF PoolOf, Byte

LEMMA TimesMono ==
  ASSUME NEW p \in Nat, NEW i \in Nat, NEW j \in Nat, i <= j
  PROVE  p * i \in Nat /\ p * i <= p * j /\ p * (i + 1) = p * i + p
  OBVIOUS

LEMMA EndFact == End \in Nat /\ End = PoolSize * NumPools
  BY DEF End

(* The offsets in a pool are those below the end.                          *)
LEMMA InPool ==
  ASSUME NEW a \in Nat
  PROVE  PoolOf(a) < NumPools <=> a < End
<1>1. CASE PoolOf(a) < NumPools
  <2>1. PoolOf(a) + 1 <= NumPools /\ PoolOf(a) + 1 \in Nat
    BY <1>1, PoolFact
  <2>2. PoolSize * (PoolOf(a) + 1) <= PoolSize * NumPools
    BY <2>1, TimesMono
  <2>3. PoolSize * (PoolOf(a) + 1) = PoolSize * PoolOf(a) + PoolSize
    BY PoolFact, TimesMono
  <2> QED BY <1>1, <2>2, <2>3, PoolFact, EndFact
<1>2. CASE ~(PoolOf(a) < NumPools)
  <2>1. NumPools <= PoolOf(a) /\ NumPools \in Nat /\ PoolOf(a) \in Nat
    BY <1>2, PoolFact
  <2>2. PoolSize * NumPools <= PoolSize * PoolOf(a)
    BY <2>1, TimesMono
  <2> QED BY <1>2, <2>2, PoolFact, EndFact
<1> QED BY <1>1, <1>2

(* Pools do not overlap.                                                   *)
LEMMA PoolsApart ==
  ASSUME NEW p \in Nat, NEW q \in Nat, NEW r \in 0..PoolSize - 1, NEW s \in 0..PoolSize - 1,
         PoolSize * p + r = PoolSize * q + s
  PROVE  p = q
<1>1. ASSUME NEW i \in Nat, NEW j \in Nat, i < j
      PROVE  PoolSize * i + PoolSize <= PoolSize * j
  <2>1. i + 1 \in Nat /\ i + 1 <= j
    BY <1>1
  <2>2. PoolSize * (i + 1) <= PoolSize * j
    BY <2>1, TimesMono
  <2>3. PoolSize * (i + 1) = PoolSize * i + PoolSize
    BY TimesMono
  <2> QED BY <2>2, <2>3
<1>2. PoolSize * p \in Nat /\ PoolSize * q \in Nat
  BY TimesMono
<1>3. CASE p < q
  <2>1. PoolSize * p + PoolSize <= PoolSize * q
    BY <1>1, <1>3
  <2> QED BY <1>2, <2>1
<1>4. CASE q < p
  <2>1. PoolSize * q + PoolSize <= PoolSize * p
    BY <1>1, <1>4
  <2> QED BY <1>2, <2>1
<1> QED BY <1>3, <1>4

(* A chunk that does not straddle begins and ends in one pool.             *)
LEMMA OnePool ==
  ASSUME NEW a \in Nat, NEW size \in 1..PoolSize, ~Straddles(a, size)
  PROVE  /\ PoolOf(a + size - 1) = PoolOf(a)
         /\ a < End => a + size <= End /\ Advance(a, size) = a + size
<1>1. PICK b \in Nat : b = a + size - 1
  OBVIOUS
<1>2. b = PoolSize * PoolOf(b) + Byte(b) /\ PoolOf(b) \in Nat /\ Byte(b) \in 0..PoolSize - 1
  BY PoolFact
<1>3. PICK r \in 0..PoolSize - 1 : r = Byte(a) + size - 1
  BY PoolFact DEF Straddles
<1>4. PoolOf(a) \in Nat /\ PoolSize * PoolOf(a) \in Nat /\ b = PoolSize * PoolOf(a) + r
  <2>1. PoolOf(a) \in Nat /\ Byte(a) \in Nat /\ a = PoolSize * PoolOf(a) + Byte(a)
    BY PoolFact
  <2>2. PoolSize * PoolOf(a) \in Nat
    BY <2>1, TimesMono
  <2> QED BY SMTT(30), <2>1, <2>2, <1>1, <1>3
<1>5. PoolOf(b) = PoolOf(a)
  BY <1>2, <1>3, <1>4, PoolsApart
<1>6. a < End => b < End
  BY <1>5, InPool
<1> QED BY <1>1, <1>5, <1>6, EndFact DEF Advance


(* Every probe looks at a slot of the table.                               *)
LEMMA SlotRange ==
  ASSUME NEW u \in Uris, NEW i \in Nat
  PROVE  SlotOf(u, i) \in Slots
<1>1. i * i \in Nat
  BY TimesMono
<1>2. Hash[u] + i * i \in Nat
  BY <1>1
<1> QED BY <1>2 DEF SlotOf, Slots

----------------------------------------------------------------------------
(* Types *)

\* A thread between two calls has no URI; the worker may then inject.
CallOK == \A t \in Threads : /\ pc[t] = "idle" => uri[t] = NoCall
                             /\ uri[t] = NoCall => pc[t] \in {"idle", "inject"}

TypeInv == TypeOK /\ CallOK

(* Every action is a step of the allocator by a thread, or of the map.     *)
LEMMA TypeInit == Init => TypeInv
<1> SUFFICES ASSUME Init PROVE TypeInv
  OBVIOUS
<1>1. End \in Nat /\ 0 <= End - 1
  BY EndFact, TimesMono
<1>2. DOMAIN text = {}
  BY DEF Init
<1>3. /\ offset \in 0..End /\ inject \in BOOLEAN
      /\ pools \in [0..NumPools - 1 -> {"empty", "ongoing", "ready"}]
      /\ at \in [Threads -> 0..End - 1] /\ scan \in [Threads -> 0..NumPools]
  <2>1. 0 \in 0..End /\ 0 \in 0..End - 1 /\ 0 \in 0..NumPools
    BY <1>1
  <2> QED BY <2>1 DEF Init, AllocInit
<1>4. /\ items \in [Slots -> {NULL} \cup 0..End - 1]
      /\ DOMAIN text \subseteq 0..End - 1 /\ \A a \in DOMAIN text : text[a] \in Uris
      /\ usage \in Nat /\ answers \subseteq Uris \X Slots
  BY <1>2 DEF Init
<1>5. /\ pc \in [Threads -> AllocPc \cup {"idle", "load", "claim"}]
      /\ uri \in [Threads -> Uris \cup {NoCall}] /\ probe \in [Threads -> Slots]
      /\ clone \in [Threads -> {NULL} \cup DOMAIN text] /\ new \in [Threads -> BOOLEAN]
  BY DEF Init, Slots
<1>6. CallOK
  BY DEF Init, CallOK
<1> QED BY <1>3, <1>4, <1>5, <1>6 DEF TypeInv, TypeOK

LEMMA AllocType ==
  ASSUME TypeInv, NEW t \in Threads, Alloc(t)
  PROVE  TypeInv'
<1> USE DEF TypeInv, TypeOK, CallOK, AllocPc, mapVars, Go
<1>1. uri[t] # NoCall => /\ Length[uri[t]] \in Nat
                         /\ Advance(offset, Length[uri[t]]) \in 0..End
  BY EndFact DEF Advance
<1>2. CASE FetchPastEnd(t)
  BY <1>2 DEF Alloc, FetchPastEnd
<1>3. CASE FetchStraddling(t, Length[uri[t]])
  <2>1. offset' \in 0..End /\ pc[t] = "fetch"
    BY <1>3, <1>1 DEF FetchStraddling
  <2> QED BY <1>3, <2>1 DEF Alloc, FetchStraddling
<1>4. CASE FetchChunk(t, Length[uri[t]])
  <2>1. offset \in Nat /\ offset < End
    BY <1>4, InPool, EndFact DEF FetchChunk
  <2>2. offset \in 0..End - 1 /\ pc[t] = "fetch"
    BY <1>4, <2>1, EndFact DEF FetchChunk
  <2>3. offset' \in 0..End
    BY <1>4, <1>1, <2>2 DEF FetchChunk
  <2> QED BY <1>4, <2>2, <2>3 DEF Alloc, FetchChunk
<1>5. CASE Await(t)
  BY <1>5 DEF Alloc, Await
<1>6. CASE Request(t)
  <2>1. pools' \in [0..NumPools - 1 -> {"empty", "ongoing", "ready"}]
    BY <1>6 DEF Request
  <2>2. scan' \in [Threads -> 0..NumPools]
    BY <1>6 DEF Request
  <2>3. pc' \in [Threads -> AllocPc \cup {"idle", "load", "claim"}] /\ CallOK'
    BY <1>6 DEF Alloc, Request
  <2> QED BY <1>6, <2>1, <2>2, <2>3 DEF Alloc, Request
<1>7. CASE NoRequest(t)
  BY <1>7 DEF Alloc, NoRequest
<1>8. CASE Signal(t)
  BY <1>8 DEF Alloc, Signal
<1> QED BY <1>2, <1>3, <1>4, <1>5, <1>6, <1>7, <1>8 DEF Alloc

(* A call that returns leaves its thread as it was before.                 *)
LEMMA ReturnType ==
  ASSUME TypeInv, NEW t \in Threads, pc[t] # "idle", uri[t] # NoCall, NEW urid \in Slots,
         Return(t, urid)
  PROVE  /\ offset' = offset /\ pools' = pools /\ inject' = inject /\ at' = at /\ scan' = scan
         /\ pc' \in [Threads -> AllocPc \cup {"idle", "load", "claim"}]
         /\ uri' \in [Threads -> Uris \cup {NoCall}]
         /\ probe' \in [Threads -> Slots]
         /\ new' \in [Threads -> BOOLEAN]
         /\ answers' \subseteq Uris \X Slots
         /\ clone' = [clone EXCEPT ![t] = NULL]
         /\ CallOK'
<1> USE DEF TypeInv, TypeOK, CallOK, AllocPc, Return, Go
<1>1. 0 \in Slots
  BY DEF Slots
<1> QED BY <1>1

(* The steps at the end of which a call returns.                           *)
ReturnStep(t) == Find(t) \/ Overflow(t) \/ OutOfMemory(t) \/ Claim(t) \/ Stolen(t)

LEMMA HereFact ==
  ASSUME TypeInv, NEW t \in Threads, uri[t] # NoCall
  PROVE  uri[t] \in Uris /\ Here(t) \in Slots
<1>1. uri[t] \in Uris /\ probe[t] \in Nat
  BY DEF TypeInv, TypeOK, Slots
<1> QED BY <1>1, SlotRange DEF Here

LEMMA ReturnStepType ==
  ASSUME TypeInv, NEW t \in Threads, ReturnStep(t)
  PROVE  /\ TypeInv'
         /\ pc[t] \in {"load", "null", "claim"} /\ uri[t] # NoCall
         /\ \E urid \in Slots : Return(t, urid)
         /\ pools' = pools /\ inject' = inject /\ scan' = scan /\ offset' = offset
         /\ at' = at /\ text' = text
         /\ items' = items \/ Claim(t)
<1>1. pc[t] \in {"load", "null", "claim"} /\ uri[t] # NoCall
  BY DEF ReturnStep, Find, Overflow, OutOfMemory, Claim, Stolen, TypeInv, CallOK
<1>2. 0 \in Slots /\ Here(t) \in Slots
  BY <1>1, HereFact DEF Slots
<1>3. PICK urid \in Slots : Return(t, urid)
  BY <1>2 DEF ReturnStep, Find, Overflow, OutOfMemory, Claim, Stolen
<1>4. /\ text' = text
      /\ \/ items' = items /\ usage' = usage
         \/ Claim(t) /\ items' = [items EXCEPT ![Here(t)] = clone[t]] /\ usage' = usage + 1
  <2>1. CASE Find(t)
    BY <2>1 DEF Find
  <2>2. CASE Overflow(t)
    BY <2>2 DEF Overflow
  <2>3. CASE OutOfMemory(t)
    BY <2>3 DEF OutOfMemory
  <2>4. CASE Claim(t)
    BY <2>4 DEF Claim
  <2>5. CASE Stolen(t)
    BY <2>5 DEF Stolen
  <2> QED BY <2>1, <2>2, <2>3, <2>4, <2>5 DEF ReturnStep
<1>5. items' \in [Slots -> {NULL} \cup 0..End - 1] /\ usage' \in Nat
  <2>1. clone[t] \in {NULL} \cup 0..End - 1
    BY DEF TypeInv, TypeOK
  <2>2. items \in [Slots -> {NULL} \cup 0..End - 1] /\ usage \in Nat
    BY DEF TypeInv, TypeOK
  <2> QED BY <1>4, <2>1, <2>2
<1>6. TypeInv'
  BY ZenonT(60), <1>1, <1>3, <1>4, <1>5, ReturnType DEF TypeInv, TypeOK
<1> QED BY <1>1, <1>3, <1>4, <1>6, ReturnType

(* The other steps of _mapper_map: the lookup of the next slot, the copy.  *)
LEMMA MapType ==
  ASSUME TypeInv, NEW t \in Threads, Collide(t) \/ Lost(t) \/ Vacant(t) \/ Copy(t)
  PROVE  /\ TypeInv' /\ uri[t] \in Uris /\ items' = items
         /\ pools' = pools /\ inject' = inject /\ scan' = scan /\ offset' = offset /\ at' = at
<1> USE DEF TypeInv, TypeOK, CallOK, AllocPc, Go
<1>1. uri[t] # NoCall /\ uri[t] \in Uris
  BY DEF Collide, Lost, Vacant, Copy
<1>2. CASE Collide(t) \/ Lost(t)
  <2>1. probe' \in [Threads -> Slots]
    <3>1. probe[t] \in Slots /\ probe[t] + 1 < NItems
      BY <1>2 DEF Collide, Lost, NextSlot
    <3>2. probe[t] + 1 \in Slots
      BY <3>1 DEF Slots
    <3>3. probe' = [probe EXCEPT ![t] = probe[t] + 1]
      BY <1>2 DEF Collide, Lost, NextSlot
    <3> QED BY <3>2, <3>3
  <2>2. NextSlot(t)
    BY <1>2 DEF Collide, Lost
  <2> QED BY <1>1, <2>1, <2>2 DEF NextSlot
<1>3. CASE Vacant(t)
  BY <1>1, <1>3 DEF Vacant, mapVars
<1>4. CASE Copy(t)
  <2>1. DOMAIN text' = DOMAIN text \cup {at[t]} /\ \A a \in DOMAIN text' : text'[a] \in Uris
    BY <1>1, <1>4 DEF Copy
  <2>2. clone' \in [Threads -> {NULL} \cup DOMAIN text']
    BY <1>4, <2>1 DEF Copy
  <2> QED BY <1>1, <1>4, <2>1, <2>2 DEF Copy
<1> QED BY <1>2, <1>3, <1>4

LEMMA CallType ==
  ASSUME TypeInv, NEW t \in Callers, NEW u \in Uris, Call(t, u)
  PROVE  /\ TypeInv' /\ t \in Threads
         /\ pools' = pools /\ inject' = inject /\ scan' = scan /\ offset' = offset /\ at' = at
         /\ items' = items /\ text' = text
  BY DEF TypeInv, TypeOK, CallOK, AllocPc, Go, Call

LEMMA InjectType ==
  ASSUME TypeInv, NEW t \in Threads, Inject(t)
  PROVE  TypeInv'
<1> USE DEF TypeInv, TypeOK, CallOK, AllocPc, mapVars, Go
<1>1. CASE InjectHere(t, IF uri[t] = NoCall THEN "idle" ELSE "got")
  BY <1>1 DEF Inject, InjectHere
<1>2. CASE InjectNext(t)
  BY SMTT(30), <1>2 DEF Inject, InjectNext
<1> QED BY <1>1, <1>2 DEF Inject

LEMMA WorkerType ==
  ASSUME TypeInv, WorkerInject
  PROVE  TypeInv' /\ Worker \in Threads
<1>1. Worker \in Threads
  BY DEF Threads
<1>2. scan' \in [Threads -> 0..NumPools]
  <2>1. 0 \in 0..NumPools
    OBVIOUS
  <2>2. scan' = [scan EXCEPT ![Worker] = 0]
    BY DEF WorkerInject, TakeInject
  <2> QED BY <2>1, <2>2 DEF TypeInv, TypeOK
<1> QED BY <1>1, <1>2 DEF TypeInv, TypeOK, CallOK, AllocPc, mapVars, Go, WorkerInject, TakeInject

(* The ways a step can go.                                                 *)
LEMMA Steps ==
  ASSUME Next
  PROVE  \/ \E t \in Callers, u \in Uris : Call(t, u)
         \/ \E t \in Threads : ReturnStep(t)
         \/ \E t \in Threads : Collide(t) \/ Lost(t) \/ Vacant(t) \/ Copy(t)
         \/ \E t \in Threads : Alloc(t)
         \/ \E t \in Threads : Inject(t)
         \/ WorkerInject
  BY DEF Next, Step, ReturnStep

LEMMA TypeStep == TypeInv /\ [Next]_vars => TypeInv'
<1> SUFFICES ASSUME TypeInv, [Next]_vars PROVE TypeInv'
  OBVIOUS
<1>1. CASE UNCHANGED vars
  BY <1>1 DEF TypeInv, TypeOK, CallOK, vars, allocVars, mapVars
<1>2. CASE Next
  BY <1>2, Steps, CallType, ReturnStepType, MapType, AllocType, InjectType, WorkerType
<1> QED BY <1>1, <1>2

(* All variables of the allocator and the map keep their types.            *)
THEOREM TypeCorrect == Spec => []TypeOK
<1>1. Spec => []TypeInv
  BY TypeInit, TypeStep, PTL DEF Spec
<1> QED BY <1>1, PTL DEF TypeInv

----------------------------------------------------------------------------
(* One injection for one request: pools come into being in order, the one  *)
(* that has been asked for is the only one, and whoever is to inject it,   *)
(* or to tell the worker, is alone.                                        *)

Busy(t) == pc[t] \in {"signal", "inject"}

InOrder == \A k, j \in 0..NumPools - 1 : pools[k] # "empty" /\ j < k => pools[j] = "ready"
Pending == (inject \/ \E t \in Threads : Busy(t)) => \E k \in 0..NumPools - 1 : pools[k] = "ongoing"
Alone == /\ \A t, r \in Threads : Busy(t) /\ Busy(r) => t = r
         /\ inject => \A t \in Threads : ~Busy(t)
Ahead == \A t \in Threads : pc[t] = "inject" =>
           \A k \in 0..NumPools - 1 : k < scan[t] => pools[k] = "ready"
InReady == \A t \in Threads : pc[t] = "more" => pools[PoolOf(at[t])] = "ready"

InjectInv == InOrder /\ Pending /\ Alone /\ Ahead /\ InReady

LEMMA InjectInit == Init => InjectInv
  BY DEF Init, AllocInit, InjectInv, InOrder, Pending, Alone, Ahead, InReady, Busy

(* Where a thread has taken an offset there is a pool.                     *)
LEMMA AtFact ==
  ASSUME TypeInv, NEW t \in Threads
  PROVE  at[t] \in Nat /\ PoolOf(at[t]) \in 0..NumPools - 1
<1>1. at[t] \in Nat /\ at[t] < End
  BY EndFact DEF TypeInv, TypeOK
<1> QED BY SMTT(30), <1>1, PoolFact, InPool

(* A step that leaves the pools and the requests alone.                    *)
LEMMA InjectSame ==
  ASSUME TypeInv, InjectInv, NEW t \in Threads, pools' = pools, inject' = inject,
         scan' = scan, at' = at, NEW to, pc' = [pc EXCEPT ![t] = to], ~Busy(t),
         to \notin {"signal", "inject"},
         to = "more" => pools[PoolOf(at[t])] = "ready"
  PROVE  InjectInv'
<1> USE DEF TypeInv, TypeOK
<1>1. \A r \in Threads : pc'[r] = IF r = t THEN to ELSE pc[r]
  OBVIOUS
<1>2. \A r \in Threads : Busy(r)' <=> Busy(r)
  BY <1>1 DEF Busy
<1>3. InOrder' /\ Pending' /\ Alone'
  BY <1>2 DEF InjectInv, InOrder, Pending, Alone
<1>4. Ahead' /\ InReady'
  BY <1>1 DEF InjectInv, Ahead, InReady
<1> QED BY <1>3, <1>4 DEF InjectInv

(* A request is made when none is pending.                                 *)
LEMMA RequestFact ==
  ASSUME TypeInv, InjectInv, NEW t \in Threads, Request(t)
  PROVE  /\ PoolOf(at[t]) + 1 \in 0..NumPools - 1
         /\ \A k \in 0..NumPools - 1 : pools[k] # "ongoing"
         /\ ~inject /\ \A r \in Threads : ~Busy(r)
<1> DEFINE p == PoolOf(at[t])
<1>1. p \in 0..NumPools - 1 /\ p + 1 \in 0..NumPools - 1 /\ pools[p] = "ready" /\ pools[p + 1] = "empty"
  BY AtFact DEF Request, Missing, InjectInv, InReady
<1>2. ASSUME NEW k \in 0..NumPools - 1, pools[k] = "ongoing"
      PROVE  FALSE
  <2>1. CASE k < p
    BY <1>1, <1>2, <2>1 DEF InjectInv, InOrder
  <2>2. CASE k > p + 1
    BY <1>1, <1>2, <2>2 DEF InjectInv, InOrder
  <2>3. CASE k = p \/ k = p + 1
    BY <1>1, <1>2, <2>3
  <2> HIDE DEF p
  <2> QED BY <1>1, <2>1, <2>2, <2>3
<1> QED BY <1>1, <1>2 DEF InjectInv, Pending

LEMMA RequestInject ==
  ASSUME TypeInv, InjectInv, NEW t \in Threads, Request(t)
  PROVE  InjectInv'
<1> DEFINE p == PoolOf(at[t])
           to == IF t = Dsp THEN "signal" ELSE "inject"
<1>1. /\ p + 1 \in 0..NumPools - 1 /\ pools[p] = "ready" /\ p \in 0..NumPools - 1
      /\ \A k \in 0..NumPools - 1 : pools[k] # "ongoing"
      /\ ~inject /\ \A r \in Threads : ~Busy(r)
  BY RequestFact, AtFact DEF InjectInv, InReady, Request
<1>2. /\ pools' = [pools EXCEPT ![p + 1] = "ongoing"]
      /\ pc' = [pc EXCEPT ![t] = to]
      /\ scan' = [scan EXCEPT ![t] = 0] /\ inject' = inject /\ at' = at
  BY DEF Request, Go
<1> HIDE DEF p
<1>3. /\ \A k \in 0..NumPools - 1 : pools'[k] = IF k = p + 1 THEN "ongoing" ELSE pools[k]
      /\ \A r \in Threads : pc'[r] = IF r = t THEN to ELSE pc[r]
      /\ scan'[t] = 0
  BY <1>2 DEF TypeInv, TypeOK
<1>4. InOrder'
  <2> SUFFICES ASSUME NEW k \in 0..NumPools - 1, NEW j \in 0..NumPools - 1,
                      pools'[k] # "empty", j < k
               PROVE  pools'[j] = "ready"
    BY DEF InOrder
  <2>1. CASE k = p + 1
    <3>1. j = p \/ j < p
      BY <1>1, <2>1
    <3>2. pools[j] = "ready"
      BY <1>1, <3>1 DEF InjectInv, InOrder
    <3> QED BY <1>3, <2>1, <3>2
  <2>2. CASE k # p + 1
    <3>1. pools[j] = "ready"
      BY <1>3, <2>2 DEF InjectInv, InOrder
    <3>2. j # p + 1
      <4>1. pools[p + 1] = "empty"
        BY DEF Request, Missing, p
      <4> QED BY <3>1, <4>1
    <3> QED BY <1>3, <3>1, <3>2
  <2> QED BY <2>1, <2>2
<1>5. Pending'
  BY <1>1, <1>3 DEF Pending
<1>6. Alone'
  BY <1>1, <1>2, <1>3 DEF Alone, Busy
<1>7. Ahead'
  BY <1>1, <1>3 DEF Ahead, Busy
<1>8. InReady'
  <2>1. \A r \in Threads : pc'[r] = "more" => r # t /\ pools[PoolOf(at[r])] = "ready"
    BY <1>3 DEF InjectInv, InReady
  <2>2. pools[p + 1] = "empty"
    BY DEF Request, Missing, p
  <2>3. \A r \in Threads : PoolOf(at[r]) \in 0..NumPools - 1
    BY AtFact
  <2> QED BY <1>2, <1>3, <2>1, <2>2, <2>3 DEF InReady
<1> QED BY <1>4, <1>5, <1>6, <1>7, <1>8 DEF InjectInv

(* The pool that is pending is injected, and nobody else is left to.       *)
LEMMA InjectHereFact ==
  ASSUME TypeInv, InjectInv, NEW t \in Threads, NEW to, to \notin {"signal", "inject", "more"},
         InjectHere(t, to)
  PROVE  InjectInv'
<1> USE DEF TypeInv, TypeOK
<1>1. scan[t] \in 0..NumPools - 1 /\ pc[t] = "inject" /\ pools[scan[t]] = "ongoing"
  BY DEF InjectHere
<1>2. /\ \A k \in 0..NumPools - 1 : pools'[k] = IF k = scan[t] THEN "ready" ELSE pools[k]
      /\ \A r \in Threads : pc'[r] = IF r = t THEN to ELSE pc[r]
      /\ scan' = scan /\ inject' = inject /\ at' = at
  BY <1>1 DEF InjectHere, Go
<1>3. ~inject' /\ \A r \in Threads : ~Busy(r)'
  BY <1>1, <1>2 DEF InjectInv, Alone, Busy
<1>4. InOrder'
  BY <1>1, <1>2 DEF InjectInv, InOrder
<1>5. Pending' /\ Alone'
  BY <1>3 DEF Pending, Alone
<1>6. Ahead'
  BY <1>3 DEF Ahead, Busy
<1>7. InReady'
  <2>1. \A r \in Threads : PoolOf(at[r]) \in 0..NumPools - 1
    BY AtFact
  <2> QED BY <1>2, <2>1 DEF InjectInv, InReady
<1> QED BY <1>4, <1>5, <1>6, <1>7 DEF InjectInv

LEMMA InjectNextFact ==
  ASSUME TypeInv, InjectInv, NEW t \in Threads, InjectNext(t)
  PROVE  InjectInv'
<1> USE DEF TypeInv, TypeOK
<1>1. scan[t] \in 0..NumPools - 1 /\ pc[t] = "inject" /\ pools[scan[t]] = "ready"
  BY DEF InjectNext
<1>2. /\ pools' = pools /\ pc' = pc /\ inject' = inject /\ at' = at
      /\ \A r \in Threads : scan'[r] = IF r = t THEN scan[t] + 1 ELSE scan[r]
  BY DEF InjectNext
<1>3. \A k \in 0..NumPools - 1 : k < scan[t] + 1 => pools[k] = "ready"
  BY <1>1 DEF InjectInv, Ahead
<1>4. InOrder' /\ Pending' /\ Alone' /\ InReady'
  BY <1>2 DEF InjectInv, InOrder, Pending, Alone, InReady, Busy
<1>5. Ahead'
  BY <1>2, <1>3 DEF InjectInv, Ahead
<1> QED BY <1>4, <1>5 DEF InjectInv

LEMMA SignalFact ==
  ASSUME TypeInv, InjectInv, NEW t \in Threads, Signal(t)
  PROVE  InjectInv'
<1> USE DEF TypeInv, TypeOK
<1>1. /\ pc[t] = "signal" /\ inject' /\ pools' = pools /\ scan' = scan /\ at' = at
      /\ \A r \in Threads : pc'[r] = IF r = t THEN "got" ELSE pc[r]
  BY DEF Signal, Go
<1>2. \A r \in Threads : ~Busy(r)'
  BY <1>1 DEF InjectInv, Alone, Busy
<1>3. InOrder' /\ Alone' /\ Ahead' /\ InReady'
  BY <1>1, <1>2 DEF InjectInv, InOrder, Alone, Ahead, InReady, Busy
<1>4. Pending'
  BY <1>1 DEF InjectInv, Pending, Busy
<1> QED BY <1>3, <1>4 DEF InjectInv

LEMMA WorkerFact ==
  ASSUME TypeInv, InjectInv, WorkerInject
  PROVE  InjectInv'
<1> USE DEF TypeInv, TypeOK
<1>1. /\ inject /\ ~inject' /\ pools' = pools /\ at' = at /\ Worker \in Threads
      /\ \A r \in Threads : pc'[r] = IF r = Worker THEN "inject" ELSE pc[r]
      /\ scan'[Worker] = 0
  BY DEF WorkerInject, TakeInject, Go, Threads
<1>2. \A r \in Threads : ~Busy(r)
  BY <1>1 DEF InjectInv, Alone
<1>3. Alone' /\ Pending'
  BY <1>1, <1>2 DEF InjectInv, Alone, Pending, Busy
<1>4. Ahead'
  BY <1>1, <1>2 DEF Ahead, Busy
<1>5. InOrder' /\ InReady'
  BY <1>1 DEF InjectInv, InOrder, InReady
<1> QED BY <1>3, <1>4, <1>5 DEF InjectInv

LEMMA AllocInject ==
  ASSUME TypeInv, InjectInv, NEW t \in Threads, Alloc(t)
  PROVE  InjectInv'
<1> USE DEF TypeInv, TypeOK
<1>1. CASE FetchPastEnd(t)
  <2>1. /\ pools' = pools /\ inject' = inject /\ scan' = scan /\ at' = at
    BY <1>1 DEF FetchPastEnd
  <2> DEFINE to == "null"
  <2>2. /\ pc' = [pc EXCEPT ![t] = to] /\ to \notin {"signal", "inject"}
        /\ to = "more" => pools[PoolOf(at[t])] = "ready"
    BY <1>1 DEF FetchPastEnd, Go
  <2>3. ~Busy(t)
    BY <1>1 DEF FetchPastEnd, Busy
  <2> HIDE DEF to
  <2> QED BY <2>1, <2>2, <2>3, InjectSame
<1>2. CASE FetchStraddling(t, Length[uri[t]])
  BY <1>2 DEF FetchStraddling, InjectInv, InOrder, Pending, Alone, Ahead, InReady, Busy
<1>3. CASE FetchChunk(t, Length[uri[t]])
  <2>1. /\ pools' = pools /\ inject' = inject /\ scan' = scan /\ pc[t] = "fetch"
        /\ \A r \in Threads : pc'[r] = IF r = t THEN "await" ELSE pc[r]
        /\ \A r \in Threads : r # t => at'[r] = at[r]
    BY <1>3 DEF FetchChunk, Go
  <2>2. \A r \in Threads : Busy(r)' <=> Busy(r)
    BY <2>1 DEF Busy
  <2> QED BY ZenonT(60), <2>1, <2>2 DEF InjectInv, InOrder, Pending, Alone, Ahead, InReady
<1>4. CASE Await(t)
  <2>1. /\ pools' = pools /\ inject' = inject /\ scan' = scan /\ at' = at
    BY <1>4 DEF Await
  <2> DEFINE to == IF pools[PoolOf(at[t])] = "ready" THEN "more" ELSE "null"
  <2>2. /\ pc' = [pc EXCEPT ![t] = to] /\ to \notin {"signal", "inject"}
        /\ to = "more" => pools[PoolOf(at[t])] = "ready"
    BY <1>4 DEF Await, Go
  <2>3. ~Busy(t)
    BY <1>4 DEF Await, Busy
  <2> HIDE DEF to
  <2> QED BY <2>1, <2>2, <2>3, InjectSame
<1>5. CASE Request(t)
  BY <1>5, RequestInject
<1>6. CASE NoRequest(t)
  <2>1. /\ pools' = pools /\ inject' = inject /\ scan' = scan /\ at' = at
    BY <1>6 DEF NoRequest
  <2> DEFINE to == "got"
  <2>2. /\ pc' = [pc EXCEPT ![t] = to] /\ to \notin {"signal", "inject"}
        /\ to = "more" => pools[PoolOf(at[t])] = "ready"
    BY <1>6 DEF NoRequest, Go
  <2>3. ~Busy(t)
    BY <1>6 DEF NoRequest, Busy
  <2> HIDE DEF to
  <2> QED BY <2>1, <2>2, <2>3, InjectSame
<1>7. CASE Signal(t)
  BY <1>7, SignalFact
<1> QED BY <1>1, <1>2, <1>3, <1>4, <1>5, <1>6, <1>7 DEF Alloc

LEMMA MapInject ==
  ASSUME TypeInv, InjectInv, NEW t \in Threads,
         Collide(t) \/ Lost(t) \/ Vacant(t) \/ Copy(t) \/ ReturnStep(t)
  PROVE  InjectInv'
<1>1. CASE Collide(t) \/ Lost(t)
  BY <1>1, InjectSame DEF Collide, Lost, NextSlot, Go, Busy
<1>2. CASE Vacant(t)
  <2>1. /\ pools' = pools /\ inject' = inject /\ scan' = scan /\ at' = at
    BY <1>2 DEF Vacant
  <2> DEFINE to == IF clone[t] = NULL THEN "fetch" ELSE "claim"
  <2>2. /\ pc' = [pc EXCEPT ![t] = to] /\ to \notin {"signal", "inject"}
        /\ to = "more" => pools[PoolOf(at[t])] = "ready"
    BY <1>2 DEF Vacant, Go
  <2>3. ~Busy(t)
    BY <1>2 DEF Vacant, Busy
  <2> HIDE DEF to
  <2> QED BY <2>1, <2>2, <2>3, InjectSame
<1>3. CASE Copy(t)
  BY ZenonT(60), <1>3, InjectSame DEF Copy, Go, Busy
<1>4. CASE ReturnStep(t)
  <2>1. /\ pc[t] \in {"load", "null", "claim"} /\ pools' = pools /\ inject' = inject
        /\ scan' = scan /\ at' = at
    BY <1>4, ReturnStepType
  <2>2. pc' = [pc EXCEPT ![t] = "idle"]
    <3>1. PICK urid \in Slots : Return(t, urid)
      BY <1>4, ReturnStepType
    <3> QED BY <3>1 DEF Return, Go
  <2> QED BY ZenonT(60), <2>1, <2>2, InjectSame DEF Busy
<1> QED BY <1>1, <1>2, <1>3, <1>4

LEMMA InjectStep == TypeInv /\ InjectInv /\ [Next]_vars => InjectInv'
<1> SUFFICES ASSUME TypeInv, InjectInv, [Next]_vars PROVE InjectInv'
  OBVIOUS
<1>1. CASE UNCHANGED vars
  BY <1>1 DEF InjectInv, InOrder, Pending, Alone, Ahead, InReady, Busy, vars, allocVars
<1>2. ASSUME NEW t \in Callers, NEW u \in Uris, Call(t, u) PROVE InjectInv'
  <2>1. t \in Threads
    OBVIOUS
  <2> QED BY ZenonT(60), <1>2, <2>1, InjectSame DEF Call, Go, Busy
<1>3. ASSUME NEW t \in Threads, Inject(t) PROVE InjectInv'
  BY <1>3, InjectHereFact, InjectNextFact DEF Inject
<1> QED BY <1>1, <1>2, <1>3, Steps, AllocInject, MapInject, WorkerFact

(* lfrtm_inject finds the pool it was called for; no pool is ever injected *)
(* twice, and none is asked for that nobody will inject.                   *)
THEOREM InjectedOnce == Spec => []OneInjection
<1>1. TypeInv /\ InjectInv => OneInjection
  <2> SUFFICES ASSUME TypeInv, InjectInv, NEW t \in Threads, DoubleInjection(t) PROVE FALSE
    BY DEF OneInjection
  <2>1. pc[t] = "inject" /\ scan[t] \in 0..NumPools
    BY DEF DoubleInjection, TypeInv, TypeOK
  <2>2. PICK k \in 0..NumPools - 1 : pools[k] = "ongoing"
    BY <2>1 DEF InjectInv, Pending, Busy
  <2>3. scan[t] <= k /\ scan[t] < NumPools
    BY <2>1, <2>2 DEF InjectInv, Ahead
  <2>4. scan[t] \in 0..NumPools - 1 /\ pools[scan[t]] # "empty"
    BY <2>1, <2>2, <2>3 DEF InjectInv, InOrder
  <2> QED BY <2>3, <2>4 DEF DoubleInjection
<1> QED BY <1>1, TypeInit, InjectInit, TypeStep, InjectStep, PTL DEF Spec

----------------------------------------------------------------------------
(* Memory is refused at the end only, if a pool has room for a chunk of    *)
(* each caller and one more.  A pool nobody has asked for follows one that *)
(* holds nothing but what its first chunk lost at the front and the chunks *)
(* of threads that have yet to ask.                                        *)

\* Every chunk is at most l long, and a pool takes one for each caller and one more.
Enough(l) == (\A u \in Uris : Length[u] <= l) /\ l * (Cardinality(Callers) + 1) <= PoolSize

BigPools == IsFiniteSet(Callers) /\ \E l \in Nat \ {0} : Enough(l)

Longest == CHOOSE l \in Nat \ {0} : Enough(l)

\* The thread has memory and has yet to see whether the next pool is missing.
Asks(t) == pc[t] \in {"await", "more"}
Askers(k) == {t \in Callers : Asks(t) /\ PoolOf(at[t]) = k}
Asked(k) == Longest * Cardinality(Askers(k))

OnlyCallers == \A t \in Threads : uri[t] # NoCall => t \in Callers
Awaited == \A t \in Threads : pc[t] = "await" => pools[PoolOf(at[t])] # "empty"
Room == \A k \in 0..NumPools - 1 : pools[k] = "empty" =>
          k >= 1 /\ offset < PoolSize * (k - 1) + Longest + Asked(k - 1)

RoomInv == OnlyCallers /\ Awaited /\ NullAtEndOnly /\ Room

LEMMA LongestFact ==
  ASSUME BigPools
  PROVE  /\ Longest \in Nat \ {0} /\ \A u \in Uris : Length[u] <= Longest
         /\ Longest * (Cardinality(Callers) + 1) <= PoolSize
         /\ IsFiniteSet(Callers) /\ Cardinality(Callers) \in Nat
<1>1. Longest \in Nat \ {0} /\ Enough(Longest)
  BY DEF BigPools, Longest
<1> QED BY <1>1, FS_CardinalityType DEF Enough, BigPools

(* What the threads that have yet to ask hold leaves room for two chunks.  *)
LEMMA AskedFact ==
  ASSUME BigPools, NEW S \in SUBSET Callers
  PROVE  /\ IsFiniteSet(S) /\ Cardinality(S) \in Nat /\ Longest * Cardinality(S) \in Nat
         /\ Longest + Longest * Cardinality(S) <= PoolSize
         /\ \A t \in Callers \ S :
              /\ Longest * Cardinality(S \cup {t}) = Longest * Cardinality(S) + Longest
              /\ 2 * Longest + Longest * Cardinality(S) <= PoolSize
<1>1. IsFiniteSet(S) /\ Cardinality(S) \in Nat /\ Cardinality(S) <= Cardinality(Callers)
  BY LongestFact, FS_Subset, FS_CardinalityType
<1>2. ASSUME NEW c \in Nat, c <= Cardinality(Callers)
      PROVE  Longest * c \in Nat /\ Longest + Longest * c <= PoolSize
  <2>1. PICK l \in Nat : l = Longest
    BY LongestFact
  <2>2. PICK n \in Nat : n = Cardinality(Callers)
    BY LongestFact
  <2>3. l * c \in Nat /\ l * c <= l * n /\ l * (n + 1) = l * n + l /\ l * n \in Nat
    BY <1>2, <2>2, TimesMono
  <2>4. l * (n + 1) <= PoolSize
    BY <2>1, <2>2, LongestFact
  <2> QED BY <2>1, <2>3, <2>4
<1>3. ASSUME NEW t \in Callers \ S
      PROVE  /\ Longest * Cardinality(S \cup {t}) = Longest * Cardinality(S) + Longest
             /\ 2 * Longest + Longest * Cardinality(S) <= PoolSize
  <2>1. Cardinality(S \cup {t}) = Cardinality(S) + 1
    BY <1>1, FS_AddElement
  <2>2. Cardinality(S \cup {t}) <= Cardinality(Callers)
    <3>1. S \cup {t} \subseteq Callers
      OBVIOUS
    <3> QED BY <3>1, LongestFact, FS_Subset
  <2>3. PICK c \in Nat : c = Cardinality(S)
    BY <1>1
  <2>4. PICK l \in Nat : l = Longest
    BY LongestFact
  <2>5. l * (c + 1) = l * c + l /\ l * c \in Nat
    BY TimesMono
  <2>6. Longest + Longest * (c + 1) <= PoolSize
    BY <1>2, <2>1, <2>2, <2>3
  <2> QED BY <2>1, <2>3, <2>4, <2>5, <2>6
<1> QED BY <1>1, <1>2, <1>3

LEMMA AskersFact ==
  ASSUME BigPools, NEW k
  PROVE  /\ Askers(k) \in SUBSET Callers /\ Asked(k) \in Nat /\ Longest + Asked(k) <= PoolSize
  BY AskedFact DEF Askers, Asked

LEMMA RoomInit == ASSUME BigPools PROVE Init => RoomInv
<1> SUFFICES ASSUME Init PROVE RoomInv
  OBVIOUS
<1>1. OnlyCallers /\ Awaited /\ NullAtEndOnly
  BY DEF Init, OnlyCallers, Awaited, NullAtEndOnly
<1>2. ASSUME NEW k \in 0..NumPools - 1, pools[k] = "empty"
      PROVE  k >= 1 /\ offset < PoolSize * (k - 1) + Longest + Asked(k - 1)
  <2>1. k >= 1 /\ offset = 0 /\ k - 1 \in Nat
    BY <1>2 DEF Init, AllocInit
  <2>2. PICK j \in Nat : j = k - 1
    BY <2>1
  <2>3. PoolSize * j \in Nat /\ Asked(j) \in Nat /\ Longest \in Nat \ {0}
    BY TimesMono, AskersFact, LongestFact
  <2> QED BY <2>1, <2>2, <2>3
<1> QED BY <1>1, <1>2 DEF RoomInv, Room

(* A pool that is missing lies beyond the offset, and there is room for    *)
(* two chunks where the offset is in the pool before.                      *)
LEMMA RoomFact ==
  ASSUME BigPools, TypeInv, RoomInv, NEW k \in 0..NumPools - 1, pools[k] = "empty"
  PROVE  /\ k - 1 \in Nat /\ PoolSize * (k - 1) \in Nat
         /\ offset < PoolSize * (k - 1) + Longest + Asked(k - 1)
         /\ PoolOf(offset) < k
         /\ PoolOf(offset) = k - 1 => Byte(offset) < Longest + Asked(k - 1)
         /\ PoolOf(offset) # k - 1 => PoolSize * PoolOf(offset) + PoolSize <= PoolSize * (k - 1)
<1>1. k - 1 \in Nat /\ offset < PoolSize * (k - 1) + Longest + Asked(k - 1)
  BY DEF RoomInv, Room
<1> DEFINE i == k - 1
           j == PoolOf(offset)
           b == Byte(offset)
           d == Asked(i)
<1>2. /\ offset \in Nat /\ j \in Nat /\ b \in 0..PoolSize - 1 /\ offset = PoolSize * j + b
  <2>1. offset \in Nat
    BY EndFact DEF TypeInv, TypeOK
  <2> QED BY <2>1, PoolFact
<1>3. d \in Nat /\ Longest + d <= PoolSize /\ Longest \in Nat
  BY AskersFact, LongestFact
<1>4. PoolSize * i \in Nat /\ PoolSize * j \in Nat
  BY <1>1, <1>2, TimesMono
<1> HIDE DEF j, b, d
<1>5. CASE j = i
  BY <1>1, <1>2, <1>3, <1>4, <1>5 DEF d, j, b
<1>6. CASE j < i
  <2>1. PoolSize * (j + 1) <= PoolSize * i /\ PoolSize * (j + 1) = PoolSize * j + PoolSize
    BY <1>1, <1>2, <1>6, TimesMono
  <2> QED BY <1>1, <1>2, <1>4, <1>6, <2>1 DEF d, j, b
<1>7. CASE i < j
  <2>1. PoolSize * (i + 1) <= PoolSize * j /\ PoolSize * (i + 1) = PoolSize * i + PoolSize
    BY <1>1, <1>2, <1>7, TimesMono
  <2>2. offset < PoolSize * i + PoolSize
    BY <1>1, <1>2, <1>3, <1>4 DEF d
  <2> QED BY <1>2, <1>4, <2>1, <2>2
<1> QED BY <1>1, <1>2, <1>5, <1>6, <1>7

(* A step of thread t that takes no offset; if t stops being one that has  *)
(* to ask, the pool it would have asked for is there.                      *)
LEMMA RoomStays ==
  ASSUME TypeInv, RoomInv, NEW t \in Threads, offset' = offset, at' = at,
         \A r \in Threads : r # t => pc'[r] = pc[r],
         \A r \in Threads : uri'[r] # NoCall => r \in Callers,
         pc'[t] = "await" => pc[t] = "await", pc'[t] = "null" => offset = End,
         pc'[t] = "more" => pc[t] \in {"await", "more"},
         \A k \in 0..NumPools - 1 : pools'[k] = "empty" =>
           /\ pools[k] = "empty"
           /\ Asks(t) /\ PoolOf(at[t]) = k - 1 => pc'[t] \in {"await", "more"}
  PROVE  RoomInv'
<1>1. OnlyCallers' /\ NullAtEndOnly'
  BY DEF RoomInv, OnlyCallers, NullAtEndOnly
<1>2. Awaited'
  <2> SUFFICES ASSUME NEW r \in Threads, pc'[r] = "await" PROVE pools'[PoolOf(at[r])] # "empty"
    BY DEF Awaited
  <2>1. pc[r] = "await"
    OBVIOUS
  <2>2. PoolOf(at[r]) \in 0..NumPools - 1 /\ pools[PoolOf(at[r])] # "empty"
    BY <2>1, AtFact DEF RoomInv, Awaited
  <2> QED BY <2>2
<1>3. ASSUME NEW k \in 0..NumPools - 1, pools'[k] = "empty"
      PROVE  k >= 1 /\ offset' < PoolSize * (k - 1) + Longest + Asked(k - 1)'
  <2>1. k >= 1 /\ offset < PoolSize * (k - 1) + Longest + Asked(k - 1)
    BY <1>3 DEF RoomInv, Room
  <2>2. Askers(k - 1)' = Askers(k - 1)
    BY <1>3 DEF Askers, Asks
  <2> QED BY <2>1, <2>2 DEF Asked
<1> QED BY <1>1, <1>2, <1>3 DEF RoomInv, Room

(* The offset moves, to a place below the end.                             *)
LEMMA RoomFetch ==
  ASSUME BigPools, TypeInv, RoomInv, NEW t \in Threads,
         FetchStraddling(t, Length[uri[t]]) \/ FetchChunk(t, Length[uri[t]]), uri' = uri
  PROVE  RoomInv'
<1> DEFINE j == PoolOf(offset)
           b == Byte(offset)
           size == Length[uri[t]]
           q == PoolSize * j
<1>1. /\ pc[t] = "fetch" /\ j < NumPools /\ pools' = pools /\ offset' = Advance(offset, size)
  BY DEF FetchStraddling, FetchChunk
<1>2. /\ offset \in Nat /\ j \in 0..NumPools - 1 /\ b \in 0..PoolSize - 1
      /\ offset = q + b /\ q \in Nat
  <2>1. offset \in Nat
    BY EndFact DEF TypeInv, TypeOK
  <2>2. j \in Nat /\ b \in 0..PoolSize - 1 /\ offset = q + b
    BY <2>1, PoolFact
  <2> QED BY <1>1, <2>1, <2>2, TimesMono
<1>3. /\ uri[t] \in Uris /\ t \in Callers /\ size \in Nat /\ size >= 1 /\ size <= Longest
      /\ Longest \in Nat
  BY <1>1, LongestFact DEF TypeInv, TypeOK, CallOK, RoomInv, OnlyCallers
<1>4. offset' <= offset + size /\ offset' \in Nat
  BY <1>1, <1>2, <1>3, EndFact DEF Advance
<1>5. OnlyCallers'
  BY DEF RoomInv, OnlyCallers
<1>6. NullAtEndOnly'
  <2>1. offset < End
    BY <1>1, <1>2, InPool
  <2>2. \A r \in Threads : pc[r] # "null"
    BY <1>2, <2>1, EndFact DEF RoomInv, NullAtEndOnly
  <2>3. \A r \in Threads : pc'[r] = pc[r] \/ pc'[r] = "await"
    BY DEF FetchStraddling, FetchChunk, Go, TypeInv, TypeOK
  <2> QED BY <2>2, <2>3 DEF NullAtEndOnly
<1>7. t \notin Askers(j) /\ \A k : t \notin Askers(k)
  BY <1>1 DEF Askers, Asks
<1>8. CASE FetchStraddling(t, size)
  <2>1. pc' = pc /\ at' = at /\ b + size > PoolSize
    BY <1>8 DEF FetchStraddling, Straddles
  <2>2. Awaited'
    BY <1>1, <2>1 DEF RoomInv, Awaited
  <2>3. ASSUME NEW k \in 0..NumPools - 1, pools[k] = "empty"
        PROVE  k >= 1 /\ offset' < PoolSize * (k - 1) + Longest + Asked(k - 1)'
    <3> DEFINE d == Asked(k - 1)
               p == PoolSize * (k - 1)
    <3>1. /\ k >= 1 /\ p \in Nat
          /\ j = k - 1 => b < Longest + d
          /\ j # k - 1 => q + PoolSize <= p
      BY <2>3, RoomFact
    <3>2. Askers(k - 1) \in SUBSET Callers /\ t \in Callers \ Askers(k - 1)
      BY <1>3, <1>7, AskersFact
    <3>3. d \in Nat /\ 2 * Longest + d <= PoolSize
      BY <3>2, AskedFact DEF Asked
    <3>4. Asked(k - 1)' = d
      BY <2>1 DEF Asked, Askers, Asks
    <3> HIDE DEF d, p, j, b, size, q
    <3>5. j # k - 1
      <4> SUFFICES ASSUME j = k - 1 PROVE FALSE
        OBVIOUS
      <4>1. b < Longest + d
        BY <3>1
      <4> QED BY <1>2, <1>3, <2>1, <3>3, <4>1
    <3>6. q + PoolSize <= p
      BY <3>1, <3>5
    <3>7. offset' < p + Longest
      BY <1>2, <1>3, <1>4, <3>1, <3>6
    <3>8. p + Longest <= p + Longest + d
      BY <1>3, <3>1, <3>3
    <3>9. offset' < p + Longest + Asked(k - 1)'
      BY <1>3, <1>4, <3>1, <3>3, <3>4, <3>7, <3>8
    <3> QED BY <3>1, <3>9 DEF p
  <2> QED BY <1>1, <1>5, <1>6, <2>2, <2>3 DEF RoomInv, Room
<1>9. CASE FetchChunk(t, size)
  <2>1. /\ pc' = [pc EXCEPT ![t] = "await"] /\ at' = [at EXCEPT ![t] = offset]
        /\ b + size <= PoolSize
    BY <1>2, <1>3, <1>9 DEF FetchChunk, Straddles, Go
  <2>2. /\ \A r \in Threads : pc'[r] = IF r = t THEN "await" ELSE pc[r]
        /\ \A r \in Threads : at'[r] = IF r = t THEN offset ELSE at[r]
    BY <2>1 DEF TypeInv, TypeOK
  <2>3. pools[j] # "empty"
    BY <1>2, RoomFact
  <2>4. Awaited'
    BY <1>1, <2>2, <2>3 DEF RoomInv, Awaited
  <2>5. ASSUME NEW k \in 0..NumPools - 1, pools[k] = "empty"
        PROVE  k >= 1 /\ offset' < PoolSize * (k - 1) + Longest + Asked(k - 1)'
    <3> DEFINE d == Asked(k - 1)
               p == PoolSize * (k - 1)
    <3>1. /\ k >= 1 /\ p \in Nat
          /\ j # k - 1 => q + PoolSize <= p
          /\ offset < p + Longest + d
      BY <2>5, RoomFact
    <3>2. Askers(k - 1) \in SUBSET Callers /\ t \in Callers \ Askers(k - 1)
      BY <1>3, <1>7, AskersFact
    <3>3. /\ d \in Nat
          /\ Longest * Cardinality(Askers(k - 1) \cup {t}) = d + Longest
      BY <3>2, AskedFact DEF Asked
    <3>4. CASE j = k - 1
      <4>1. Askers(k - 1)' = Askers(k - 1) \cup {t}
        BY <1>3, <2>2, <3>4 DEF Askers, Asks
      <4>2. Asked(k - 1)' = d + Longest
        BY <3>3, <4>1 DEF Asked
      <4> HIDE DEF d, p, j, b, size, q
      <4>3. offset' < p + Longest + (d + Longest)
        BY <1>2, <1>3, <1>4, <3>1, <3>3
      <4> QED BY <3>1, <4>2, <4>3 DEF p
    <3>5. CASE j # k - 1
      <4>1. Askers(k - 1)' = Askers(k - 1)
        BY <1>7, <2>2, <3>5 DEF Askers, Asks
      <4>2. Asked(k - 1)' = d
        BY <4>1 DEF Asked
      <4>3. offset' <= q + PoolSize
        <5> HIDE DEF j, b, size, q
        <5> QED BY <1>2, <1>3, <1>4, <2>1
      <4>4. Longest >= 1
        BY LongestFact
      <4> HIDE DEF d, p, j, b, size, q
      <4>5. q + PoolSize <= p
        BY <3>1, <3>5
      <4>6. offset' < p + Longest + d
        BY <1>2, <1>3, <1>4, <3>1, <3>3, <4>3, <4>4, <4>5
      <4> QED BY <3>1, <4>2, <4>6 DEF p
    <3> QED BY <3>4, <3>5
  <2> QED BY <1>1, <1>5, <1>6, <2>4, <2>5 DEF RoomInv, Room
<1> QED BY <1>8, <1>9

LEMMA RoomAlloc ==
  ASSUME BigPools, TypeInv, RoomInv, NEW t \in Threads, Alloc(t)
  PROVE  RoomInv'
<1>1. uri' = uri /\ \A r \in Threads : uri'[r] # NoCall => r \in Callers
  BY DEF Alloc, mapVars, RoomInv, OnlyCallers
<1>2. CASE FetchPastEnd(t)
  <2>1. offset = End
    <3>1. offset \in Nat /\ offset <= End /\ End \in Nat
      BY EndFact DEF TypeInv, TypeOK
    <3>2. PoolOf(offset) \in Nat /\ ~(PoolOf(offset) < NumPools)
      BY <1>2, <3>1, PoolFact DEF FetchPastEnd
    <3> QED BY <3>1, <3>2, InPool
  <2>2. /\ offset' = offset /\ at' = at /\ pools' = pools /\ pc[t] = "fetch" /\ pc'[t] = "null"
        /\ \A r \in Threads : r # t => pc'[r] = pc[r]
    BY <1>2 DEF FetchPastEnd, Go, TypeInv, TypeOK
  <2> QED BY <1>1, <2>1, <2>2, RoomStays DEF Asks
<1>3. CASE FetchStraddling(t, Length[uri[t]]) \/ FetchChunk(t, Length[uri[t]])
  BY <1>1, <1>3, RoomFetch
<1>4. CASE Await(t)
  <2>1. PoolOf(at[t]) \in 0..NumPools - 1 /\ pools[PoolOf(at[t])] = "ready"
    BY <1>4, AtFact DEF Await, RoomInv, Awaited, TypeInv, TypeOK
  <2>2. /\ offset' = offset /\ at' = at /\ pools' = pools /\ pc[t] = "await" /\ pc'[t] = "more"
        /\ \A r \in Threads : r # t => pc'[r] = pc[r]
    BY <1>4, <2>1 DEF Await, Go, TypeInv, TypeOK
  <2> QED BY <1>1, <2>2, RoomStays
<1>5. CASE Request(t)
  <2> DEFINE n == PoolOf(at[t]) + 1
  <2>1. /\ offset' = offset /\ at' = at /\ pc[t] = "more" /\ pc'[t] \in {"signal", "inject"}
        /\ \A r \in Threads : r # t => pc'[r] = pc[r]
        /\ pools' = [pools EXCEPT ![n] = "ongoing"]
    BY <1>5 DEF Request, Go, TypeInv, TypeOK
  <2>2. \A k \in 0..NumPools - 1 : pools'[k] = "empty" => pools[k] = "empty" /\ n # k
    BY <2>1 DEF TypeInv, TypeOK
  <2>3. \A k \in 0..NumPools - 1 : PoolOf(at[t]) = k - 1 => n = k
    BY AtFact
  <2> HIDE DEF n
  <2> QED BY <1>1, <2>1, <2>2, <2>3, RoomStays
<1>6. CASE NoRequest(t)
  <2>1. /\ offset' = offset /\ at' = at /\ pools' = pools /\ pc[t] = "more" /\ pc'[t] = "got"
        /\ \A r \in Threads : r # t => pc'[r] = pc[r]
    BY <1>6 DEF NoRequest, Go, TypeInv, TypeOK
  <2>2. ASSUME NEW k \in 0..NumPools - 1, pools[k] = "empty" PROVE PoolOf(at[t]) # k - 1
    <3> SUFFICES ASSUME PoolOf(at[t]) = k - 1 PROVE FALSE
      OBVIOUS
    <3>1. PoolOf(at[t]) + 1 = k /\ k < NumPools
      BY AtFact
    <3> QED BY <1>6, <2>2, <3>1 DEF NoRequest, Missing
  <2> QED BY <1>1, <2>1, <2>2, RoomStays
<1>7. CASE Signal(t)
  <2>1. /\ offset' = offset /\ at' = at /\ pools' = pools /\ pc[t] = "signal" /\ pc'[t] = "got"
        /\ \A r \in Threads : r # t => pc'[r] = pc[r]
    BY <1>7 DEF Signal, Go, TypeInv, TypeOK
  <2> QED BY <1>1, <2>1, RoomStays DEF Asks
<1> QED BY <1>2, <1>3, <1>4, <1>5, <1>6, <1>7 DEF Alloc

LEMMA RoomStep ==
  ASSUME BigPools, TypeInv, RoomInv, [Next]_vars
  PROVE  RoomInv'
<1>1. \A r \in Threads : uri[r] # NoCall => r \in Callers
  BY DEF RoomInv, OnlyCallers
<1>2. CASE UNCHANGED vars
  BY <1>2 DEF vars, allocVars, mapVars, RoomInv, OnlyCallers, Awaited, NullAtEndOnly, Room,
              Asked, Askers, Asks
<1>3. ASSUME NEW t \in Callers, NEW u \in Uris, Call(t, u) PROVE RoomInv'
  <2>1. /\ t \in Threads /\ offset' = offset /\ at' = at /\ pools' = pools /\ pc[t] = "idle"
        /\ pc'[t] = "load" /\ \A r \in Threads : r # t => pc'[r] = pc[r]
    BY <1>3 DEF Call, Go, TypeInv, TypeOK
  <2>2. \A r \in Threads : uri'[r] # NoCall => r \in Callers
    BY <1>1, <1>3 DEF Call, TypeInv, TypeOK
  <2> QED BY <2>1, <2>2, RoomStays DEF Asks
<1>4. ASSUME NEW t \in Threads, ReturnStep(t) PROVE RoomInv'
  <2>1. PICK urid \in Slots : Return(t, urid)
    BY <1>4, ReturnStepType
  <2>2. /\ offset' = offset /\ at' = at /\ pools' = pools /\ pc[t] \in {"load", "null", "claim"}
        /\ pc'[t] = "idle" /\ \A r \in Threads : r # t => pc'[r] = pc[r]
    <3>1. pc[t] \in {"load", "null", "claim"}
      BY <1>4 DEF ReturnStep, Find, Overflow, OutOfMemory, Claim, Stolen
    <3> QED BY <2>1, <3>1 DEF Return, Go, TypeInv, TypeOK
  <2>3. \A r \in Threads : uri'[r] # NoCall => r \in Callers
    BY <1>1, <2>1 DEF Return, TypeInv, TypeOK
  <2> QED BY <2>2, <2>3, RoomStays DEF Asks
<1>5. ASSUME NEW t \in Threads, Collide(t) \/ Lost(t) \/ Vacant(t) \/ Copy(t) PROVE RoomInv'
  <2>1. /\ offset' = offset /\ at' = at /\ pools' = pools /\ uri' = uri
        /\ pc[t] \in {"load", "claim", "got"} /\ pc'[t] \in {"load", "fetch", "claim"}
        /\ \A r \in Threads : r # t => pc'[r] = pc[r]
    BY <1>5 DEF Collide, Lost, Vacant, Copy, NextSlot, Go, mapVars, TypeInv, TypeOK
  <2> QED BY <1>1, <2>1, RoomStays DEF Asks
<1>6. ASSUME NEW t \in Threads, Inject(t) PROVE RoomInv'
  <2>1. /\ offset' = offset /\ at' = at /\ uri' = uri /\ pc[t] = "inject"
        /\ pc'[t] \in {"inject", "idle", "got"}
        /\ \A r \in Threads : r # t => pc'[r] = pc[r]
    BY <1>6 DEF Inject, InjectHere, InjectNext, Go, mapVars, TypeInv, TypeOK
  <2>2. \A k \in 0..NumPools - 1 : pools'[k] = "empty" => pools[k] = "empty"
    BY <1>6 DEF Inject, InjectHere, InjectNext, TypeInv, TypeOK
  <2> QED BY <1>1, <2>1, <2>2, RoomStays DEF Asks
<1>7. CASE WorkerInject
  <2>1. /\ offset' = offset /\ at' = at /\ uri' = uri /\ pools' = pools
        /\ pc[Worker] = "idle" /\ pc'[Worker] = "inject" /\ Worker \in Threads
        /\ \A r \in Threads : r # Worker => pc'[r] = pc[r]
    BY <1>7 DEF WorkerInject, TakeInject, Go, Threads, mapVars, TypeInv, TypeOK
  <2> QED BY <1>1, <2>1, RoomStays DEF Asks
<1> QED BY <1>2, <1>3, <1>4, <1>5, <1>6, <1>7, RoomAlloc, Steps

(* Memory is refused only when the last pool is used up, however slow the  *)
(* thread is that asks for the next pool, if the pools are big enough: in  *)
(* bin_init they have 1 MB.                                                *)
THEOREM RefusedAtEndOnly == ASSUME BigPools PROVE Spec => []NullAtEndOnly
<1>1. RoomInv => NullAtEndOnly
  BY DEF RoomInv
<1> QED BY <1>1, TypeInit, TypeStep, RoomInit, RoomStep, PTL DEF Spec

----------------------------------------------------------------------------
(* Chunks.  A thread holds the chunk it has taken the offset of until the  *)
(* string is written.                                                      *)

Holding(t) == pc[t] \in {"await", "more", "signal", "got"} \/ (pc[t] = "inject" /\ uri[t] # NoCall)
Ready(t) == Holding(t) /\ pc[t] # "await"

Apart(a, m, b, n) == a + m <= b \/ b + n <= a
Fits(a, n) == a + n <= offset /\ ~Straddles(a, n)

HeldFit == \A t \in Threads : Holding(t) => Fits(at[t], Length[uri[t]])
HeldReady == \A t \in Threads : Ready(t) => pools[PoolOf(at[t])] = "ready"
HeldApart == \A t, r \in Threads : Holding(t) /\ Holding(r) /\ t # r =>
               Apart(at[t], Length[uri[t]], at[r], Length[uri[r]])
TextFit == \A a \in DOMAIN text : Fits(a, Length[text[a]]) /\ pools[PoolOf(a)] = "ready"
TextApart == \A a, b \in DOMAIN text : a # b => Apart(a, Length[text[a]], b, Length[text[b]])
TextFree == \A t \in Threads, a \in DOMAIN text :
              Holding(t) => Apart(at[t], Length[uri[t]], a, Length[text[a]])

ChunkInv == HeldFit /\ HeldReady /\ HeldApart /\ TextFit /\ TextApart /\ TextFree

LEMMA ChunkInit == Init => ChunkInv
<1> SUFFICES ASSUME Init PROVE ChunkInv
  OBVIOUS
<1>1. DOMAIN text = {} /\ \A t \in Threads : ~Holding(t)
  BY DEF Init, Holding
<1> QED BY <1>1 DEF ChunkInv, HeldFit, HeldReady, HeldApart, TextFit, TextApart, TextFree, Ready

(* A thread that holds memory has a URI, and strings are URIs.             *)
LEMMA SizeFact ==
  ASSUME TypeInv
  PROVE  /\ \A t \in Threads : Holding(t) => uri[t] \in Uris /\ Length[uri[t]] \in 1..PoolSize
         /\ \A t \in Threads : at[t] \in Nat /\ PoolOf(at[t]) \in 0..NumPools - 1
         /\ \A a \in DOMAIN text : /\ a \in Nat /\ PoolOf(a) \in 0..NumPools - 1
                                   /\ text[a] \in Uris /\ Length[text[a]] \in 1..PoolSize
<1>1. \A t \in Threads : Holding(t) => uri[t] \in Uris
  BY DEF Holding, TypeInv, TypeOK, CallOK
<1>2. \A a \in DOMAIN text : a \in Nat /\ a < End /\ text[a] \in Uris
  BY EndFact DEF TypeInv, TypeOK
<1>3. ASSUME NEW a \in DOMAIN text
      PROVE  PoolOf(a) \in 0..NumPools - 1
  <2>1. a \in Nat /\ a < End
    BY <1>2
  <2>2. PoolOf(a) \in Nat /\ PoolOf(a) < NumPools
    BY <2>1, PoolFact, InPool
  <2> QED BY <2>2
<1>4. \A u \in Uris : Length[u] \in 1..PoolSize
  OBVIOUS
<1> QED BY <1>1, <1>2, <1>3, <1>4, AtFact

(* A step that hands out no memory and writes none.                        *)
LEMMA ChunkSame ==
  ASSUME TypeInv, ChunkInv, text' = text, at' = at, offset' \in Nat, offset <= offset',
         \A k \in 0..NumPools - 1 : pools[k] = "ready" => pools'[k] = "ready",
         \A r \in Threads : Holding(r)' => Holding(r) /\ uri'[r] = uri[r],
         \A r \in Threads : Ready(r)' => Ready(r) \/ pools[PoolOf(at[r])] = "ready"
  PROVE  ChunkInv'
<1>1. \A a, n \in Nat : Fits(a, n) => Fits(a, n)'
  BY DEF Fits, TypeInv, TypeOK, Straddles, Byte
<1>2. HeldFit' /\ TextFit'
  BY <1>1, SizeFact DEF ChunkInv, HeldFit, TextFit
<1>3. HeldReady'
  BY SizeFact DEF ChunkInv, HeldReady
<1>4. HeldApart' /\ TextFree' /\ TextApart'
  BY DEF ChunkInv, HeldApart, TextFree, TextApart, Apart
<1> QED BY <1>2, <1>3, <1>4 DEF ChunkInv

(* The chunk taken at the offset lies behind all others.                   *)
LEMMA ChunkFetch ==
  ASSUME TypeInv, ChunkInv, NEW t \in Threads, FetchChunk(t, Length[uri[t]]),
         uri' = uri, text' = text
  PROVE  ChunkInv'
<1>1. pc[t] = "fetch" /\ Length[uri[t]] \in 1..PoolSize /\ offset \in Nat
  <2>1. pc[t] = "fetch" /\ uri[t] \in Uris /\ offset \in 0..End
    BY DEF FetchChunk, TypeInv, TypeOK, CallOK
  <2> QED BY <2>1, EndFact
<1>2. PICK o \in Nat, n \in 1..PoolSize : o = offset /\ n = Length[uri[t]]
  BY <1>1
<1>3. o < End /\ ~Straddles(o, n)
  BY <1>2, InPool DEF FetchChunk
<1>4. offset' = o + n
  BY <1>2, <1>3, OnePool DEF FetchChunk
<1>5. /\ pools' = pools
      /\ \A r \in Threads : pc'[r] = IF r = t THEN "await" ELSE pc[r]
      /\ \A r \in Threads : at'[r] = IF r = t THEN o ELSE at[r]
  BY <1>2 DEF FetchChunk, Go, TypeInv, TypeOK
<1>6. \A r \in Threads : (Holding(r)' <=> (r = t \/ Holding(r))) /\ (Ready(r)' => (r # t /\ Ready(r)))
  BY <1>1, <1>5 DEF Holding, Ready
<1>7. \A a, m \in Nat : Fits(a, m) => Fits(a, m)' /\ Apart(a, m, o, n) /\ Apart(o, n, a, m)
  BY <1>2, <1>4 DEF Fits, Apart, Straddles, Byte
<1>8. Fits(o, n)'
  BY <1>2, <1>3, <1>4 DEF Fits, Straddles, Byte
<1>9. HeldFit'
  <2> SUFFICES ASSUME NEW r \in Threads, Holding(r)' PROVE Fits(at[r], Length[uri[r]])'
    BY DEF HeldFit
  <2>1. CASE r = t
    BY <1>2, <1>5, <1>8, <2>1
  <2>2. CASE r # t
    <3>1. PICK a \in Nat, m \in Nat : a = at[r] /\ m = Length[uri[r]]
      BY <1>6, <2>2, SizeFact
    <3>2. Fits(a, m)
      BY <1>6, <2>2, <3>1 DEF ChunkInv, HeldFit
    <3> QED BY <1>5, <1>7, <2>2, <3>1, <3>2
  <2> QED BY <2>1, <2>2
<1>10. HeldReady'
  BY <1>5, <1>6 DEF ChunkInv, HeldReady
<1>11. \A a \in DOMAIN text : Apart(o, n, a, Length[text[a]]) /\ a \in Nat /\ Length[text[a]] \in Nat
  BY <1>7, SizeFact DEF ChunkInv, TextFit
<1>12. TextFit' /\ TextApart'
  BY <1>5, <1>7, <1>11 DEF ChunkInv, TextFit, TextApart, Apart
<1>13. \A r \in Threads : Holding(r) => Apart(at[r], Length[uri[r]], o, n) /\ Apart(o, n, at[r], Length[uri[r]])
  BY <1>7, SizeFact DEF ChunkInv, HeldFit
<1>14. HeldApart'
  BY <1>2, <1>5, <1>6, <1>13 DEF ChunkInv, HeldApart, Apart
<1>15. TextFree'
  BY <1>2, <1>5, <1>6, <1>11 DEF ChunkInv, TextFree, Apart
<1> QED BY <1>9, <1>10, <1>12, <1>14, <1>15 DEF ChunkInv

(* The string takes the place of the chunk that was held for it.           *)
LEMMA ChunkCopy ==
  ASSUME TypeInv, ChunkInv, NEW t \in Threads, Copy(t)
  PROVE  ChunkInv' /\ at[t] \notin DOMAIN text
<1>1. PICK o \in Nat, u \in Uris : o = at[t] /\ u = uri[t] /\ Length[u] \in 1..PoolSize
  BY SizeFact DEF Copy, Holding
<1>2. Holding(t) /\ Ready(t) /\ pc[t] = "got"
  BY DEF Copy, Holding, Ready
<1>3. /\ offset' = offset /\ pools' = pools /\ at' = at /\ uri' = uri
      /\ \A r \in Threads : pc'[r] = IF r = t THEN "claim" ELSE pc[r]
      /\ DOMAIN text' = DOMAIN text \cup {o}
      /\ \A a \in DOMAIN text' : text'[a] = IF a = o THEN u ELSE text[a]
  BY <1>1 DEF Copy, Go, TypeInv, TypeOK
<1>4. \A r \in Threads : (Holding(r)' => r # t /\ Holding(r)) /\ (Ready(r)' => Ready(r))
  BY <1>3 DEF Holding, Ready
<1>5. \A a, n \in Nat : Fits(a, n)' <=> Fits(a, n)
  BY <1>3 DEF Fits, Straddles, Byte
<1>6. \A a \in DOMAIN text : Apart(o, Length[u], a, Length[text[a]]) /\ Apart(a, Length[text[a]], o, Length[u])
  BY <1>1, <1>2 DEF ChunkInv, TextFree, Apart
<1>7. o \notin DOMAIN text
  BY <1>1, <1>6, SizeFact DEF Apart
<1>8. HeldFit' /\ HeldReady' /\ HeldApart'
  BY <1>3, <1>4, <1>5, SizeFact DEF ChunkInv, HeldFit, HeldReady, HeldApart, Apart
<1>9. TextFit'
  <2> SUFFICES ASSUME NEW a \in DOMAIN text'
               PROVE  Fits(a, Length[text[a]])' /\ pools'[PoolOf(a)] = "ready"
    BY <1>3 DEF TextFit, PoolOf
  <2>1. CASE a = o
    <3>1. Fits(o, Length[u]) /\ pools[PoolOf(o)] = "ready" /\ Length[u] \in Nat
      BY <1>1, <1>2 DEF ChunkInv, HeldFit, HeldReady
    <3> QED BY <1>3, <1>5, <2>1, <3>1
  <2>2. CASE a # o
    <3>1. a \in DOMAIN text
      BY <1>3, <2>2
    <3>2. Fits(a, Length[text[a]]) /\ pools[PoolOf(a)] = "ready"
          /\ a \in Nat /\ Length[text[a]] \in Nat
      BY <3>1, SizeFact DEF ChunkInv, TextFit
    <3> QED BY <1>3, <1>5, <2>2, <3>2
  <2> QED BY <2>1, <2>2
<1>10. TextApart'
  BY <1>3, <1>6 DEF ChunkInv, TextApart, Apart
<1>11. TextFree'
  <2> SUFFICES ASSUME NEW r \in Threads, NEW a \in DOMAIN text', Holding(r)'
               PROVE  Apart(at[r], Length[uri[r]], a, Length[text[a]])'
    BY DEF TextFree
  <2>1. CASE a = o
    BY <1>1, <1>2, <1>3, <1>4, <2>1 DEF ChunkInv, HeldApart, Apart
  <2>2. CASE a # o
    BY <1>3, <1>4, <2>2 DEF ChunkInv, TextFree, Apart
  <2> QED BY <2>1, <2>2
<1> QED BY <1>1, <1>7, <1>8, <1>9, <1>10, <1>11 DEF ChunkInv

(* A thread goes on, and nothing is handed out or written.                 *)
LEMMA ChunkGo ==
  ASSUME TypeInv, ChunkInv, NEW t \in Threads, text' = text, at' = at, offset' = offset,
         \A r \in Threads : r # t => pc'[r] = pc[r] /\ uri'[r] = uri[r],
         \A k \in 0..NumPools - 1 : pools[k] = "ready" => pools'[k] = "ready",
         Holding(t)' => Holding(t) /\ uri'[t] = uri[t],
         Ready(t)' => Ready(t) \/ pools[PoolOf(at[t])] = "ready"
  PROVE  ChunkInv'
<1>1. \A r \in Threads : Holding(r)' => Holding(r) /\ uri'[r] = uri[r]
  BY DEF Holding
<1>2. \A r \in Threads : Ready(r)' => Ready(r) \/ pools[PoolOf(at[r])] = "ready"
  BY DEF Holding, Ready
<1>3. offset' \in Nat /\ offset <= offset'
  BY EndFact DEF TypeInv, TypeOK
<1> QED BY <1>1, <1>2, <1>3, ChunkSame

LEMMA ChunkAlloc ==
  ASSUME TypeInv, ChunkInv, NEW t \in Threads, Alloc(t)
  PROVE  ChunkInv' /\ text' = text
<1>1. text' = text /\ uri' = uri /\ pc \in [Threads -> AllocPc \cup {"idle", "load", "claim"}]
  BY DEF Alloc, mapVars, TypeInv, TypeOK
<1>2. CASE FetchChunk(t, Length[uri[t]])
  BY <1>1, <1>2, ChunkFetch
<1>3. CASE FetchStraddling(t, Length[uri[t]])
  <2>1. pools' = pools /\ pc' = pc /\ at' = at /\ pc[t] = "fetch"
    BY <1>3 DEF FetchStraddling
  <2>2. uri[t] \in Uris /\ offset \in 0..End
    BY <2>1 DEF TypeInv, TypeOK, CallOK
  <2>3. Length[uri[t]] \in 1..PoolSize
    BY <2>2
  <2>4. offset' \in Nat /\ offset <= offset'
    BY <1>3, <2>2, <2>3, EndFact DEF FetchStraddling, Advance
  <2> QED BY <1>1, <2>1, <2>4, ChunkSame DEF Holding, Ready
<1>4. CASE FetchPastEnd(t)
  <2>1. /\ offset' = offset /\ at' = at /\ pools' = pools
        /\ \A r \in Threads : pc'[r] = IF r = t THEN "null" ELSE pc[r]
    BY <1>1, <1>4 DEF FetchPastEnd, Go
  <2>2. ~Holding(t)' /\ ~Ready(t)'
    BY <2>1 DEF Holding, Ready
  <2> QED BY <1>1, <2>1, <2>2, ChunkGo
<1>5. CASE Await(t)
  <2>1. /\ offset' = offset /\ at' = at /\ pools' = pools /\ pc[t] = "await"
        /\ \A r \in Threads : r # t => pc'[r] = pc[r]
        /\ pc'[t] = IF pools[PoolOf(at[t])] = "ready" THEN "more" ELSE "null"
    BY <1>1, <1>5 DEF Await, Go
  <2>2. Holding(t) /\ (Ready(t)' => pools[PoolOf(at[t])] = "ready")
    BY <2>1 DEF Holding, Ready
  <2> QED BY <1>1, <2>1, <2>2, ChunkGo
<1>6. CASE Request(t)
  <2>1. /\ offset' = offset /\ at' = at /\ pc[t] = "more"
        /\ \A r \in Threads : r # t => pc'[r] = pc[r]
    BY <1>1, <1>6 DEF Request, Go
  <2>2. \A k \in 0..NumPools - 1 : pools[k] = "ready" => pools'[k] = "ready"
    BY <1>6 DEF Request, Missing, TypeInv, TypeOK
  <2>3. Holding(t) /\ Ready(t)
    BY <2>1 DEF Holding, Ready
  <2> QED BY <1>1, <2>1, <2>2, <2>3, ChunkGo
<1>7. CASE NoRequest(t) \/ Signal(t)
  <2>1. /\ offset' = offset /\ at' = at /\ pools' = pools /\ pc[t] \in {"more", "signal"}
        /\ \A r \in Threads : r # t => pc'[r] = pc[r]
    BY <1>1, <1>7 DEF NoRequest, Signal, Go
  <2>2. Holding(t) /\ Ready(t)
    BY <2>1 DEF Holding, Ready
  <2> QED BY <1>1, <2>1, <2>2, ChunkGo
<1> QED BY <1>1, <1>2, <1>3, <1>4, <1>5, <1>6, <1>7 DEF Alloc

LEMMA ChunkInject ==
  ASSUME TypeInv, ChunkInv, NEW t \in Threads, Inject(t)
  PROVE  ChunkInv' /\ text' = text
<1>1. text' = text /\ uri' = uri /\ pc \in [Threads -> AllocPc \cup {"idle", "load", "claim"}]
  BY DEF Inject, mapVars, TypeInv, TypeOK
<1>2. /\ offset' = offset /\ at' = at /\ pc[t] = "inject"
      /\ \A r \in Threads : r # t => pc'[r] = pc[r]
      /\ pc'[t] \in {pc[t], IF uri[t] = NoCall THEN "idle" ELSE "got"}
  BY <1>1 DEF Inject, InjectHere, InjectNext, Go
<1>3. \A k \in 0..NumPools - 1 : pools[k] = "ready" => pools'[k] = "ready"
  BY DEF Inject, InjectHere, InjectNext, TypeInv, TypeOK
<1>4. (Holding(t)' => Holding(t)) /\ (Ready(t)' => Ready(t))
  BY <1>1, <1>2 DEF Holding, Ready
<1> QED BY <1>1, <1>2, <1>3, <1>4, ChunkGo

LEMMA ChunkMap ==
  ASSUME TypeInv, ChunkInv, NEW t \in Threads,
         Collide(t) \/ Lost(t) \/ Vacant(t) \/ ReturnStep(t)
  PROVE  ChunkInv' /\ text' = text
<1>1. /\ offset' = offset /\ at' = at /\ pools' = pools
      /\ pc \in [Threads -> AllocPc \cup {"idle", "load", "claim"}]
      /\ uri \in [Threads -> Uris \cup {NoCall}]
  BY MapType, ReturnStepType DEF TypeInv, TypeOK
<1>2. CASE Collide(t) \/ Lost(t) \/ Vacant(t)
  <2>1. /\ text' = text /\ uri' = uri /\ pc'[t] \in {"load", "claim", "fetch"}
        /\ \A r \in Threads : r # t => pc'[r] = pc[r]
    BY <1>1, <1>2 DEF Collide, Lost, NextSlot, Vacant, Go, mapVars
  <2>2. ~Holding(t)' /\ ~Ready(t)'
    BY <2>1 DEF Holding, Ready
  <2> QED BY <1>1, <2>1, <2>2, ChunkGo
<1>3. CASE ReturnStep(t)
  <2>1. PICK urid \in Slots : Return(t, urid)
    BY <1>3, ReturnStepType
  <2>2. /\ pc'[t] = "idle"
        /\ \A r \in Threads : r # t => pc'[r] = pc[r] /\ uri'[r] = uri[r]
    BY <1>1, <2>1 DEF Return, Go
  <2>3. text' = text
    BY <1>3, ReturnStepType
  <2>4. ~Holding(t)' /\ ~Ready(t)'
    BY <2>2 DEF Holding, Ready
  <2> QED BY <1>1, <2>2, <2>3, <2>4, ChunkGo
<1> QED BY <1>2, <1>3

LEMMA ChunkCall ==
  ASSUME TypeInv, ChunkInv, NEW t \in Threads, NEW u \in Uris, Call(t, u)
  PROVE  ChunkInv' /\ text' = text
<1>1. /\ offset' = offset /\ at' = at /\ pools' = pools /\ text' = text /\ pc'[t] = "load"
      /\ \A r \in Threads : r # t => pc'[r] = pc[r] /\ uri'[r] = uri[r]
  BY DEF Call, Go, TypeInv, TypeOK
<1>2. ~Holding(t)' /\ ~Ready(t)'
  BY <1>1 DEF Holding, Ready
<1> QED BY <1>1, <1>2, ChunkGo

LEMMA ChunkWorker ==
  ASSUME TypeInv, ChunkInv, WorkerInject
  PROVE  ChunkInv' /\ text' = text
<1>1. /\ offset' = offset /\ at' = at /\ pools' = pools /\ text' = text /\ uri' = uri
      /\ pc[Worker] = "idle" /\ pc'[Worker] = "inject" /\ Worker \in Threads
      /\ \A r \in Threads : r # Worker => pc'[r] = pc[r]
  BY WorkerType DEF WorkerInject, TakeInject, Go, mapVars, TypeInv, TypeOK
<1>2. ~Holding(Worker)' /\ ~Ready(Worker)'
  BY <1>1 DEF Holding, Ready, TypeInv, CallOK
<1> QED BY <1>1, <1>2, ChunkGo

LEMMA ChunkStutter ==
  ASSUME TypeInv, ChunkInv, UNCHANGED vars
  PROVE  ChunkInv' /\ text' = text
<1>1. /\ offset' = offset /\ at' = at /\ pools' = pools /\ text' = text /\ uri' = uri /\ pc' = pc
  BY DEF vars, allocVars, mapVars
<1>2. offset' \in Nat /\ offset <= offset'
  BY <1>1, EndFact DEF TypeInv, TypeOK
<1> QED BY <1>1, <1>2, ChunkSame DEF Holding, Ready

(* What is written stays written.                                          *)
LEMMA ChunkStep ==
  ASSUME TypeInv, ChunkInv, [Next]_vars
  PROVE  /\ ChunkInv'
         /\ \A a \in DOMAIN text : a \in DOMAIN text' /\ text'[a] = text[a]
<1>1. ASSUME NEW t \in Threads, Copy(t)
      PROVE  ChunkInv' /\ \A a \in DOMAIN text : a \in DOMAIN text' /\ text'[a] = text[a]
  <2>1. ChunkInv' /\ at[t] \notin DOMAIN text
    BY <1>1, ChunkCopy
  <2> QED BY <1>1, <2>1 DEF Copy
<1>2. CASE ~\E t \in Threads : Copy(t)
  <2>1. \A t \in Callers : t \in Threads
    OBVIOUS
  <2> QED BY <1>2, <2>1, Steps, ChunkStutter, ChunkCall, ChunkMap, ChunkAlloc, ChunkInject, ChunkWorker
<1> QED BY <1>1, <1>2

(* Chunks in use never overlap, and each lies in one pool that exists.     *)
THEOREM ChunksNeverMeet == Spec => []ChunksApart
<1>1. TypeInv /\ ChunkInv => ChunksApart
  <2> SUFFICES ASSUME TypeInv, ChunkInv PROVE ChunksApart
    OBVIOUS
  <2>1. \A c \in Chunks : \/ \E a \in DOMAIN text : c = <<a, Length[text[a]]>>
                          \/ \E t \in Threads : Ready(t) /\ Holding(t) /\ c = <<at[t], Length[uri[t]]>>
    BY DEF Chunks, Ready, Holding
  <2>2. ASSUME NEW c \in Chunks, NEW d \in Chunks
        PROVE  c = d \/ c[1] + c[2] <= d[1] \/ d[1] + d[2] <= c[1]
    BY <2>1 DEF ChunkInv, HeldApart, TextApart, TextFree, Apart
  <2>3. ASSUME NEW c \in Chunks
        PROVE  pools[PoolOf(c[1])] = "ready" /\ PoolOf(c[1]) = PoolOf(c[1] + c[2] - 1)
    <3>1. /\ c[1] \in Nat /\ c[2] \in 1..PoolSize
          /\ ~Straddles(c[1], c[2]) /\ pools[PoolOf(c[1])] = "ready"
      BY <2>1, SizeFact DEF ChunkInv, HeldFit, HeldReady, TextFit, Fits
    <3> QED BY <3>1, OnePool
  <2> QED BY <2>2, <2>3 DEF ChunksApart
<1>2. TypeInv /\ ChunkInv /\ [Next]_vars => ChunkInv'
  BY ChunkStep
<1> QED BY <1>1, <1>2, TypeInit, ChunkInit, TypeStep, PTL DEF Spec

----------------------------------------------------------------------------
(* The table.  A URI is in the first slot of its sequence that no other    *)
(* URI has taken, and a call has passed none but those others have taken.  *)

TakenBy(s, u) == Taken(s) /\ UriAt(s) = u
Passed(u, i) == \A j \in 0..i - 1 : Taken(SlotOf(u, j)) /\ UriAt(SlotOf(u, j)) # u

SlotText == \A s \in Slots : Taken(s) => items[s] \in DOMAIN text
CloneText == \A t \in Threads :
  /\ pc[t] = "claim" => clone[t] # NULL
  /\ uri[t] = NoCall => clone[t] = NULL
  /\ clone[t] # NULL => clone[t] \in DOMAIN text /\ text[clone[t]] = uri[t]
Placed == \A s \in Slots : Taken(s) => \E i \in Slots : s = SlotOf(UriAt(s), i) /\ Passed(UriAt(s), i)
Probing == \A t \in Threads : IF uri[t] = NoCall THEN probe[t] = 0 ELSE Passed(uri[t], probe[t])
Answered == \A p \in answers : p[2] # 0 => TakenBy(p[2], p[1])
OldFound == \A t \in Threads : uri[t] # NoCall /\ ~new[t] =>
              pc[t] \in {"load", "claim"} /\ \E s \in Slots : TakenBy(s, uri[t])

TableInv == SlotText /\ CloneText /\ Placed /\ Probing /\ Answered /\ OldFound

LEMMA TableInit == Init => TableInv
<1> SUFFICES ASSUME Init PROVE TableInv
  OBVIOUS
<1>1. /\ \A s \in Slots : ~Taken(s)
      /\ \A t \in Threads : pc[t] = "idle" /\ clone[t] = NULL /\ uri[t] = NoCall /\ probe[t] = 0
      /\ answers = {}
  BY DEF Init, Taken
<1> QED BY <1>1 DEF TableInv, SlotText, CloneText, Placed, Probing, Answered, OldFound

(* A URI is in one slot only.                                              *)
LEMMA OneSlot ==
  ASSUME TypeInv, Placed, NEW u \in Uris, NEW s \in Slots, NEW r \in Slots,
         TakenBy(s, u), TakenBy(r, u)
  PROVE  s = r
<1>1. PICK i \in Slots : s = SlotOf(u, i) /\ Passed(u, i)
  BY DEF Placed, TakenBy
<1>2. PICK j \in Slots : r = SlotOf(u, j) /\ Passed(u, j)
  BY DEF Placed, TakenBy
<1>3. i \in Nat /\ j \in Nat
  BY DEF Slots
<1>4. ~(i < j)
  BY <1>1, <1>2, <1>3 DEF Passed, TakenBy
<1>5. ~(j < i)
  BY <1>1, <1>2, <1>3 DEF Passed, TakenBy
<1> QED BY <1>1, <1>2, <1>3, <1>4, <1>5

(* A URI is not in the table if a slot of its sequence is free, or none is *)
(* left, and all slots before it are other URIs'.                          *)
LEMMA NotThere ==
  ASSUME TypeInv, Placed, NEW u \in Uris, NEW i \in 0..NItems, Passed(u, i),
         i < NItems => ~Taken(SlotOf(u, i))
  PROVE  \A s \in Slots : ~TakenBy(s, u)
<1> SUFFICES ASSUME NEW s \in Slots, TakenBy(s, u) PROVE FALSE
  OBVIOUS
<1>1. PICK j \in Slots : s = SlotOf(u, j) /\ Passed(u, j)
  BY DEF Placed, TakenBy
<1>2. i \in Nat /\ j \in Nat /\ j < NItems
  BY DEF Slots
<1>3. CASE j < i
  BY <1>1, <1>2, <1>3 DEF Passed, TakenBy
<1>4. CASE j = i
  BY <1>1, <1>2, <1>4 DEF TakenBy
<1>5. CASE i < j
  BY <1>1, <1>2, <1>5 DEF Passed
<1> QED BY <1>2, <1>3, <1>4, <1>5

(* What a step keeps: taken slots, their strings, and all that is said of  *)
(* them.                                                                   *)
LEMMA Kept ==
  ASSUME TypeInv, TableInv,
         \A a \in DOMAIN text : a \in DOMAIN text' /\ text'[a] = text[a],
         \A s \in Slots : Taken(s) => items'[s] = items[s]
  PROVE  /\ \A s \in Slots : Taken(s) => Taken(s)' /\ UriAt(s)' = UriAt(s)
         /\ \A s \in Slots, u \in Uris : TakenBy(s, u) => TakenBy(s, u)'
         /\ \A u \in Uris, i \in Nat : Passed(u, i) => Passed(u, i)'
<1>1. \A s \in Slots : Taken(s) => Taken(s)' /\ UriAt(s)' = UriAt(s)
  BY DEF TableInv, SlotText, Taken, UriAt
<1>2. \A u \in Uris, i \in Nat : \A j \in 0..i - 1 : SlotOf(u, j) \in Slots
  BY SlotRange
<1>3. \A s \in Slots, u \in Uris : TakenBy(s, u) => TakenBy(s, u)'
  BY <1>1 DEF TakenBy
<1>4. \A u \in Uris, i \in Nat : Passed(u, i) => Passed(u, i)'
  BY <1>1, <1>2 DEF Passed, SlotOf
<1> QED BY <1>1, <1>3, <1>4

LEMMA UriAtFact ==
  ASSUME TypeInv, TableInv, NEW s \in Slots, Taken(s)
  PROVE  UriAt(s) \in Uris
  BY DEF TypeInv, TypeOK, TableInv, SlotText, UriAt

(* What a step of one thread has to show.                                  *)
WellPlaced(s) == items[s] \in DOMAIN text /\ \E i \in Slots : s = SlotOf(UriAt(s), i) /\ Passed(UriAt(s), i)
CloneOf(t) == /\ pc[t] = "claim" => clone[t] # NULL
              /\ uri[t] = NoCall => clone[t] = NULL
              /\ clone[t] # NULL => clone[t] \in DOMAIN text /\ text[clone[t]] = uri[t]
ProbeOf(t) == IF uri[t] = NoCall THEN probe[t] = 0 ELSE Passed(uri[t], probe[t])
FoundBy(t) == uri[t] # NoCall /\ ~new[t] =>
                pc[t] \in {"load", "claim"} /\ \E s \in Slots : TakenBy(s, uri[t])

LEMMA TableGo ==
  ASSUME TypeInv, TypeInv', TableInv, NEW t \in Threads,
         \A a \in DOMAIN text : a \in DOMAIN text' /\ text'[a] = text[a],
         \A s \in Slots : Taken(s) => items'[s] = items[s],
         \A s \in Slots : Taken(s)' => Taken(s) \/ WellPlaced(s)',
         \A r \in Threads : r # t => /\ pc'[r] = pc[r] /\ uri'[r] = uri[r] /\ clone'[r] = clone[r]
                                     /\ probe'[r] = probe[r] /\ new'[r] = new[r],
         CloneOf(t)', ProbeOf(t)', FoundBy(t)',
         \A p \in answers' : p \in answers \/ (p[2] # 0 => TakenBy(p[2], p[1])')
  PROVE  TableInv'
<1>1. /\ \A s \in Slots : Taken(s) => Taken(s)' /\ UriAt(s)' = UriAt(s) /\ UriAt(s) \in Uris
      /\ \A s \in Slots, u \in Uris : TakenBy(s, u) => TakenBy(s, u)'
      /\ \A u \in Uris, i \in Nat : Passed(u, i) => Passed(u, i)'
  BY Kept, UriAtFact
<1>2. SlotText'
  BY DEF SlotText, TableInv, WellPlaced, Taken
<1>3. Placed'
  <2> SUFFICES ASSUME NEW s \in Slots, Taken(s)'
               PROVE  (\E i \in Slots : s = SlotOf(UriAt(s), i) /\ Passed(UriAt(s), i))'
    BY DEF Placed
  <2>1. CASE Taken(s)
    <3>1. PICK i \in Slots : s = SlotOf(UriAt(s), i) /\ Passed(UriAt(s), i)
      BY <2>1 DEF TableInv, Placed
    <3>2. PICK u \in Uris : u = UriAt(s) /\ UriAt(s)' = u
      BY <1>1, <2>1
    <3>3. i \in Nat
      BY DEF Slots
    <3>4. s = SlotOf(u, i) /\ Passed(u, i)'
      BY <1>1, <3>1, <3>2, <3>3
    <3> QED BY <3>2, <3>4 DEF SlotOf
  <2>2. CASE WellPlaced(s)'
    BY <2>2 DEF WellPlaced
  <2> QED BY <2>1, <2>2
<1>4. CloneText'
  <2> SUFFICES ASSUME NEW r \in Threads PROVE CloneOf(r)'
    BY DEF CloneText, CloneOf
  <2> QED BY DEF TableInv, CloneText, CloneOf
<1>5. Probing'
  <2> SUFFICES ASSUME NEW r \in Threads, r # t, uri[r] # NoCall PROVE Passed(uri[r], probe[r])'
    BY DEF Probing, ProbeOf, TableInv
  <2>1. PICK u \in Uris, i \in Nat : u = uri[r] /\ i = probe[r]
    BY DEF TypeInv, TypeOK, Slots
  <2>2. Passed(u, i)
    BY <2>1 DEF TableInv, Probing
  <2>3. Passed(u, i)' /\ uri'[r] = u /\ probe'[r] = i
    BY <1>1, <2>1, <2>2
  <2> QED BY <2>3
<1>6. OldFound'
  <2> SUFFICES ASSUME NEW r \in Threads, r # t, uri[r] # NoCall, ~new[r]
               PROVE  pc[r] \in {"load", "claim"} /\ (\E s \in Slots : TakenBy(s, uri[r]))'
    BY DEF OldFound, FoundBy
  <2>1. PICK u \in Uris : u = uri[r] /\ u = uri'[r]
    BY DEF TypeInv, TypeOK
  <2>2. pc[r] \in {"load", "claim"} /\ \E s \in Slots : TakenBy(s, u)
    BY <2>1 DEF TableInv, OldFound
  <2> QED BY <1>1, <2>1, <2>2
<1>7. Answered'
  <2>1. \A p \in answers : p[2] \in Slots /\ p[1] \in Uris
    BY DEF TypeInv, TypeOK
  <2> QED BY <1>1, <2>1 DEF TableInv, Answered
<1> QED BY <1>2, <1>3, <1>4, <1>5, <1>6, <1>7 DEF TableInv

(* A thread that has no URI after the step has nothing to show.            *)
LEMMA Idle ==
  ASSUME NEW t \in Threads, uri'[t] = NoCall, clone'[t] = NULL, probe'[t] = 0, pc'[t] # "claim"
  PROVE  CloneOf(t)' /\ ProbeOf(t)' /\ FoundBy(t)'
  BY DEF CloneOf, ProbeOf, FoundBy

(* The allocator and lfrtm_inject leave the map alone.                     *)
LEMMA TableAlloc ==
  ASSUME TypeInv, TypeInv', TableInv, NEW t \in Threads, Alloc(t) \/ Inject(t) \/ (WorkerInject /\ t = Worker),
         text' = text
  PROVE  TableInv'
<1>1. /\ items' = items /\ uri' = uri /\ clone' = clone /\ probe' = probe /\ new' = new
      /\ answers' = answers
  BY DEF Alloc, Inject, WorkerInject, mapVars
<1>2. /\ \A r \in Threads : r # t => pc'[r] = pc[r]
      /\ pc[t] \notin {"load", "claim"} /\ pc'[t] \notin {"load", "claim"}
  <2>1. pc \in [Threads -> AllocPc \cup {"idle", "load", "claim"}]
    BY DEF TypeInv, TypeOK
  <2>2. CASE FetchPastEnd(t) \/ FetchStraddling(t, Length[uri[t]]) \/ FetchChunk(t, Length[uri[t]])
    BY <2>1, <2>2 DEF FetchPastEnd, FetchStraddling, FetchChunk, Go
  <2>3. CASE Await(t)
    BY <2>1, <2>3 DEF Await, Go
  <2>4. CASE Request(t) \/ NoRequest(t) \/ Signal(t)
    BY <2>1, <2>4 DEF Request, NoRequest, Signal, Go
  <2>5. CASE Inject(t)
    BY <2>1, <2>5 DEF Inject, InjectHere, InjectNext, Go
  <2>6. CASE WorkerInject /\ t = Worker
    BY <2>1, <2>6 DEF WorkerInject, TakeInject, Go
  <2> QED BY <2>2, <2>3, <2>4, <2>5, <2>6 DEF Alloc
<1>3. CloneOf(t)'
  BY <1>1, <1>2 DEF CloneOf, TableInv, CloneText
<1>4. ProbeOf(t)'
  BY <1>1 DEF ProbeOf, TableInv, Probing, Passed, Taken, UriAt
<1>5. FoundBy(t)'
  BY <1>1, <1>2 DEF FoundBy, TableInv, OldFound
<1>6. \A s \in Slots : Taken(s)' => Taken(s)
  BY <1>1 DEF Taken
<1> QED BY <1>1, <1>2, <1>3, <1>4, <1>5, <1>6, TableGo

(* A call begins: it has passed nothing, and knows whether the URI is new. *)
LEMMA TableCall ==
  ASSUME TypeInv, TypeInv', TableInv, NEW t \in Threads, NEW u \in Uris, Call(t, u)
  PROVE  TableInv'
<1>1. /\ items' = items /\ text' = text /\ answers' = answers
      /\ \A r \in Threads : r # t => /\ pc'[r] = pc[r] /\ uri'[r] = uri[r] /\ clone'[r] = clone[r]
                                     /\ probe'[r] = probe[r] /\ new'[r] = new[r]
  BY DEF Call, Go, TypeInv, TypeOK
<1>2. /\ pc'[t] = "load" /\ uri'[t] = u /\ (new'[t] <=> u \notin Mapped)
  BY DEF Call, Go, TypeInv, TypeOK
<1>3. clone[t] = NULL /\ probe[t] = 0
  BY DEF Call, TypeInv, CallOK, TableInv, CloneText, Probing
<1>4. TableInv'
  <2>1. CloneOf(t)'
    BY <1>2, <1>3 DEF CloneOf, Call
  <2>2. ProbeOf(t)'
    BY <1>3 DEF ProbeOf, Passed, Call
  <2>3. FoundBy(t)'
    BY <1>1, <1>2 DEF FoundBy, Mapped, TakenBy, Taken, UriAt
  <2>4. \A s \in Slots : Taken(s)' => Taken(s)
    BY <1>1 DEF Taken
  <2> QED BY <1>1, <2>1, <2>2, <2>3, <2>4, TableGo
<1> QED BY <1>4

(* The slot is another URI's, so the sequence up to the next is.           *)
LEMMA TableNext ==
  ASSUME TypeInv, TypeInv', TableInv, NEW t \in Threads, Collide(t) \/ Lost(t)
  PROVE  TableInv'
<1>1. /\ pc[t] \in {"load", "claim"} /\ Taken(Here(t)) /\ UriAt(Here(t)) # uri[t]
      /\ items' = items /\ text' = text /\ answers' = answers
      /\ uri' = uri /\ clone' = clone /\ new' = new
      /\ \A r \in Threads : r # t => pc'[r] = pc[r] /\ probe'[r] = probe[r]
      /\ pc'[t] = "load" /\ probe'[t] = probe[t] + 1
  BY DEF Collide, Lost, NextSlot, Go, TypeInv, TypeOK
<1>2. uri[t] # NoCall
  BY <1>1 DEF TypeInv, CallOK
<1>3. CloneOf(t)' /\ FoundBy(t)'
  BY <1>1, <1>2 DEF CloneOf, FoundBy, TableInv, CloneText, OldFound, TakenBy, Taken, UriAt
<1>4. Passed(uri[t], probe[t] + 1)
  <2>1. probe[t] \in Nat /\ Passed(uri[t], probe[t])
    BY <1>2 DEF TypeInv, TypeOK, Slots, TableInv, Probing
  <2> QED BY <1>1, <2>1 DEF Passed, Here
<1>5. ProbeOf(t)'
  BY <1>1, <1>2, <1>4 DEF ProbeOf, Passed, Taken, UriAt
<1>6. \A s \in Slots : Taken(s)' => Taken(s)
  BY <1>1 DEF Taken
<1> QED BY <1>1, <1>3, <1>5, <1>6, TableGo

(* A thread that finds a free slot asks for a URI that is in no slot.      *)
LEMMA VacantNew ==
  ASSUME TypeInv, TableInv, NEW t \in Threads, uri[t] # NoCall, ~Taken(Here(t))
  PROVE  uri[t] \in Uris /\ \A s \in Slots : ~TakenBy(s, uri[t])
<1>1. PICK u \in Uris, i \in Slots : u = uri[t] /\ i = probe[t]
  BY DEF TypeInv, TypeOK
<1>2. i \in 0..NItems /\ Passed(u, i)
  BY <1>1 DEF Slots, TableInv, Probing
<1>3. ~Taken(SlotOf(u, i))
  BY <1>1 DEF Here
<1> QED BY <1>1, <1>2, <1>3, NotThere DEF TableInv

LEMMA TableVacant ==
  ASSUME TypeInv, TypeInv', TableInv, NEW t \in Threads, Vacant(t)
  PROVE  TableInv'
<1>1. /\ pc[t] = "load" /\ ~Taken(Here(t)) /\ mapVars' = mapVars
      /\ \A r \in Threads : r # t => pc'[r] = pc[r]
      /\ pc'[t] = IF clone[t] = NULL THEN "fetch" ELSE "claim"
  BY DEF Vacant, Go, TypeInv, TypeOK
<1>2. /\ items' = items /\ text' = text /\ answers' = answers
      /\ uri' = uri /\ clone' = clone /\ new' = new /\ probe' = probe
  BY <1>1 DEF mapVars
<1>3. uri[t] # NoCall
  BY <1>1 DEF TypeInv, CallOK
<1>4. CloneOf(t)'
  BY <1>1, <1>2, <1>3 DEF CloneOf, TableInv, CloneText
<1>5. FoundBy(t)'
  BY <1>1, <1>2, <1>3, VacantNew DEF FoundBy, TableInv, OldFound
<1>6. ProbeOf(t)'
  BY <1>2 DEF ProbeOf, TableInv, Probing, Passed, Taken, UriAt
<1>7. \A s \in Slots : Taken(s)' => Taken(s)
  BY <1>2 DEF Taken
<1> QED BY <1>1, <1>2, <1>4, <1>5, <1>6, <1>7, TableGo

LEMMA TableCopy ==
  ASSUME TypeInv, TypeInv', TableInv, NEW t \in Threads, Copy(t),
         \A a \in DOMAIN text : a \in DOMAIN text' /\ text'[a] = text[a]
  PROVE  TableInv'
<1>1. /\ pc[t] = "got" /\ items' = items /\ answers' = answers
      /\ uri' = uri /\ new' = new /\ probe' = probe
      /\ \A r \in Threads : r # t => pc'[r] = pc[r] /\ clone'[r] = clone[r]
      /\ pc'[t] = "claim" /\ clone'[t] = at[t]
      /\ at[t] \in DOMAIN text' /\ text'[at[t]] = uri[t]
  BY DEF Copy, Go, TypeInv, TypeOK
<1>2. uri[t] # NoCall /\ at[t] # NULL
  BY <1>1, AtFact DEF TypeInv, CallOK, NULL
<1>3. CloneOf(t)' /\ FoundBy(t)'
  BY <1>1, <1>2 DEF CloneOf, FoundBy, TableInv, OldFound
<1>4. PICK u \in Uris, i \in Nat : u = uri[t] /\ i = probe[t]
  BY <1>2 DEF TypeInv, TypeOK, Slots
<1>5. Passed(u, i)
  BY <1>2, <1>4 DEF TableInv, Probing
<1>6. Passed(u, i)'
  BY <1>1, <1>5, Kept
<1>7. ProbeOf(t)'
  BY <1>1, <1>2, <1>4, <1>6 DEF ProbeOf
<1>8. \A s \in Slots : Taken(s)' => Taken(s)
  BY <1>1 DEF Taken
<1> QED BY <1>1, <1>3, <1>7, <1>8, TableGo

(* A call returns: with the slot of its URI, or with 0.                    *)
LEMMA ReturnFact ==
  ASSUME TypeInv, NEW t \in Threads, ReturnStep(t)
  PROVE  \E u \in Uris, h \in Slots, urid \in Slots :
           /\ u = uri[t] /\ h = Here(t) /\ u # NoCall /\ pc[t] # "idle"
           /\ Return(t, urid)
           /\ urid # 0 => urid = h /\ (Claim(t) \/ TakenBy(h, u))
<1>1. uri[t] \in Uris /\ Here(t) \in Slots /\ pc[t] # "idle" /\ 0 \in Slots
  BY ReturnStepType, HereFact DEF Slots
<1>2. CASE Find(t) \/ Stolen(t)
  BY <1>1, <1>2 DEF Find, Stolen, TakenBy
<1>3. CASE Overflow(t) \/ OutOfMemory(t)
  BY <1>1, <1>3 DEF Overflow, OutOfMemory
<1>4. CASE Claim(t)
  BY <1>1, <1>4 DEF Claim
<1> QED BY <1>2, <1>3, <1>4 DEF ReturnStep

(* What a claim puts in its slot belongs there.                            *)
LEMMA ClaimFact ==
  ASSUME TypeInv, TypeInv', TableInv, NEW t \in Threads, Claim(t),
         NEW u \in Uris, NEW h \in Slots, u = uri[t], h = Here(t)
  PROVE  /\ text' = text /\ ~Taken(h) /\ \A s \in Slots : s # h => items'[s] = items[s]
         /\ WellPlaced(h)' /\ TakenBy(h, u)'
<1>1. /\ pc[t] = "claim" /\ ~Taken(h) /\ text' = text
      /\ items' = [items EXCEPT ![h] = clone[t]]
  BY DEF Claim
<1>2. clone[t] \in DOMAIN text /\ text[clone[t]] = u /\ clone[t] # NULL
  BY <1>1 DEF TableInv, CloneText
<1>3. items'[h] = clone[t] /\ \A s \in Slots : s # h => items'[s] = items[s]
  BY <1>1 DEF TypeInv, TypeOK
<1>4. PICK i \in Slots : i = probe[t] /\ h = SlotOf(u, i)
  BY DEF Here, TypeInv, TypeOK
<1>5. i \in Nat /\ Passed(u, i)
  BY <1>4 DEF TableInv, Probing, Slots
<1>6. Passed(u, i)'
  <2>1. \A s \in Slots : Taken(s) => items'[s] = items[s]
    BY <1>1, <1>3
  <2> QED BY <1>1, <1>5, <2>1, Kept
<1>7. Taken(h)' /\ UriAt(h)' = u /\ (items[h] \in DOMAIN text)'
  BY <1>1, <1>2, <1>3 DEF Taken, UriAt
<1>8. WellPlaced(h)'
  BY <1>4, <1>6, <1>7 DEF WellPlaced, SlotOf
<1> QED BY <1>1, <1>3, <1>7, <1>8 DEF TakenBy

LEMMA TableReturn ==
  ASSUME TypeInv, TypeInv', TableInv, NEW t \in Threads, ReturnStep(t)
  PROVE  /\ TableInv'
         /\ \A s \in Slots : Taken(s) => items'[s] = items[s]
<1>1. PICK u \in Uris, h \in Slots, urid \in Slots :
           /\ u = uri[t] /\ h = Here(t) /\ u # NoCall /\ pc[t] # "idle"
           /\ Return(t, urid)
           /\ urid # 0 => urid = h /\ (Claim(t) \/ TakenBy(h, u))
  BY ReturnFact
<1>2. /\ \A r \in Threads : r # t => /\ pc'[r] = pc[r] /\ uri'[r] = uri[r] /\ clone'[r] = clone[r]
                                     /\ probe'[r] = probe[r] /\ new'[r] = new[r]
      /\ uri'[t] = NoCall /\ clone'[t] = NULL /\ probe'[t] = 0 /\ pc'[t] = "idle"
      /\ answers' = answers \cup {<<u, urid>>}
  BY <1>1 DEF Return, Go, TypeInv, TypeOK
<1>3. CloneOf(t)' /\ ProbeOf(t)' /\ FoundBy(t)'
  BY <1>2, Idle
<1>4. text' = text /\ (items' = items \/ Claim(t))
  BY ReturnStepType
<1>5. /\ \A s \in Slots : Taken(s) => items'[s] = items[s]
      /\ \A s \in Slots : Taken(s)' => Taken(s) \/ WellPlaced(s)'
      /\ urid # 0 => TakenBy(urid, u)'
  <2>1. CASE Claim(t)
    BY <1>1, <2>1, ClaimFact DEF Taken
  <2>2. CASE ~Claim(t)
    <3>1. \A s \in Slots : TakenBy(s, u) => TakenBy(s, u)'
      BY <1>4, <2>2 DEF TakenBy, Taken, UriAt
    <3>2. \A s \in Slots : Taken(s)' => Taken(s)
      BY <1>4, <2>2 DEF Taken
    <3> QED BY <1>1, <1>4, <2>2, <3>1, <3>2
  <2> QED BY <2>1, <2>2
<1>6. \A p \in answers' : p \in answers \/ (p[2] # 0 => TakenBy(p[2], p[1])')
  BY <1>2, <1>5
<1>7. TableInv'
  BY <1>2, <1>3, <1>4, <1>5, <1>6, TableGo
<1> QED BY <1>5, <1>7

LEMMA TableStep == TypeInv /\ ChunkInv /\ TableInv /\ [Next]_vars => TableInv'
<1> SUFFICES ASSUME TypeInv, ChunkInv, TableInv, [Next]_vars PROVE TableInv'
  OBVIOUS
<1>1. /\ TypeInv'
      /\ \A a \in DOMAIN text : a \in DOMAIN text' /\ text'[a] = text[a]
  BY TypeStep, ChunkStep
<1>2. CASE UNCHANGED vars
  BY <1>2 DEF vars, allocVars, mapVars, TableInv, SlotText, CloneText, Placed, Probing, Answered,
              OldFound, TakenBy, Passed, Taken, UriAt
<1>3. ASSUME NEW t \in Callers, NEW u \in Uris, Call(t, u) PROVE TableInv'
  BY <1>1, <1>3, TableCall
<1>4. ASSUME NEW t \in Threads, ReturnStep(t) PROVE TableInv'
  BY <1>1, <1>4, TableReturn
<1>5. ASSUME NEW t \in Threads, Collide(t) \/ Lost(t) \/ Vacant(t) \/ Copy(t) PROVE TableInv'
  BY <1>1, <1>5, TableNext, TableVacant, TableCopy
<1>6. ASSUME NEW t \in Threads, Alloc(t) \/ Inject(t) PROVE TableInv'
  BY <1>1, <1>6, ChunkAlloc, ChunkInject, TableAlloc
<1>7. CASE WorkerInject
  <2>1. Worker \in Threads
    BY DEF Threads
  <2> QED BY <1>1, <1>7, <2>1, ChunkWorker, TableAlloc
<1> QED BY <1>2, <1>3, <1>4, <1>5, <1>6, <1>7, Steps

(* All that is claimed of the table holds in every state.                  *)
LEMMA TableAlways == Spec => [](TypeInv /\ TableInv)
  BY TypeInit, ChunkInit, TableInit, TypeStep, ChunkStep, TableStep, PTL DEF Spec

(* A URID that was given out is turned back into its URI for ever.         *)
THEOREM RoundTripAlways == Spec => []RoundTrip
<1>1. TypeInv /\ TableInv => RoundTrip
  BY DEF TableInv, Answered, TakenBy, RoundTrip, Unmap
<1> QED BY <1>1, TableAlways, PTL

(* Two answers for one URI, of whatever threads and times, are the same.   *)
THEOREM OneUridAlways == Spec => []OneUrid
<1>1. TypeInv /\ TableInv => OneUrid
  <2> SUFFICES ASSUME TypeInv, TableInv, NEW p \in answers, NEW q \in answers,
                      p[1] = q[1], p[2] # 0, q[2] # 0
               PROVE  p[2] = q[2]
    BY DEF OneUrid
  <2>1. p[1] \in Uris /\ p[2] \in Slots /\ q[2] \in Slots
    BY DEF TypeInv, TypeOK
  <2>2. TakenBy(p[2], p[1]) /\ TakenBy(q[2], p[1])
    BY DEF TableInv, Answered
  <2> QED BY <2>1, <2>2, OneSlot DEF TableInv
<1> QED BY <1>1, TableAlways, PTL

----------------------------------------------------------------------------
(* The map implements the table.                                           *)

SlotsRight == \A u \in Uris, s \in Slots : TakenBy(s, u) => u \in Mapped /\ SlotWith(u) = s
MapRight == \A u \in Mapped : u \in Uris /\ SlotWith(u) \in Slots /\ TakenBy(SlotWith(u), u)

(* Each URI in the table has the slot the mapping names.                   *)
LEMMA SlotWithFact == TypeInv /\ TableInv => SlotsRight /\ MapRight
<1> SUFFICES ASSUME TypeInv, TableInv PROVE SlotsRight /\ MapRight
  OBVIOUS
<1>1. ASSUME NEW u \in Uris, NEW s \in Slots, TakenBy(s, u)
      PROVE  u \in Mapped /\ SlotWith(u) = s
  <2>1. \E r \in Slots : Taken(r) /\ UriAt(r) = u
    BY <1>1 DEF TakenBy
  <2>2. SlotWith(u) \in Slots /\ TakenBy(SlotWith(u), u)
    BY <2>1 DEF SlotWith, TakenBy
  <2> QED BY <1>1, <2>1, <2>2, OneSlot DEF Mapped, TableInv
<1>2. ASSUME NEW u \in Mapped
      PROVE  \E s \in Slots : u \in Uris /\ TakenBy(s, u)
  BY UriAtFact DEF Mapped, TakenBy
<1> QED BY <1>1, <1>2 DEF SlotsRight, MapRight

LEMMA SlotWithNext == (TypeInv /\ TableInv => SlotsRight /\ MapRight)'
  BY SlotWithFact, PTL

TableMap == [u \in Mapped |-> SlotWith(u)]

(* A step that changes no slot leaves the table.                           *)
LEMMA SameTable ==
  ASSUME TypeInv, TableInv, TypeInv', TableInv', items' = items,
         \A a \in DOMAIN text : a \in DOMAIN text' /\ text'[a] = text[a]
  PROVE  TableMap' = TableMap
<1>1. /\ SlotsRight /\ MapRight /\ SlotsRight' /\ MapRight'
  BY SlotWithFact, SlotWithNext
<1>2. \A s \in Slots, u \in Uris : TakenBy(s, u)' <=> TakenBy(s, u)
  BY DEF TakenBy, Taken, UriAt, TableInv, SlotText
<1>3. Mapped' = Mapped
  <2>1. \A u \in Mapped : u \in Mapped'
    BY <1>1, <1>2 DEF SlotsRight, MapRight
  <2>2. \A u \in Mapped' : u \in Mapped
    BY <1>1, <1>2 DEF SlotsRight, MapRight
  <2> QED BY <2>1, <2>2
<1>4. \A u \in Mapped : SlotWith(u)' = SlotWith(u)
  BY <1>1, <1>2, <1>3 DEF SlotsRight, MapRight
<1> QED BY <1>3, <1>4 DEF TableMap

(* A claim enters its URI in the slot it takes.                            *)
LEMMA EnterTable ==
  ASSUME TypeInv, TableInv, TypeInv', TableInv', NEW t \in Threads, Claim(t),
         NEW u \in Uris, NEW h \in Slots, u = uri[t], h = Here(t)
  PROVE  /\ u \notin Mapped /\ \A v \in Mapped : SlotWith(v) # h
         /\ TableMap' = [v \in Mapped \cup {u} |-> IF v \in Mapped THEN TableMap[v] ELSE h]
<1>1. /\ SlotsRight /\ MapRight /\ SlotsRight' /\ MapRight'
  BY SlotWithFact, SlotWithNext
<1>2. /\ text' = text /\ ~Taken(h) /\ (\A s \in Slots : s # h => items'[s] = items[s])
      /\ TakenBy(h, u)'
  BY ClaimFact
<1>3. uri[t] # NoCall
  BY DEF Claim, TypeInv, CallOK
<1>4. \A s \in Slots : ~TakenBy(s, u)
  BY <1>2, <1>3, VacantNew
<1>5. u \notin Mapped /\ \A v \in Mapped : SlotWith(v) # h
  BY <1>1, <1>2, <1>4 DEF MapRight, TakenBy
<1>6. \A s \in Slots, v \in Uris : TakenBy(s, v)' <=> (TakenBy(s, v) \/ (s = h /\ v = u))
  BY <1>2 DEF TakenBy, Taken, UriAt
<1>7. Mapped' = Mapped \cup {u}
  <2>1. \A v \in Mapped \cup {u} : v \in Mapped'
    BY <1>1, <1>2, <1>6 DEF SlotsRight, MapRight
  <2>2. \A v \in Mapped' : v \in Mapped \cup {u}
    BY <1>1, <1>6 DEF SlotsRight, MapRight
  <2> QED BY <2>1, <2>2
<1>8. \A v \in Mapped \cup {u} : SlotWith(v)' = IF v \in Mapped THEN SlotWith(v) ELSE h
  BY <1>1, <1>2, <1>5, <1>6 DEF SlotsRight, MapRight
<1> QED BY <1>5, <1>7, <1>8 DEF TableMap

LEMMA TableBarInit == Init => Table!Init
<1> SUFFICES ASSUME Init PROVE Table!Init
  OBVIOUS
<1>1. Mapped = {}
  BY DEF Init, Mapped, Taken
<1>2. uri = [t \in Threads |-> NoCall] /\ new = [t \in Threads |-> FALSE] /\ answers = {}
  BY DEF Init
<1>3. [u \in Mapped |-> SlotWith(u)] = [u \in {} |-> 0]
  BY <1>1
<1> QED BY <1>2, <1>3 DEF Table!Init

(* A call that returns has found its URI, enters it, or is refused.        *)
LEMMA ReturnTable ==
  ASSUME TypeInv, TableInv, TypeInv', TableInv', NEW t \in Threads, ReturnStep(t)
  PROVE  Table!Next
<1>1. PICK u \in Uris, h \in Slots : u = uri[t] /\ h = Here(t) /\ u # NoCall
  BY ReturnFact
<1>2. text' = text /\ MapRight /\ SlotsRight
  BY ReturnStepType, SlotWithFact
<1>3. CASE Find(t) \/ Stolen(t)
  <2>1. items' = items /\ TakenBy(h, u) /\ Return(t, h)
    BY <1>1, <1>3 DEF Find, Stolen, TakenBy
  <2>2. TableMap' = TableMap /\ u \in Mapped /\ TableMap[u] = h
    BY <1>2, <2>1, SameTable DEF SlotsRight, TableMap
  <2>3. Table!Return(t, h)
    BY <2>1 DEF Return, Table!Return
  <2>4. Table!Find(t)
    BY <1>1, <2>2, <2>3 DEF Table!Find, TableMap
  <2> QED BY <2>4 DEF Table!Next
<1>4. CASE Overflow(t) \/ OutOfMemory(t)
  <2>1. items' = items /\ Return(t, 0)
    BY <1>4 DEF Overflow, OutOfMemory
  <2>2. TableMap' = TableMap
    BY <1>2, <2>1, SameTable
  <2>3. new[t]
    <3>1. CASE OutOfMemory(t)
      BY <1>1, <3>1 DEF OutOfMemory, TableInv, OldFound
    <3>2. CASE Overflow(t)
      <4>1. PICK i \in Nat : i = probe[t] /\ i + 1 = NItems
        BY SMTT(30), <3>2 DEF Overflow, TypeInv, TypeOK, Slots
      <4>2. Passed(u, i) /\ Taken(SlotOf(u, i)) /\ UriAt(SlotOf(u, i)) # u
        BY <1>1, <3>2, <4>1 DEF Overflow, TableInv, Probing, Here
      <4>3. Passed(u, NItems)
        BY <4>1, <4>2 DEF Passed
      <4>4. \A s \in Slots : ~TakenBy(s, u)
        BY <4>3, NotThere DEF TableInv
      <4> QED BY <1>1, <4>4 DEF TableInv, OldFound
    <3> QED BY <1>4, <3>1, <3>2
  <2>4. Table!Return(t, 0)
    BY <2>1 DEF Return, Table!Return
  <2>5. Table!Refuse(t)
    BY <1>1, <2>2, <2>3, <2>4 DEF Table!Refuse, TableMap
  <2> QED BY <2>5 DEF Table!Next
<1>5. CASE Claim(t)
  <2>1. /\ u \notin Mapped /\ (\A v \in Mapped : SlotWith(v) # h)
        /\ TableMap' = [v \in Mapped \cup {u} |-> IF v \in Mapped THEN TableMap[v] ELSE h]
    BY <1>1, <1>5, EnterTable
  <2>2. Table!Return(t, h)
    BY <1>1, <1>5 DEF Claim, Return, Table!Return
  <2>3. Table!Enter(t, h)
    BY <1>1, <2>1, <2>2 DEF Table!Enter, TableMap
  <2> QED BY <2>3 DEF Table!Next
<1> QED BY <1>3, <1>4, <1>5 DEF ReturnStep

(* Everything else is no step of the table.                                *)
LEMMA TableStutter ==
  ASSUME TypeInv, TableInv, TypeInv', TableInv', items' = items, uri' = uri, new' = new,
         answers' = answers, \A a \in DOMAIN text : a \in DOMAIN text' /\ text'[a] = text[a]
  PROVE  UNCHANGED Table!vars
  BY SameTable DEF Table!vars, TableMap

LEMMA TableBarStep ==
  TypeInv /\ ChunkInv /\ TableInv /\ TypeInv' /\ TableInv' /\ [Next]_vars => [Table!Next]_(Table!vars)
<1> SUFFICES ASSUME TypeInv, ChunkInv, TableInv, TypeInv', TableInv', [Next]_vars
             PROVE  [Table!Next]_(Table!vars)
  OBVIOUS
<1>1. \A a \in DOMAIN text : a \in DOMAIN text' /\ text'[a] = text[a]
  BY ChunkStep
<1>2. CASE UNCHANGED vars
  BY <1>1, <1>2, TableStutter DEF vars, mapVars
<1>3. ASSUME NEW t \in Callers, NEW u \in Uris, Call(t, u) PROVE Table!Next
  <2>1. t \in Threads /\ items' = items /\ answers' = answers /\ pc[t] = "idle"
    BY <1>3 DEF Call
  <2>2. uri[t] = NoCall /\ uri' = [uri EXCEPT ![t] = u] /\ new' = [new EXCEPT ![t] = u \notin Mapped]
    BY <1>3, <2>1 DEF Call, TypeInv, CallOK
  <2>3. TableMap' = TableMap /\ DOMAIN TableMap = Mapped
    BY <1>1, <2>1, SameTable DEF TableMap
  <2>4. Table!Call(t, u)
    BY <2>1, <2>2, <2>3 DEF Table!Call, TableMap
  <2> QED BY <2>1, <2>4 DEF Table!Next
<1>4. ASSUME NEW t \in Threads, ReturnStep(t) PROVE Table!Next
  BY <1>4, ReturnTable
<1>5. ASSUME NEW t \in Threads, Collide(t) \/ Lost(t) \/ Vacant(t) \/ Copy(t)
      PROVE  UNCHANGED Table!vars
  <2>1. items' = items /\ uri' = uri /\ new' = new /\ answers' = answers
    BY <1>5 DEF Collide, Lost, NextSlot, Vacant, Copy, mapVars
  <2> QED BY <1>1, <2>1, TableStutter
<1>6. ASSUME NEW t \in Threads, Alloc(t) \/ Inject(t) \/ WorkerInject PROVE UNCHANGED Table!vars
  <2>1. items' = items /\ uri' = uri /\ new' = new /\ answers' = answers
    BY <1>6 DEF Alloc, Inject, WorkerInject, mapVars
  <2> QED BY <1>1, <2>1, TableStutter
<1>7. Worker \in Threads
  BY DEF Threads
<1> QED BY <1>2, <1>3, <1>4, <1>5, <1>6, <1>7, Steps

(* The hash table with its races implements the table that only grows.     *)
THEOREM TableImplemented == Spec => ImplementsTable
<1>1. Spec => [](TypeInv /\ ChunkInv /\ TableInv)
  BY TypeInit, ChunkInit, TableInit, TypeStep, ChunkStep, TableStep, PTL DEF Spec
<1> QED BY <1>1, TableBarInit, TableBarStep, PTL DEF Spec, ImplementsTable, Table!Spec
=============================================================================
