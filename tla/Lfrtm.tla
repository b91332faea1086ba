------------------------------- MODULE Lfrtm -------------------------------
(***************************************************************************)
(* The lock-free allocator of src/lfrtm/lfrtm/lfrtm.h and its use by the   *)
(* host (src/bin/synthpod_bin.c).  Memory is only ever handed out: threads *)
(* move one offset through a row of equal pools.  The first pool exists    *)
(* from the start; whoever gets memory from a pool asks for the next one,  *)
(* and somebody has to inject it.  A thread that needs a pool which has    *)
(* been asked for spins until it is there.                                 *)
(*                                                                         *)
(* An address is the offset it was taken from: pool a \div PoolSize, byte  *)
(* a % PoolSize.  There is one step per access to shared memory.           *)
(***************************************************************************)
EXTENDS Integers, FiniteSets

CONSTANTS
  Dsp,        \* the realtime thread, the one _is_dsp_thread knows
  Worker,     \* the thread of bin_run, which injects for the realtime thread
  Others,     \* slaves, module workers, threads of the driver
  NumPools,   \* 512 in bin_init
  PoolSize    \* 1 MB in bin_init, a power of two

Threads == {Dsp, Worker} \cup Others

ASSUME PoolAssumption ==
  /\ NumPools \in Nat \ {0} /\ PoolSize \in Nat \ {0}
  /\ Dsp # Worker /\ Others \cap {Dsp, Worker} = {}

VARIABLES
  offset,     \* lfrtm->offset
  pools,      \* lfrtm->pools[]: "empty" is 0, "ongoing" is UINTPTR_MAX
  inject,     \* bin->inject: the realtime thread wants an injection
  pc,         \* what each thread is about to do
  at,         \* the offset it has taken
  scan        \* the pool lfrtm_inject is looking at

allocVars == <<offset, pools, inject, pc, at, scan>>

AllocPc == {"fetch", "await", "more", "signal", "inject", "null", "got"}

\* offset >> shift and offset & mask.
PoolOf(a) == a \div PoolSize
Byte(a) == a % PoolSize

\* lfrtm_new: all pools but the first are missing.
AllocInit ==
  /\ offset = 0
  /\ pools = [k \in 0..NumPools - 1 |-> IF k = 0 THEN "ready" ELSE "empty"]
  /\ inject = FALSE
  /\ at = [t \in Threads |-> 0]
  /\ scan = [t \in Threads |-> 0]

Go(t, to) == pc' = [pc EXCEPT ![t] = to]

\* Where the offset may stop growing: from there on nobody gets anything.
End == NumPools * PoolSize
Advance(a, size) == IF a + size > End THEN End ELSE a + size

\* Mutant of Straddles: a chunk may start on the last byte of a pool.
StraddlesLate(a, size) == Byte(a) + size > PoolSize + 1

\* A chunk of this size would begin in one pool and end in the next.
Straddles(a, size) == Byte(a) + size > PoolSize

----------------------------------------------------------------------------
(* lfrtm_alloc, for a chunk of the given size *)

\* atomic_fetch_add: there are no pools left ...
FetchPastEnd(t) ==
  /\ pc[t] = "fetch" /\ PoolOf(offset) >= NumPools
  /\ Go(t, "null")
  /\ UNCHANGED <<offset, pools, inject, at, scan>>

\* ... or the chunk does not fit and the loop turns ...
FetchStraddling(t, size) ==
  /\ pc[t] = "fetch" /\ PoolOf(offset) < NumPools /\ Straddles(offset, size)
  /\ offset' = Advance(offset, size)
  /\ UNCHANGED <<pools, inject, pc, at, scan>>

\* ... or this is the chunk.
FetchChunk(t, size) ==
  /\ pc[t] = "fetch" /\ PoolOf(offset) < NumPools /\ ~Straddles(offset, size)
  /\ at' = [at EXCEPT ![t] = offset]
  /\ offset' = Advance(offset, size)
  /\ Go(t, "await")
  /\ UNCHANGED <<pools, inject, scan>>

\* Mutant of Await: a pool that is ongoing is taken for missing.
AwaitNot(t) ==
  /\ pc[t] = "await"
  /\ Go(t, IF pools[PoolOf(at[t])] = "ready" THEN "more" ELSE "null")
  /\ UNCHANGED <<offset, pools, inject, at, scan>>

\* The pool is there, or nobody has asked for it; while it is ongoing the
\* thread spins, which is no step.
Await(t) ==
  /\ pc[t] = "await" /\ pools[PoolOf(at[t])] # "ongoing"
  /\ Go(t, IF pools[PoolOf(at[t])] = "ready" THEN "more" ELSE "null")
  /\ UNCHANGED <<offset, pools, inject, at, scan>>

Missing(k) == k < NumPools /\ pools[k] = "empty"

\* The load and the compare-and-swap of the next pool, then `more` in
\* _mapper_alloc_rt: the realtime thread signals, others inject themselves.
Request(t) ==
  /\ pc[t] = "more" /\ Missing(PoolOf(at[t]) + 1)
  /\ pools' = [pools EXCEPT ![PoolOf(at[t]) + 1] = "ongoing"]
  /\ Go(t, IF t = Dsp THEN "signal" ELSE "inject")
  /\ scan' = [scan EXCEPT ![t] = 0]
  /\ UNCHANGED <<offset, inject, at>>

\* The next pool is there, has been asked for, or there are no more.
NoRequest(t) ==
  /\ pc[t] = "more" /\ ~Missing(PoolOf(at[t]) + 1)
  /\ Go(t, "got")
  /\ UNCHANGED <<offset, pools, inject, at, scan>>

\* Mutant of Signal: the worker is woken without being told.
SignalBare(t) ==
  /\ pc[t] = "signal"
  /\ Go(t, "got")
  /\ UNCHANGED <<offset, pools, inject, at, scan>>

\* bin->inject is set and the worker woken.
Signal(t) ==
  /\ pc[t] = "signal"
  /\ inject' = TRUE
  /\ Go(t, "got")
  /\ UNCHANGED <<offset, pools, at, scan>>

----------------------------------------------------------------------------
(* lfrtm_inject; `back` is where its caller goes on *)

\* Mutant of TakeInject: the flag is left set.
TakeInjectKeeps ==
  /\ pc[Worker] = "idle" /\ inject
  /\ Go(Worker, "inject")
  /\ scan' = [scan EXCEPT ![Worker] = 0]
  /\ UNCHANGED <<offset, pools, inject, at>>

\* bin_run takes the request of the realtime thread.
TakeInject ==
  /\ pc[Worker] = "idle" /\ inject
  /\ inject' = FALSE
  /\ Go(Worker, "inject")
  /\ scan' = [scan EXCEPT ![Worker] = 0]
  /\ UNCHANGED <<offset, pools, at>>

\* The compare-and-swap finds a pool that was asked for.
InjectHere(t, back) ==
  /\ pc[t] = "inject" /\ scan[t] < NumPools /\ pools[scan[t]] = "ongoing"
  /\ pools' = [pools EXCEPT ![scan[t]] = "ready"]
  /\ Go(t, back)
  /\ UNCHANGED <<offset, inject, at, scan>>

\* It finds one that is there.
InjectNext(t) ==
  /\ pc[t] = "inject" /\ scan[t] < NumPools /\ pools[scan[t]] = "ready"
  /\ scan' = [scan EXCEPT ![t] = @ + 1]
  /\ UNCHANGED <<offset, pools, inject, pc, at>>

\* "double injection": nothing was asked for, the pool is freed again.
DoubleInjection(t) == pc[t] = "inject" /\ (scan[t] = NumPools \/ pools[scan[t]] = "empty")

=============================================================================
