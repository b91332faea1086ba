------------------------------- MODULE DspMaster -------------------------------
(***************************************************************************)
(* The parallel scheduler of the Synthpod engine (app/synthpod_app.c): the *)
(* realtime thread and a pool of slave threads run the modules of a patch. *)
(*                                                                         *)
(* A period of _dsp_master_process sets every module's reference count to  *)
(* its number of sources and wakes some slaves.  Each thread, the realtime *)
(* thread included, then scans app->mods: a module at 0 is claimed by a    *)
(* compare-and-swap to -1, run, and the count of each of its sinks is      *)
(* decremented.  A pass that skipped a module at a count >= 0 is repeated  *)
(* from the first one skipped; a pass that skipped none is the last.  The  *)
(* realtime thread then waits for one post of each slave it woke.          *)
(*                                                                         *)
(* A module is the rank it has in app->mods, thread 0 is the realtime      *)
(* thread (and, once the driver has stopped, the thread that calls         *)
(* sp_app_free).  Every access to shared memory is a step of its own, save *)
(* where only one thread can be at work.                                   *)
(***************************************************************************)
EXTENDS Integers, Sequences, FiniteSets

CONSTANTS
  NumMods,    \* how many modules there may be
  NumSlaves,  \* driver->num_slaves
  Edges,      \* the connections the patch may hold, as <<source, sink>>
  RampEdges   \* audio connections that may be faded out and then cut

ASSUME NumModsAssumption == NumMods \in Nat
ASSUME NumSlavesAssumption == NumSlaves \in Nat
ASSUME EdgesAssumption == Edges \subseteq (1 .. NumMods) \X (1 .. NumMods)
ASSUME RampEdgesAssumption == RampEdges \subseteq Edges

VARIABLES
  mods,        \* the modules present in app->mods
  conn,        \* the connections, in the connectables of the sink's ports
  sinks,       \* dsp_client.sinks[0 .. num_sinks-1]
  numSources,  \* dsp_client.num_sources
  refCount,    \* dsp_client.ref_count; -1 once claimed
  concurrent,  \* dsp_master.concurrent
  kill,        \* dsp_master.kill
  emergency,   \* dsp_master.emergency_exit
  xrun,        \* dsp_master.xrun_report
  masterSem,   \* dsp_master.sem
  slaveSem,    \* dsp_slave[s].sem
  num,         \* how many slaves take part in the period
  cnt,         \* loop counter of _dsp_master_post and _dsp_master_wait
  pc, cur, head, idx, \* where each thread is: step, module at hand, first
                      \* module to come back to (0 is -1), index into sinks
  plan,        \* ghost: the edges between ranks in order when the period began
  runs         \* ghost: how often each module was started in the period

graph  == <<mods, conn, sinks, numSources>>
flags  == <<kill, emergency, xrun>>
sems   == <<masterSem, slaveSem, num, cnt>>
thread == <<pc, cur, head, idx>>
ghosts == <<plan, runs>>
vars   == <<graph, refCount, concurrent, flags, sems, thread, ghosts>>

Mods    == 1 .. NumMods
Slaves  == 1 .. NumSlaves
Threads == 0 .. NumSlaves
None    == 0
PastEnd == NumMods + 1

Steps == {"idle", "clear", "add", "post", "spin", "cas", "run", "sub", "wait",
          "end", "sleep", "done", "check", "exit", "kpost", "kwait", "join",
          "freed"}

At(t, step) == pc[t] = step

(* Thread t goes on at a step, with the module at hand and the head given. *)
Goto(t, step, m, h) ==
  /\ pc' = [pc EXCEPT ![t] = step]
  /\ cur' = [cur EXCEPT ![t] = m]
  /\ head' = [head EXCEPT ![t] = h]

Step(t, from, to) == At(t, from) /\ Goto(t, to, cur[t], head[t]) /\ UNCHANGED idx

MinOf(a, b) == IF a < b THEN a ELSE b

(* The first module present whose rank is at least m. *)
FirstFrom(m) ==
  IF \E k \in mods : k >= m
    THEN CHOOSE k \in mods : k >= m /\ \A j \in mods : j >= m => k <= j
    ELSE PastEnd

(* Mutant of SourcesOf: connections against the rank order count, too. *)
SourcesOfAnyRank(m) == {n \in mods : n # m /\ <<n, m>> \in conn}

SourcesOf(m) == {n \in mods : n < m /\ <<n, m>> \in conn}

Touching(m) == {e \in conn : e[1] = m \/ e[2] = m}

ForwardEdges == {e \in conn : e[1] < e[2]}

Init ==
  /\ mods = {} /\ conn = {}
  /\ sinks = [m \in Mods |-> <<>>]
  /\ numSources = [m \in Mods |-> 0]
  /\ refCount = [m \in Mods |-> 0]
  /\ concurrent = NumSlaves + 1
  /\ kill = FALSE /\ emergency = FALSE /\ xrun = FALSE
  /\ masterSem = 0 /\ slaveSem = [s \in Slaves |-> 0]
  /\ num = 0 /\ cnt = 0
  /\ pc = [t \in Threads |-> IF t = 0 THEN "idle" ELSE "sleep"]
  /\ cur = [t \in Threads |-> None]
  /\ head = [t \in Threads |-> None]
  /\ idx = [t \in Threads |-> 0]
  /\ plan = {} /\ runs = [m \in Mods |-> 0]

-------------------------------------------------------------------------------
(* _dsp_master_reorder: all counts are zeroed, then each module in rank    *)
(* order is appended to the sinks of the lower-ranked modules that feed    *)
(* it.  The realtime thread calls it between periods, and any thread while *)
(* it runs a module.                                                       *)

(* Mutant of ReorderClear: the old sinks are kept. *)
ReorderKeepSinks(t) ==
  /\ At(t, "clear")
  /\ numSources' = [m \in Mods |-> IF m \in mods THEN 0 ELSE numSources[m]]
  /\ pc' = [pc EXCEPT ![t] = "add"]
  /\ idx' = [idx EXCEPT ![t] = FirstFrom(1)]
  /\ UNCHANGED <<mods, conn, sinks, refCount, concurrent, flags, sems, cur, head, ghosts>>

ReorderClear(t) ==
  /\ At(t, "clear")
  /\ sinks' = [m \in Mods |-> IF m \in mods THEN <<>> ELSE sinks[m]]
  /\ numSources' = [m \in Mods |-> IF m \in mods THEN 0 ELSE numSources[m]]
  /\ pc' = [pc EXCEPT ![t] = "add"]
  /\ idx' = [idx EXCEPT ![t] = FirstFrom(1)]
  /\ UNCHANGED <<mods, conn, refCount, concurrent, flags, sems, cur, head, ghosts>>

ReorderAdd(t) ==
  /\ At(t, "add")
  /\ idx[t] \in Mods
  /\ LET m == idx[t] IN
       /\ sinks' = [n \in Mods |-> IF n \in SourcesOf(m)
                                     THEN Append(sinks[n], m) ELSE sinks[n]]
       /\ numSources' = [numSources EXCEPT ![m] = @ + Cardinality(SourcesOf(m))]
       /\ idx' = [idx EXCEPT ![t] = FirstFrom(m + 1)]
  /\ UNCHANGED <<mods, conn, refCount, concurrent, flags, sems, pc, cur, head, ghosts>>

ReorderReturn(t) ==
  /\ At(t, "add")
  /\ idx[t] \notin Mods
  /\ pc' = [pc EXCEPT ![t] = IF cur[t] = None THEN "idle" ELSE "run"]
  /\ idx' = [idx EXCEPT ![t] = 0]
  /\ UNCHANGED <<graph, refCount, concurrent, flags, sems, cur, head, ghosts>>

-------------------------------------------------------------------------------
(* What the realtime thread does to the graph between two periods; each    *)
(* change ends in _dsp_master_reorder.                                     *)

BetweenPeriods ==
  /\ Step(0, "idle", "clear")
  /\ UNCHANGED <<concurrent, flags, sems, sinks, numSources, plan>>

(* JOB_TYPE_REPLY_MODULE_ADD: the module was calloc'ed by the worker. *)
ModAdd(m) ==
  /\ BetweenPeriods
  /\ m \notin mods
  /\ mods' = mods \union {m}
  /\ refCount' = [refCount EXCEPT ![m] = 0]
  /\ runs' = [runs EXCEPT ![m] = 0]
  /\ UNCHANGED conn

(* _sp_app_mod_eject: out of app->mods, then disconnected; the worker will *)
(* free it.                                                                *)
ModEject(m) ==
  /\ Step(0, "idle", "clear")
  /\ m \in mods
  /\ mods' = mods \ {m}
  /\ conn' = conn \ Touching(m)
  /\ refCount' = [refCount EXCEPT ![m] = 0]
  /\ sinks' = [sinks EXCEPT ![m] = <<>>]
  /\ numSources' = [numSources EXCEPT ![m] = 0]
  /\ runs' = [runs EXCEPT ![m] = 0]
  /\ UNCHANGED <<concurrent, flags, sems, plan>>

PortConnect(e) ==
  /\ BetweenPeriods
  /\ e \notin conn /\ e[1] \in mods /\ e[2] \in mods
  /\ conn' = conn \union {e}
  /\ UNCHANGED <<mods, refCount, runs>>

(* A connection that needs no fading, or whose fading ends in a period     *)
(* that the realtime thread runs alone.                                    *)
PortDisconnect(e) ==
  /\ BetweenPeriods
  /\ e \in conn
  /\ conn' = conn \ {e}
  /\ UNCHANGED <<mods, refCount, runs>>

-------------------------------------------------------------------------------
(* One period, sp_app_run_post. *)

(* Mutant of ParallelStart: taken whatever the concurrency is. *)
ParallelStartAlways ==
  /\ Step(0, "idle", "post")
  /\ NumSlaves > 0
  /\ refCount' = [m \in Mods |-> IF m \in mods THEN numSources[m] ELSE refCount[m]]
  /\ num' = MinOf(concurrent - 1, NumSlaves)
  /\ cnt' = 0
  /\ plan' = ForwardEdges
  /\ runs' = [m \in Mods |-> 0]
  /\ UNCHANGED <<graph, concurrent, flags, masterSem, slaveSem>>

(* Parallel processing makes sense: counts are set, a period begins. *)
ParallelStart ==
  /\ Step(0, "idle", "post")
  /\ NumSlaves > 0 /\ concurrent > 1
  /\ refCount' = [m \in Mods |-> IF m \in mods THEN numSources[m] ELSE refCount[m]]
  /\ num' = MinOf(concurrent - 1, NumSlaves)
  /\ cnt' = 0
  /\ plan' = ForwardEdges
  /\ runs' = [m \in Mods |-> 0]
  /\ UNCHANGED <<graph, concurrent, flags, masterSem, slaveSem>>

(* The realtime thread runs all modules itself, in rank order; reference   *)
(* counts are not touched.                                                 *)
SerialPeriod ==
  /\ Step(0, "idle", "end")
  /\ ~(NumSlaves > 0 /\ concurrent > 1)
  /\ UNCHANGED <<graph, refCount, concurrent, flags, sems, ghosts>>

(* _dsp_master_post, one slave at a time. *)
WakeSlave ==
  /\ At(0, "post")
  /\ slaveSem' = [slaveSem EXCEPT ![cnt + 1] = @ + 1]
  /\ IF cnt + 1 < num
       THEN cnt' = cnt + 1 /\ UNCHANGED thread
       ELSE cnt' = 0 /\ Goto(0, "spin", None, 1) /\ UNCHANGED idx
  /\ UNCHANGED <<graph, refCount, concurrent, flags, masterSem, num, ghosts>>

SlaveWake(s) ==
  /\ At(s, "sleep")
  /\ slaveSem[s] > 0
  /\ slaveSem' = [slaveSem EXCEPT ![s] = @ - 1]
  /\ Goto(s, "spin", None, 1)
  /\ UNCHANGED <<graph, refCount, concurrent, flags, masterSem, num, cnt, idx, ghosts>>

(* Out of _dsp_slave_spin: the realtime thread waits, a slave will post. *)
Leave(t) == Goto(t, IF t = 0 THEN "wait" ELSE "done", None, None)

(* The loop head of _dsp_slave_spin and the entry to _dsp_slave_fetch. *)
Spin(t) ==
  /\ At(t, "spin")
  /\ IF emergency \/ FirstFrom(head[t]) = PastEnd
       THEN Leave(t)
       ELSE Goto(t, "cas", FirstFrom(head[t]), None)
  /\ UNCHANGED <<graph, refCount, concurrent, flags, sems, idx, ghosts>>

(* On to the next module of the pass, the pass's head being h so far; at   *)
(* the end of the pass, back to its head or out.                           *)
Advance(t, h) ==
  LET m == FirstFrom(cur[t] + 1) IN
    IF m # PastEnd THEN Goto(t, "cas", m, h)
    ELSE IF h = None THEN Leave(t)
    ELSE Goto(t, "spin", None, h)

(* Mutant of Claim: the module is not marked as done. *)
ClaimUnmarked(t) ==
  /\ Step(t, "cas", "run")
  /\ refCount[cur[t]] = 0
  /\ runs' = [runs EXCEPT ![cur[t]] = @ + 1]
  /\ UNCHANGED <<graph, refCount, concurrent, flags, sems, plan>>

(* Mutant of Claim: a module with one source to come is taken for ready. *)
ClaimEarly(t) ==
  /\ Step(t, "cas", "run")
  /\ refCount[cur[t]] \in {0, 1}
  /\ refCount' = [refCount EXCEPT ![cur[t]] = -1]
  /\ runs' = [runs EXCEPT ![cur[t]] = @ + 1]
  /\ UNCHANGED <<graph, concurrent, flags, sems, plan>>

(* The compare-and-swap succeeds: the module is this thread's to run. *)
Claim(t) ==
  /\ Step(t, "cas", "run")
  /\ refCount[cur[t]] = 0
  /\ refCount' = [refCount EXCEPT ![cur[t]] = -1]
  /\ runs' = [runs EXCEPT ![cur[t]] = @ + 1]
  /\ UNCHANGED <<graph, concurrent, flags, sems, plan>>

(* It fails on a module some thread has claimed. *)
SkipClaimed(t) ==
  /\ At(t, "cas")
  /\ refCount[cur[t]] < 0
  /\ Advance(t, head[t])
  /\ UNCHANGED <<graph, refCount, concurrent, flags, sems, idx, ghosts>>

(* Mutant of SkipLater: the pass remembers the last module it skipped. *)
SkipLaterLast(t) ==
  /\ At(t, "cas")
  /\ refCount[cur[t]] >= 0
  /\ Advance(t, cur[t])
  /\ UNCHANGED <<graph, refCount, concurrent, flags, sems, idx, ghosts>>

(* It fails on a module that waits for a source, or, being the weak form,  *)
(* spuriously on one that does not: the module needs to run later.         *)
SkipLater(t) ==
  /\ At(t, "cas")
  /\ refCount[cur[t]] >= 0
  /\ Advance(t, IF head[t] = None THEN cur[t] ELSE head[t])
  /\ UNCHANGED <<graph, refCount, concurrent, flags, sems, idx, ghosts>>

(* While a module's audio inputs are multiplexed, a fade-out ends and the  *)
(* connection is cut: _update_ramp, _sp_app_port_disconnect.               *)
RampCut(t) ==
  /\ Step(t, "run", "clear")
  /\ \E e \in RampEdges \intersect conn :
       /\ e[2] = cur[t]
       /\ conn' = conn \ {e}
  /\ UNCHANGED <<mods, sinks, numSources, refCount, concurrent, flags, sems, ghosts>>

RunEnd(t) ==
  /\ At(t, "run")
  /\ Goto(t, "sub", cur[t], head[t])
  /\ idx' = [idx EXCEPT ![t] = 1]
  /\ UNCHANGED <<graph, refCount, concurrent, flags, sems, ghosts>>

(* One round of the loop that decrements the sinks' counts. *)
SubSink(t) ==
  /\ At(t, "sub")
  /\ idx[t] <= Len(sinks[cur[t]])
  /\ refCount' = [refCount EXCEPT ![sinks[cur[t]][idx[t]]] = @ - 1]
  /\ idx' = [idx EXCEPT ![t] = @ + 1]
  /\ UNCHANGED <<graph, concurrent, flags, sems, pc, cur, head, ghosts>>

SubReturn(t) ==
  /\ At(t, "sub")
  /\ idx[t] > Len(sinks[cur[t]])
  /\ idx' = [idx EXCEPT ![t] = 0]
  /\ Advance(t, head[t])
  /\ UNCHANGED <<graph, refCount, concurrent, flags, sems, ghosts>>

(* A slave reports back, then looks whether it was woken to die. *)
SlavePost(s) ==
  /\ Step(s, "done", "check")
  /\ masterSem' = masterSem + 1
  /\ UNCHANGED <<graph, refCount, concurrent, flags, slaveSem, num, cnt, ghosts>>

SlaveCheck(s) ==
  /\ Step(s, "check", IF kill THEN "exit" ELSE "sleep")
  /\ UNCHANGED <<graph, refCount, concurrent, flags, sems, ghosts>>

(* _dsp_master_wait: one post counted; at the last one the period is over. *)
WaitOne ==
  /\ At(0, "wait")
  /\ masterSem > 0
  /\ masterSem' = masterSem - 1
  /\ IF cnt + 1 < num
       THEN cnt' = cnt + 1 /\ num' = num /\ UNCHANGED thread
       ELSE cnt' = 0 /\ num' = 0 /\ Goto(0, "end", None, None) /\ UNCHANGED idx
  /\ UNCHANGED <<graph, refCount, concurrent, flags, slaveSem, ghosts>>

(* Mutant of WaitTimeout: the wait is abandoned. *)
WaitTimeoutLeaves ==
  /\ At(0, "wait")
  /\ masterSem = 0
  /\ emergency' = TRUE
  /\ cnt' = 0 /\ num' = 0
  /\ Goto(0, "end", None, None)
  /\ UNCHANGED <<graph, refCount, concurrent, kill, xrun, masterSem, slaveSem,
                 idx, ghosts>>

(* sem_timedwait gives up after a second, and the loop goes on. *)
WaitTimeout ==
  /\ At(0, "wait") \/ At(0, "kwait")
  /\ masterSem = 0
  /\ emergency' = TRUE
  /\ UNCHANGED <<graph, refCount, concurrent, kill, xrun, sems, thread, ghosts>>

(* The driver reports an xrun.  It may do so at any time; only the end of  *)
(* a period looks, so it is enough to let it happen around that end.       *)
XrunReport ==
  /\ At(0, "idle") \/ At(0, "end")
  /\ xrun' = TRUE
  /\ UNCHANGED <<graph, refCount, concurrent, kill, emergency, sems, thread, ghosts>>

(* The period is history: its ghosts are reset. *)
Forget == plan' = {} /\ runs' = [m \in Mods |-> 0]

(* The rest of sp_app_run_post: after an emergency exit or an xrun all     *)
(* cores are used again.                                                   *)
EndReset ==
  /\ Step(0, "end", "idle")
  /\ emergency \/ xrun
  /\ emergency' = FALSE /\ xrun' = FALSE
  /\ concurrent' = NumSlaves + 1
  /\ UNCHANGED <<graph, refCount, kill, sems>>
  /\ Forget

EndPlain ==
  /\ Step(0, "end", "idle")
  /\ ~emergency /\ ~xrun
  /\ UNCHANGED <<graph, refCount, concurrent, flags, sems>>
  /\ Forget

(* Once a second the parallelism of the graph is measured anew: the total  *)
(* run time over that of the longest path, rounded up, which is at most    *)
(* the number of modules, and 0 where nothing ran (0/0).                   *)
EndReweight ==
  /\ Step(0, "end", "idle")
  /\ ~emergency /\ ~xrun
  /\ concurrent' \in 0 .. Cardinality(mods)
  /\ UNCHANGED <<graph, refCount, flags, sems>>
  /\ Forget

(* app->dirty, or a module has been moved without a change of order. *)
Dirty ==
  /\ BetweenPeriods
  /\ UNCHANGED <<mods, conn, refCount, runs>>

-------------------------------------------------------------------------------
(* sp_app_free, once the driver has stopped. *)

FreeKill ==
  /\ Step(0, "idle", IF NumSlaves = 0 THEN "join" ELSE "kpost")
  /\ kill' = TRUE
  /\ cnt' = 0
  /\ UNCHANGED <<graph, refCount, concurrent, emergency, xrun, masterSem,
                 slaveSem, num, ghosts>>

FreePost ==
  /\ At(0, "kpost")
  /\ slaveSem' = [slaveSem EXCEPT ![cnt + 1] = @ + 1]
  /\ IF cnt + 1 < NumSlaves
       THEN cnt' = cnt + 1 /\ UNCHANGED thread
       ELSE cnt' = 0 /\ Step(0, "kpost", "kwait")
  /\ UNCHANGED <<graph, refCount, concurrent, flags, masterSem, num, ghosts>>

FreeWait ==
  /\ At(0, "kwait")
  /\ masterSem > 0
  /\ masterSem' = masterSem - 1
  /\ IF cnt + 1 < NumSlaves
       THEN cnt' = cnt + 1 /\ UNCHANGED thread
       ELSE cnt' = 0 /\ Step(0, "kwait", "join")
  /\ UNCHANGED <<graph, refCount, concurrent, flags, slaveSem, num, ghosts>>

FreeJoin ==
  /\ Step(0, "join", "freed")
  /\ \A s \in Slaves : At(s, "exit")
  /\ UNCHANGED <<graph, refCount, concurrent, flags, sems, ghosts>>

Freed ==
  /\ At(0, "freed")
  /\ UNCHANGED vars

-------------------------------------------------------------------------------
Patch ==
  \/ \E m \in Mods : ModAdd(m) \/ ModEject(m)
  \/ \E e \in Edges : PortConnect(e) \/ PortDisconnect(e)
  \/ Dirty

Work(t) ==
  \/ ReorderClear(t) \/ ReorderAdd(t) \/ ReorderReturn(t)
  \/ Spin(t) \/ Claim(t) \/ SkipClaimed(t) \/ SkipLater(t)
  \/ RampCut(t) \/ RunEnd(t) \/ SubSink(t) \/ SubReturn(t)

Slave(s) == SlaveWake(s) \/ SlavePost(s) \/ SlaveCheck(s)

Master ==
  \/ WakeSlave \/ WaitOne \/ EndReset \/ EndPlain \/ EndReweight
  \/ FreePost \/ FreeWait \/ FreeJoin

Next ==
  \/ Patch
  \/ ParallelStart \/ SerialPeriod \/ FreeKill
  \/ Master \/ WaitTimeout \/ XrunReport
  \/ \E t \in Threads : Work(t)
  \/ \E s \in Slaves : Slave(s)
  \/ Freed

Spec == Init /\ [][Next]_vars

(* Every thread is scheduled, a plugin's run function returns, and the     *)
(* weak compare-and-swap does not fail spuriously forever.                 *)
Fairness ==
  /\ WF_vars(Master)
  /\ \A t \in Threads : WF_vars(Work(t)) /\ SF_vars(Claim(t))
  /\ \A s \in Slaves : WF_vars(Slave(s))

FairSpec == Spec /\ Fairness

-------------------------------------------------------------------------------
(* Properties. *)

InPeriod == pc[0] \in {"post", "spin", "cas", "run", "sub", "wait"}
              \/ (pc[0] \in {"clear", "add"} /\ cur[0] # None)

(* Thread t is inside the run of module m, reordering included. *)
RunsModule(t, m) == cur[t] = m /\ pc[t] \in {"run", "clear", "add"}

Finished(m) == refCount[m] = -1 /\ \A t \in Threads : ~RunsModule(t, m)

TypeOK ==
  /\ mods \subseteq Mods /\ conn \subseteq Edges
  /\ sinks \in [Mods -> Seq(Mods)]
  /\ numSources \in [Mods -> Nat]
  /\ refCount \in [Mods -> Int]
  /\ concurrent \in Nat
  /\ kill \in BOOLEAN /\ emergency \in BOOLEAN /\ xrun \in BOOLEAN
  /\ masterSem \in Nat /\ slaveSem \in [Slaves -> Nat]
  /\ num \in 0 .. NumSlaves /\ cnt \in 0 .. NumSlaves
  /\ pc \in [Threads -> Steps]
  /\ cur \in [Threads -> Mods \union {None}]
  /\ head \in [Threads -> Mods \union {None, 1}]
  /\ idx \in [Threads -> Nat]
  /\ plan \subseteq Edges
  /\ runs \in [Mods -> Nat]

(* _dsp_slave_fetch: no interleaving of the threads starts a module twice  *)
(* in a period.                                                            *)
RunAtMostOnce == \A m \in Mods : runs[m] <= 1

(* While a module runs, every module that feeds it has ended, so its input *)
(* buffers are complete: the order of the graph holds on every schedule.   *)
SourcesFirst ==
  ~kill => \A t \in Threads, e \in plan : RunsModule(t, e[2]) => Finished(e[1])

(* A parallel period is over only when every module has run and ended,     *)
(* even when the emergency exit was taken on the way.                      *)
PeriodComplete ==
  At(0, "end") /\ (\E m \in Mods : runs[m] > 0) =>
    \A m \in mods : runs[m] = 1 /\ Finished(m)

(* Outside a period the realtime thread has the graph to itself: the       *)
(* patch, the reference counts and the semaphores are touched by no slave. *)
GraphExclusive ==
  ~kill /\ ~InPeriod =>
    /\ masterSem = 0
    /\ \A s \in Slaves : slaveSem[s] = 0 /\ pc[s] \in {"sleep", "check"}

(* assert(ref_count >= 0) of _dsp_slave_fetch. *)
AssertHolds ==
  \A t \in Threads : At(t, "sub") /\ idx[t] <= Len(sinks[cur[t]]) =>
    refCount[sinks[cur[t]][idx[t]]] >= 0
RefCountAssert == ~kill => AssertHolds

(* "needs to run later": unless the graph was changed under the period, as *)
(* long as modules wait, one of them is ready or some thread is at work    *)
(* that will make one ready.                                               *)
SomeProgress ==
  InPeriod /\ (\E m \in mods : refCount[m] >= 0) =>
    \/ \E m \in mods : refCount[m] = 0
    \/ \E t \in Threads : pc[t] \in {"run", "sub"}
NeverStuck == ForwardEdges = plan => SomeProgress

(* A period whose graph is not changed under it comes to its end. *)
PeriodEnds == (InPeriod /\ ForwardEdges = plan) ~> (~InPeriod \/ ForwardEdges # plan)

(* Whatever ends in a period, the period comes to its end. *)
EveryPeriodEnds == InPeriod ~> ~InPeriod

(* What DspCycle sees of a state. *)
Phase == IF kill THEN "stopped" ELSE IF InPeriod THEN "cycle" ELSE "idle"

Plan == IF InPeriod /\ ~kill THEN plan ELSE {}

Status == [m \in Mods |->
            IF kill \/ ~InPeriod \/ m \notin mods THEN "off"
            ELSE IF refCount[m] >= 0 THEN "todo"
            ELSE IF Finished(m) THEN "done" ELSE "running"]

(* The scheduler does what DspCycle promises. *)
Cycle == INSTANCE DspCycle WITH phase <- Phase, plan <- Plan, status <- Status

ImplementsCycle == Cycle!Spec
===============================================================================
