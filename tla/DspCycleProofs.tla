---------------------------- MODULE DspCycleProofs ----------------------------
(***************************************************************************)
(* A period is complete when it ends, and the scheduler does what DspCycle *)
(* promises.  The realtime thread leaves its pass only when it has seen    *)
(* every module claimed, whoever claimed it, and ends the period only when *)
(* every slave it woke has reported back.                                  *)
(***************************************************************************)
EXTENDS DspOrderProofs

USE NumModsAssumption, NumSlavesAssumption

(* All modules present below rank k have been claimed. *)
ClaimedBelow(k) == \A m \in mods : m < k => refCount[m] < 0

(* How far the realtime thread has come without leaving a module behind. *)
Frontier == IF head[0] = None THEN cur[0] ELSE head[0]

Passed ==
  /\ pc[0] = "spin" => head[0] # None /\ ClaimedBelow(head[0])
  /\ pc[0] \in Holding \union {"cas"} /\ cur[0] # None => ClaimedBelow(Frontier)
  /\ pc[0] = "wait" => ClaimedBelow(PastEnd)
  /\ emergency => pc[0] \in {"wait", "end"}

(* What is left of a period once it is over. *)
Settled ==
  /\ pc[0] = "end" =>
       \/ \A m \in Mods : runs[m] = 0
       \/ \A m \in mods : runs[m] = 1 /\ refCount[m] = -1
  /\ ~InPeriod /\ pc[0] # "end" => \A m \in Mods : runs[m] = 0

CycleInv == ~kill => Passed /\ Settled

-------------------------------------------------------------------------------
(* A module that has been claimed stays claimed while threads work. *)
LEMMA ClaimedStays ==
  ASSUME TypeOK, GraphInv, PeriodOrder, NEW t \in Threads, Work(t)
  PROVE  mods' = mods /\ \A m \in mods : refCount[m] < 0 => refCount'[m] < 0
<1>0. /\ mods \subseteq Mods /\ refCount \in [Mods -> Int]
      /\ cur \in [Threads -> Mods \union {None}]
  BY DEF TypeOK
<1>1. mods' = mods
  BY DEF Work, ReorderClear, ReorderAdd, ReorderReturn, Spin, Claim, SkipClaimed,
         SkipLater, RampCut, RunEnd, SubSink, SubReturn, graph
<1>2. CASE Claim(t)
  BY <1>0, <1>1, <1>2 DEF Claim
<1>3. CASE SubSink(t)
  <2>1. pc[t] = "sub" /\ idx[t] <= Len(sinks[cur[t]])
    BY <1>3 DEF SubSink, At
  <2>2. PICK k \in mods : k = sinks[cur[t]][idx[t]]
    BY <2>1, Telling
  <2>3. refCount' = [refCount EXCEPT ![k] = @ - 1]
    BY <1>3, <2>2 DEF SubSink
  <2> QED BY <1>0, <1>1, <2>2, <2>3
<1>4. CASE ~Claim(t) /\ ~SubSink(t)
  <2>1. refCount' = refCount
    BY <1>4 DEF Work, ReorderClear, ReorderAdd, ReorderReturn, Spin, SkipClaimed,
         SkipLater, RampCut, RunEnd, SubReturn
  <2> QED BY <1>1, <2>1
<1> QED BY <1>2, <1>3, <1>4

(* The realtime thread does not move, and what was claimed stays so. *)
LEMMA PassedSame ==
  ASSUME Passed, pc'[0] = pc[0], cur'[0] = cur[0], head'[0] = head[0],
         emergency' = emergency, mods' = mods,
         \A m \in mods : refCount[m] < 0 => refCount'[m] < 0
  PROVE  Passed'
<1>1. \A k : ClaimedBelow(k) => \A m \in mods : m < k => refCount'[m] < 0
  BY DEF ClaimedBelow
<1>2. Frontier' = Frontier
  BY DEF Frontier
<1> QED BY <1>1, <1>2 DEF Passed, ClaimedBelow, PastEnd

(* The realtime thread's own steps of its pass. *)
LEMMA PassedWork ==
  ASSUME TypeOK, GraphInv, PeriodOrder, Passed, Work(0), InPeriod
  PROVE  Passed'
<1>0. /\ mods \subseteq Mods /\ refCount \in [Mods -> Int] /\ 0 \in Threads
      /\ pc \in [Threads -> Steps] /\ cur \in [Threads -> Mods \union {None}]
      /\ head \in [Threads -> Mods \union {None, 1}]
      /\ \A m \in mods : m \in Nat /\ m < PastEnd
      /\ cur[0] \in Nat /\ head[0] \in Nat
  <2>1. /\ mods \subseteq Mods /\ refCount \in [Mods -> Int] /\ 0 \in Threads
        /\ pc \in [Threads -> Steps] /\ cur \in [Threads -> Mods \union {None}]
        /\ head \in [Threads -> Mods \union {None, 1}]
    BY ZeroThread DEF TypeOK
  <2>2. \A m \in Mods : m \in Nat /\ m < PastEnd
    BY DEF Mods, PastEnd
  <2>3. cur[0] \in Nat /\ head[0] \in Nat
    BY <2>1 DEF Mods, None
  <2> QED BY <2>1, <2>2, <2>3
<1>1. mods' = mods /\ \A m \in mods : refCount[m] < 0 => refCount'[m] < 0
  BY <1>0, ClaimedStays
<1>a. pc[0] \in {"spin", "cas", "run", "sub", "clear", "add"}
  BY DEF Work, ReorderClear, ReorderAdd, ReorderReturn, Spin, Claim, SkipClaimed,
         SkipLater, RampCut, RunEnd, SubSink, SubReturn, At, Step
<1>b. ~emergency
  BY <1>a DEF Passed
<1>c. emergency' = emergency
  BY DEF Work, ReorderClear, ReorderAdd, ReorderReturn, Spin, Claim, SkipClaimed,
         SkipLater, RampCut, RunEnd, SubSink, SubReturn, flags
<1>2. ASSUME pc[0] \in Holding \union {"cas"}, pc'[0] \in Holding,
             cur'[0] = cur[0], head'[0] = head[0]
      PROVE  Passed'
  <2>1. Frontier' = Frontier
    BY <1>2 DEF Frontier
  <2>2. cur[0] # None
    BY <1>0, <1>2 DEF PeriodOrder, Held, Mods, None
  <2>3. ClaimedBelow(Frontier)
    BY <1>2, <2>2 DEF Passed
  <2>4. ClaimedBelow(Frontier)'
    BY <1>1, <2>1, <2>3 DEF ClaimedBelow
  <2> QED BY <1>2, <1>b, <1>c, <2>4 DEF Passed, Holding
<1>3. CASE ReorderClear(0) \/ ReorderAdd(0) \/ ReorderReturn(0) \/ Claim(0) \/ RampCut(0)
           \/ RunEnd(0) \/ SubSink(0)
  <2>1. pc[0] \in Holding \union {"cas"} /\ cur'[0] = cur[0] /\ head'[0] = head[0]
    BY <1>0, <1>3 DEF ReorderClear, ReorderAdd, ReorderReturn, Claim, RampCut, RunEnd,
         SubSink, Step, At, Goto, Holding
  <2>2. pc[0] \in Holding => cur[0] # None
    BY <1>0 DEF PeriodOrder, Held, Mods, None
  <2>3. pc'[0] \in Holding
    BY <1>0, <1>3, <2>2 DEF ReorderClear, ReorderAdd, ReorderReturn, Claim, RampCut, RunEnd,
         SubSink, Step, At, Goto, Holding
  <2> QED BY <1>2, <2>1, <2>3
<1>4. CASE Spin(0)
  <2>1. head[0] # None /\ ClaimedBelow(head[0])
    BY <1>4 DEF Spin, At, Passed
  <2>2. /\ FirstFrom(head[0]) # PastEnd => \A j \in mods : j >= head[0] => FirstFrom(head[0]) <= j
        /\ FirstFrom(head[0]) = PastEnd => \A j \in mods : j < head[0]
        /\ FirstFrom(head[0]) # PastEnd => FirstFrom(head[0]) \in mods
    BY <1>0, FirstFromFact
  <2>3. refCount' = refCount
    BY <1>4 DEF Spin
  <2>4. CASE FirstFrom(head[0]) = PastEnd
    <3>1. pc'[0] = "wait"
      BY <1>0, <1>4, <2>4 DEF Spin, Leave, Goto
    <3>2. \A m \in mods : refCount'[m] < 0
      BY <2>1, <2>2, <2>3, <2>4 DEF ClaimedBelow
    <3> QED BY <1>1, <3>1, <3>2 DEF Passed, ClaimedBelow, Holding
  <2>5. CASE FirstFrom(head[0]) # PastEnd
    <3>1. PICK f \in mods : f = FirstFrom(head[0])
      BY <2>2, <2>5
    <3>2. pc'[0] = "cas" /\ cur'[0] = f /\ head'[0] = None
      BY <1>0, <1>4, <1>b, <2>5, <3>1 DEF Spin, Goto
    <3>3. \A m \in mods : m < f => refCount'[m] < 0
      <4>1. \A m \in mods : m < f => m < head[0]
        BY <1>0, <2>2, <2>5, <3>1
      <4> QED BY <2>1, <2>3, <4>1 DEF ClaimedBelow
    <3>4. ClaimedBelow(Frontier)'
      BY <1>1, <3>2, <3>3 DEF ClaimedBelow, Frontier
    <3> QED BY <1>b, <1>c, <3>2, <3>4 DEF Passed, Holding
  <2> QED BY <2>4, <2>5
<1>5. ASSUME NEW h \in Nat, Advance(0, h), refCount' = refCount,
             \A m \in mods : (IF h = None THEN m <= cur[0] ELSE m < h) => refCount[m] < 0
      PROVE  Passed'
  <2>1. \/ /\ pc'[0] = "cas" /\ cur'[0] \in mods /\ head'[0] = h
           /\ \A j \in mods : j > cur[0] => cur'[0] <= j
        \/ /\ pc'[0] = "spin" /\ head'[0] = h /\ h # None
        \/ /\ pc'[0] = "wait" /\ h = None
           /\ \A j \in mods : j <= cur[0]
    BY <1>0, <1>5, AdvanceGoes
  <2>2. CASE pc'[0] = "cas"
    <3>1. PICK c \in mods : c = cur'[0] /\ head'[0] = h /\ \A j \in mods : j > cur[0] => c <= j
      BY <2>1, <2>2
    <3>2. \A m \in mods : m < (IF h = None THEN c ELSE h) => refCount'[m] < 0
      BY <1>0, <1>5, <3>1
    <3>3. ClaimedBelow(Frontier)'
      BY <1>1, <3>1, <3>2 DEF ClaimedBelow, Frontier
    <3> QED BY <1>b, <1>c, <2>2, <3>3 DEF Passed, Holding
  <2>3. CASE pc'[0] = "spin"
    BY <1>1, <1>5, <1>b, <1>c, <2>1, <2>3 DEF Passed, Holding, ClaimedBelow
  <2>4. CASE pc'[0] = "wait"
    BY <1>1, <1>5, <2>1, <2>4 DEF Passed, Holding, ClaimedBelow
  <2> QED BY <2>1, <2>2, <2>3, <2>4
<1>6. CASE SkipClaimed(0) \/ SkipLater(0) \/ SubReturn(0)
  <2>1. pc[0] \in Holding \union {"cas"} /\ refCount' = refCount
    BY <1>6 DEF SkipClaimed, SkipLater, SubReturn, At, Holding
  <2>2. cur[0] \in mods /\ cur[0] # None
    BY <1>0, <2>1 DEF PeriodOrder, Held, Mods, None
  <2>3. \A m \in mods : m < (IF head[0] = None THEN cur[0] ELSE head[0]) => refCount[m] < 0
    BY <2>1, <2>2 DEF Passed, ClaimedBelow, Frontier
  <2>4. CASE SkipLater(0)
    <3> DEFINE h == IF head[0] = None THEN cur[0] ELSE head[0]
    <3>1. Advance(0, h)
      BY <2>4 DEF SkipLater
    <3>2. h \in Nat /\ h # None
      BY <1>0, <2>2
    <3>3. \A m \in mods : m < h => refCount[m] < 0
      BY <2>3
    <3> HIDE DEF h
    <3> QED BY <1>5, <2>1, <3>1, <3>2, <3>3
  <2>5. CASE SkipClaimed(0) \/ SubReturn(0)
    <3>1. Advance(0, head[0]) /\ refCount[cur[0]] < 0
      BY <1>0, <2>5 DEF SkipClaimed, SubReturn, At, PeriodOrder, Held, Holding
    <3>2. \A m \in mods :
            (IF head[0] = None THEN m <= cur[0] ELSE m < head[0]) => refCount[m] < 0
      BY <1>0, <2>3, <3>1
    <3> QED BY <1>0, <1>5, <2>1, <3>1, <3>2
  <2> QED BY <1>6, <2>4, <2>5
<1> QED BY <1>3, <1>4, <1>6 DEF Work

(* The steps that are not work of a thread. *)
LEMMA PassedStep ==
  ASSUME TypeOK, ExclusiveInv, OrderInv, CycleInv, ~kill, ~kill', [Next]_vars
  PROVE  Passed'
<1>0. /\ 0 \in Threads /\ 0 \notin Slaves /\ \A s \in Slaves : s \in Threads
      /\ pc \in [Threads -> Steps] /\ cur \in [Threads -> Mods \union {None}]
      /\ head \in [Threads -> Mods \union {None, 1}] /\ mods \subseteq Mods
      /\ refCount \in [Mods -> Int]
  BY DEF TypeOK, Threads, Slaves
<1>a. /\ Passed /\ GraphInv /\ (InPeriod => PeriodOrder)
      /\ AtHand /\ MasterInOrder /\ SlavesInOrder
  BY DEF CycleInv, OrderInv, PeriodInv, ExclusiveInv
<1>1. ASSUME NEW t \in Threads, Work(t) PROVE Passed'
  <2>1. /\ \/ /\ Working(t)
              /\ Working(t)' \/ pc'[t] = IF t = 0 THEN "wait" ELSE "done"
           \/ /\ pc[t] \in {"clear", "add"} /\ cur[t] = None
              /\ pc'[t] \in {"add", "idle"} /\ cur'[t] = None
        /\ \A u \in Threads \ {t} : pc'[u] = pc[u] /\ cur'[u] = cur[u]
    BY <1>0, <1>1, <1>a, WorkEffect DEF AtHand
  <2>2. emergency' = emergency
    BY <1>1 DEF Work, ReorderClear, ReorderAdd, ReorderReturn, Spin, Claim, SkipClaimed,
         SkipLater, RampCut, RunEnd, SubSink, SubReturn, flags
  <2>3. CASE t = 0 /\ InPeriod
    BY <1>1, <1>a, <2>3, PassedWork
  <2>4. CASE t = 0 /\ ~InPeriod
    <3>1. pc[0] \in {"clear", "add"} /\ pc'[0] \in {"add", "idle"} /\ cur'[0] = None
      BY <2>1, <2>4, InPeriodIs
    <3> QED BY <1>a, <2>2, <3>1 DEF Passed, Holding
  <2>5. CASE t # 0
    <3>1. t \in Slaves
      BY <2>5 DEF Threads, Slaves
    <3>2. InPeriod
      BY <1>a, <2>1, <3>1, ExclusiveGives DEF GraphExclusive, Working
    <3>3. mods' = mods /\ \A m \in mods : refCount[m] < 0 => refCount'[m] < 0
      BY <1>1, <1>a, <3>2, ClaimedStays
    <3>4. head'[0] = head[0]
      <4>1. CASE \E h : Advance(t, h)
        BY <1>0, <2>5, <4>1 DEF Advance, Leave, Goto
      <4>2. CASE ~ \E h : Advance(t, h)
        BY <1>0, <1>1, <2>5, <4>2 DEF Work, ReorderClear, ReorderAdd, ReorderReturn, Spin,
           Claim, SkipClaimed, SkipLater, RampCut, RunEnd, SubSink, SubReturn, Step, Goto, Leave
      <4> QED BY <4>1, <4>2
    <3> QED BY <1>0, <1>a, <2>1, <2>2, <2>5, <3>3, <3>4, PassedSame
  <2> QED BY <2>3, <2>4, <2>5
<1>2. ASSUME pc'[0] = pc[0], cur'[0] = cur[0], head'[0] = head[0], emergency' = emergency,
             mods' = mods, refCount' = refCount
      PROVE  Passed'
  BY <1>2, <1>a, PassedSame
<1>3. ASSUME NEW s \in Slaves, Slave(s) PROVE Passed'
  BY <1>0, <1>2, <1>3 DEF Slave, SlaveWake, SlavePost, SlaveCheck, Step, Goto, graph, flags
<1>4. CASE XrunReport \/ Freed \/ UNCHANGED vars
  BY <1>2, <1>4 DEF XrunReport, Freed, vars, thread, graph, flags
<1>5. CASE Patch \/ ParallelStart \/ SerialPeriod
  <2>1. pc[0] = "idle" /\ pc'[0] \in {"clear", "post", "end"} /\ cur'[0] = cur[0]
    BY <1>0, <1>5 DEF Patch, ModAdd, ModEject, PortConnect, PortDisconnect, Dirty,
       BetweenPeriods, ParallelStart, SerialPeriod, Step, At, Goto
  <2>2. cur[0] = None /\ ~emergency
    BY <1>a, <2>1 DEF MasterInOrder, Working, Passed
  <2>3. emergency' = emergency
    BY <1>5 DEF Patch, ModAdd, ModEject, PortConnect, PortDisconnect, Dirty,
       BetweenPeriods, ParallelStart, SerialPeriod, flags
  <2> QED BY <2>1, <2>2, <2>3 DEF Passed, Holding
<1>6. CASE WakeSlave
  <2>1. CASE cnt + 1 < num
    BY <1>2, <1>6, <2>1 DEF WakeSlave, thread, graph, flags
  <2>2. CASE ~(cnt + 1 < num)
    <3>1. pc[0] = "post" /\ pc'[0] = "spin" /\ head'[0] = 1 /\ emergency' = emergency
      BY <1>0, <1>6, <2>2 DEF WakeSlave, At, Goto, flags
    <3>2. ~emergency
      BY <1>a, <3>1 DEF Passed
    <3>3. mods' = mods /\ \A m \in mods : ~(m < 1)
      BY <1>0, <1>6 DEF WakeSlave, graph, Mods
    <3> QED BY <3>1, <3>2, <3>3 DEF Passed, Holding, ClaimedBelow, None
  <2> QED BY <2>1, <2>2
<1>7. CASE WaitOne
  <2>1. CASE cnt + 1 < num
    BY <1>2, <1>7, <2>1 DEF WaitOne, thread, graph, flags
  <2>2. CASE ~(cnt + 1 < num)
    <3>1. pc'[0] = "end"
      BY <1>0, <1>7, <2>2 DEF WaitOne, Goto
    <3> QED BY <3>1 DEF Passed, Holding
  <2> QED BY <2>1, <2>2
<1>8. CASE WaitTimeout
  <2>1. pc[0] = "wait"
    BY <1>8, <1>a DEF WaitTimeout, At, MasterInOrder, Working
  <2>2. UNCHANGED <<mods, refCount, pc>>
    BY <1>8 DEF WaitTimeout, thread, graph
  <2> QED BY <1>a, <2>1, <2>2 DEF Passed, Holding, ClaimedBelow, PastEnd
<1>9. CASE EndReset \/ EndPlain \/ EndReweight
  <2>1. pc'[0] = "idle" /\ ~emergency'
    BY <1>0, <1>9 DEF EndReset, EndPlain, EndReweight, Step, At, Goto, flags
  <2> QED BY <2>1 DEF Passed, Holding
<1>10. ~FreePost /\ ~FreeWait /\ ~FreeJoin /\ ~FreeKill
  BY <1>0, <1>a DEF FreePost, FreeWait, FreeJoin, FreeKill, At, Step, MasterInOrder, Working
<1> QED BY <1>1, <1>3, <1>4, <1>5, <1>6, <1>7, <1>8, <1>9, <1>10 DEF Next, Master

(* What a period leaves behind. *)
LEMMA SettledStep ==
  ASSUME TypeOK, ExclusiveInv, OrderInv, CycleInv, ~kill, ~kill', [Next]_vars
  PROVE  Settled'
<1>0. /\ 0 \in Threads /\ 0 \notin Slaves /\ \A s \in Slaves : s \in Threads
      /\ pc \in [Threads -> Steps] /\ cur \in [Threads -> Mods \union {None}]
      /\ mods \subseteq Mods /\ refCount \in [Mods -> Int] /\ runs \in [Mods -> Nat]
  BY DEF TypeOK, Threads, Slaves
<1>a. /\ Passed /\ Settled /\ (InPeriod => PeriodOrder)
      /\ AtHand /\ MasterInOrder /\ SlavesInOrder
  BY DEF CycleInv, OrderInv, PeriodInv, ExclusiveInv
<1>1. ASSUME \A m \in Mods : runs'[m] = 0 PROVE Settled'
  BY <1>1 DEF Settled
<1>2. ASSUME InPeriod' PROVE Settled'
  BY <1>2 DEF Settled, InPeriod
<1>3. ASSUME NEW t \in Threads, Work(t) PROVE Settled'
  <2>1. /\ \/ /\ Working(t)
              /\ Working(t)' \/ pc'[t] = IF t = 0 THEN "wait" ELSE "done"
           \/ /\ pc[t] \in {"clear", "add"} /\ cur[t] = None
              /\ pc'[t] \in {"add", "idle"} /\ cur'[t] = None
        /\ \A u \in Threads \ {t} : pc'[u] = pc[u] /\ cur'[u] = cur[u]
    BY <1>0, <1>3, <1>a, WorkEffect DEF AtHand
  <2>2. CASE t = 0 /\ ~InPeriod
    <3>1. pc[0] \in {"clear", "add"}
      BY <2>1, <2>2, InPeriodIs
    <3>2. runs' = runs
      BY <1>3, <2>2, <3>1 DEF Work, ReorderClear, ReorderAdd, ReorderReturn, Spin, Claim,
           SkipClaimed, SkipLater, RampCut, RunEnd, SubSink, SubReturn, Step, At, ghosts
    <3> QED BY <1>1, <1>a, <2>2, <3>1, <3>2 DEF Settled
  <2>3. CASE t = 0 /\ InPeriod
    <3>1. Working(0)
      BY <1>3, <2>1, <2>3 DEF InPeriod, Working
    <3> QED BY <1>2, <2>1, <2>3, <3>1, InPeriodIsNext DEF Working
  <2>4. CASE t # 0
    <3>1. t \in Slaves
      BY <2>4 DEF Threads, Slaves
    <3>2. InPeriod
      BY <1>a, <2>1, <3>1, ExclusiveGives DEF GraphExclusive, Working
    <3>3. InPeriod'
      BY <1>0, <2>1, <2>4, <3>2 DEF InPeriod
    <3> QED BY <1>2, <3>3
  <2> QED BY <2>2, <2>3, <2>4
<1>4. ASSUME pc'[0] = pc[0], cur'[0] = cur[0], mods' = mods, refCount' = refCount,
             runs' = runs
      PROVE  Settled'
  <2>1. InPeriod' <=> InPeriod
    BY <1>4 DEF InPeriod
  <2> QED BY <1>4, <1>a, <2>1 DEF Settled
<1>5. ASSUME NEW s \in Slaves, Slave(s) PROVE Settled'
  BY <1>0, <1>4, <1>5 DEF Slave, SlaveWake, SlavePost, SlaveCheck, Step, Goto, graph, ghosts
<1>6. CASE XrunReport \/ WaitTimeout \/ Freed \/ UNCHANGED vars
  BY <1>4, <1>6 DEF XrunReport, WaitTimeout, Freed, vars, thread, graph, ghosts
<1>7. CASE Patch \/ SerialPeriod
  <2>1. pc[0] = "idle"
    BY <1>7 DEF Patch, ModAdd, ModEject, PortConnect, PortDisconnect, Dirty,
       BetweenPeriods, SerialPeriod, Step, At
  <2>2. \A m \in Mods : runs[m] = 0
    BY <1>a, <2>1 DEF Settled, InPeriod
  <2>3. \A m \in Mods : runs'[m] = 0
    BY <1>0, <1>7, <2>2 DEF Patch, ModAdd, ModEject, PortConnect, PortDisconnect, Dirty,
       SerialPeriod, ghosts
  <2> QED BY <1>1, <2>3
<1>8. CASE ParallelStart \/ EndReset \/ EndPlain \/ EndReweight
  BY <1>1, <1>8 DEF ParallelStart, EndReset, EndPlain, EndReweight, Forget
<1>9. CASE WakeSlave
  <2>1. pc[0] = "post" /\ pc'[0] \in {"post", "spin"}
    BY <1>0, <1>9 DEF WakeSlave, At, Goto, thread
  <2> QED BY <1>2, <2>1 DEF InPeriod
<1>10. CASE WaitOne
  <2>1. CASE cnt + 1 < num
    BY <1>4, <1>10, <2>1 DEF WaitOne, thread, graph, ghosts
  <2>2. CASE ~(cnt + 1 < num)
    <3>1. /\ pc[0] = "wait" /\ pc'[0] = "end"
          /\ UNCHANGED <<mods, refCount, runs>>
      BY <1>0, <1>10, <2>2 DEF WaitOne, At, Goto, graph, ghosts
    <3>2. PeriodOrder /\ \A m \in mods : refCount[m] < 0
      <4>1. \A m \in mods : m < PastEnd
        BY <1>0 DEF Mods, PastEnd
      <4> QED BY <1>a, <3>1, <4>1 DEF InPeriod, Passed, ClaimedBelow
    <3>3. \A m \in mods : runs[m] = 1 /\ refCount[m] = -1
      BY <1>0, <3>2 DEF PeriodOrder, Counted, Started
    <3>4. ~InPeriod' \/ pc'[0] = "end"
      BY <3>1
    <3> QED BY <3>1, <3>3 DEF Settled
  <2> QED BY <2>1, <2>2
<1>11. ~FreePost /\ ~FreeWait /\ ~FreeJoin /\ ~FreeKill
  BY <1>0, <1>a DEF FreePost, FreeWait, FreeJoin, FreeKill, At, Step, MasterInOrder, Working
<1> QED BY <1>3, <1>5, <1>6, <1>7, <1>8, <1>9, <1>10, <1>11 DEF Next, Master

-------------------------------------------------------------------------------
LEMMA CycleInvariant == Spec /\ []ReordersInTurn => []CycleInv
<1>1. Init => CycleInv
  <2> SUFFICES ASSUME Init PROVE Passed /\ Settled
    BY DEF CycleInv
  <2>1. pc[0] = "idle" /\ ~emergency /\ \A m \in Mods : runs[m] = 0
    BY ZeroThread DEF Init
  <2> QED BY <2>1 DEF Passed, Settled, Holding
<1>2. TypeOK /\ ExclusiveInv /\ OrderInv /\ CycleInv /\ [Next]_vars => CycleInv'
  <2> SUFFICES ASSUME TypeOK, ExclusiveInv, OrderInv, CycleInv, [Next]_vars, ~kill'
               PROVE  Passed' /\ Settled'
    BY DEF CycleInv
  <2>1. ~kill
    BY KillStays
  <2> QED BY <2>1, PassedStep, SettledStep
<1> QED BY <1>1, <1>2, TypeCorrect, ExclusiveInvariant, OrderInvariant, PTL DEF Spec

(* A parallel period is over only when every module present has run once   *)
(* and its run has ended, whoever ran it, and even if the second the       *)
(* realtime thread waits for its slaves passed on the way.                 *)
THEOREM PeriodsComplete == Spec /\ []ReordersInTurn => []PeriodComplete
<1>1. TypeOK /\ ExclusiveInv /\ KillIsLast /\ CycleInv => PeriodComplete
  <2> SUFFICES ASSUME TypeOK, ExclusiveInv, KillIsLast, CycleInv, pc[0] = "end",
                      NEW k \in Mods, runs[k] > 0
               PROVE  \A m \in mods : runs[m] = 1 /\ Finished(m)
    BY DEF PeriodComplete, At
  <2>1. ~kill /\ ~InPeriod
    BY DEF KillIsLast, InPeriod
  <2>2. \A m \in mods : runs[m] = 1 /\ refCount[m] = -1
    BY <2>1 DEF CycleInv, Settled
  <2>3. \A t \in Threads : pc[t] \in {"sleep", "check", "end"}
    BY <2>1, ExclusiveGives DEF GraphExclusive, Threads, Slaves
  <2> QED BY <2>2, <2>3 DEF Finished, RunsModule
<1> QED BY <1>1, TypeCorrect, ExclusiveInvariant, KillInvariant, CycleInvariant, PTL

-------------------------------------------------------------------------------
(* The refinement.  First DspCycle's actions, said of what it sees. *)
LEMMA CycleStutter == UNCHANGED <<Phase, Plan, Status>> => UNCHANGED Cycle!vars
BY DEF Cycle!vars

LEMMA CycleInit ==
  Phase = "idle" /\ Plan = {} /\ Status = [m \in Mods |-> "off"] => Cycle!Init
BY DEF Cycle!Init, Cycle!Mods, Mods, Phase, Plan, Status

LEMMA CycleStart ==
  ASSUME Phase = "idle", Phase' = "cycle",
         Status' \in [Mods -> {"off", "todo"}],
         Plan' \subseteq {e \in Edges : e[1] < e[2]},
         \A e \in Plan' : Status'[e[1]] = "todo" /\ Status'[e[2]] = "todo"
  PROVE  Cycle!Next
BY DEF Cycle!Next, Cycle!Start, Cycle!Forward, Cycle!Mods, Mods, Phase, Plan, Status

LEMMA CycleBegin ==
  ASSUME Phase = "cycle", Phase' = "cycle", Plan' = Plan, NEW m \in Mods,
         Status[m] = "todo", \A e \in Plan : e[2] = m => Status[e[1]] = "done",
         Status' = [Status EXCEPT ![m] = "running"]
  PROVE  Cycle!Next
BY DEF Cycle!Next, Cycle!Begin, Cycle!Mods, Mods, Phase, Plan, Status

LEMMA CycleEnd ==
  ASSUME Phase = "cycle", Phase' = "cycle", Plan' = Plan, NEW m \in Mods,
         Status[m] = "running", Status' = [Status EXCEPT ![m] = "done"]
  PROVE  Cycle!Next
BY DEF Cycle!Next, Cycle!End, Cycle!Mods, Mods, Phase, Plan, Status

LEMMA CycleFinish ==
  ASSUME Phase = "cycle", Phase' = "idle", Plan' = {},
         \A m \in Mods : Status[m] \in {"off", "done"},
         Status' = [m \in Mods |-> "off"]
  PROVE  Cycle!Next
BY DEF Cycle!Next, Cycle!Finish, Cycle!Mods, Mods, Phase, Plan, Status

LEMMA CycleStop ==
  ASSUME Phase = "idle", Phase' = "stopped", Plan' = Plan, Status' = Status
  PROVE  Cycle!Next
BY DEF Cycle!Next, Cycle!Stop, Phase, Plan, Status

(* In a period a module that has been claimed runs or is done. *)
LEMMA StatusIs ==
  ASSUME TypeOK, ~kill, InPeriod, PeriodOrder
  PROVE  \A m \in Mods : Status[m] =
           IF m \notin mods THEN "off"
           ELSE IF refCount[m] >= 0 THEN "todo"
           ELSE IF \E t \in Threads : RunsModule(t, m) THEN "running" ELSE "done"
<1>1. \A m \in mods : refCount[m] >= 0 \/ refCount[m] = -1
  BY DEF TypeOK, PeriodOrder, Counted
<1> QED BY <1>1 DEF Status, Finished

LEMMA StatusIsNext ==
  ASSUME TypeOK', ~kill', InPeriod', PeriodOrder'
  PROVE  \A m \in Mods : Status'[m] =
           IF m \notin mods' THEN "off"
           ELSE IF refCount'[m] >= 0 THEN "todo"
           ELSE IF \E t \in Threads : RunsModule(t, m)' THEN "running" ELSE "done"
<1>1. \A m \in mods' : refCount'[m] >= 0 \/ refCount'[m] = -1
  BY DEF TypeOK, PeriodOrder, Counted
<1> QED BY <1>1 DEF Status, Finished

LEMMA StatusType == Status = [m \in Mods |-> Status[m]] /\ Status' = [m \in Mods |-> Status'[m]]
BY DEF Status

LEMMA StatusOff == kill \/ ~InPeriod => Status = [m \in Mods |-> "off"]
BY DEF Status

LEMMA StatusOffNext == kill' \/ ~InPeriod' => Status' = [m \in Mods |-> "off"]
BY DEF Status

(* Steps of a period of which DspCycle sees nothing. *)
LEMMA PeriodStutter ==
  ASSUME TypeOK, TypeOK', ~kill, ~kill', InPeriod, InPeriod', PeriodOrder, PeriodOrder',
         mods' = mods, plan' = plan,
         \A m \in mods : refCount'[m] >= 0 <=> refCount[m] >= 0,
         \A t \in Threads, m \in Mods : RunsModule(t, m)' <=> RunsModule(t, m)
  PROVE  UNCHANGED Cycle!vars
<1>1. \A m \in Mods : Status'[m] = Status[m]
  BY StatusIs, StatusIsNext
<1>2. Status' = Status
  BY <1>1, StatusType
<1>3. Phase' = Phase /\ Plan' = Plan
  BY DEF Phase, Plan
<1> QED BY <1>2, <1>3, CycleStutter

(* A claim begins a module, the return of its run function ends it. *)
LEMMA ClaimBegins ==
  ASSUME TypeOK, TypeOK', ~kill, ~kill', InPeriod, InPeriod', PeriodOrder, PeriodOrder',
         NEW t \in Threads, Claim(t)
  PROVE  Cycle!Next
<1>0. /\ mods \subseteq Mods /\ refCount \in [Mods -> Int] /\ pc \in [Threads -> Steps]
      /\ cur \in [Threads -> Mods \union {None}]
  BY DEF TypeOK
<1>1. PICK c \in mods : c = cur[t]
  BY DEF PeriodOrder, Held, Claim, Step, At
<1>2. /\ pc[t] = "cas" /\ pc'[t] = "run" /\ cur'[t] = c
      /\ \A u \in Threads \ {t} : pc'[u] = pc[u] /\ cur'[u] = cur[u]
      /\ UNCHANGED <<mods, plan>> /\ refCount[c] = 0 /\ refCount'[c] = -1
      /\ \A m \in Mods \ {c} : refCount'[m] = refCount[m]
  BY <1>0, <1>1 DEF Claim, Step, At, Goto, graph
<1>3. \A u \in Threads, m \in Mods : RunsModule(u, m)' <=>
                                     (RunsModule(u, m) \/ (u = t /\ m = c))
  BY <1>2 DEF RunsModule
<1>4. Status[c] = "todo"
  BY <1>0, <1>2, StatusIs
<1>5. ASSUME NEW e \in plan, e[2] = c PROVE Status[e[1]] = "done"
  <2>1. e[1] \in mods /\ e = <<e[1], c>>
    BY <1>5, EdgesAssumption DEF PeriodOrder, Planned, TypeOK
  <2>2. Owers(c) = {}
    <3>1. Cardinality(Owers(c)) <= 0
      BY <1>2 DEF PeriodOrder, Counted
    <3>2. Cardinality(Owers(c)) = 0 /\ IsFiniteSet(Owers(c))
      BY <1>0, <3>1, OwersFinite
    <3> QED BY <3>2, FS_EmptySet
  <2>3. ~(refCount[e[1]] >= 0) /\ ~ \E u \in Threads : RunsModule(u, e[1])
    BY <2>1, <2>2 DEF Owers, Owes
  <2> QED BY <1>0, <2>1, <2>3, StatusIs
<1>6. Status' = [Status EXCEPT ![c] = "running"]
  <2>1. Status'[c] = "running"
    BY <1>0, <1>2, <1>3, StatusIsNext
  <2>2. \A m \in Mods \ {c} : Status'[m] = Status[m]
    BY <1>2, <1>3, StatusIs, StatusIsNext
  <2> QED BY <1>0, <2>1, <2>2, StatusType
<1>7. Phase = "cycle" /\ Phase' = "cycle" /\ Plan' = Plan /\ Plan = plan
  BY <1>2 DEF Phase, Plan
<1> QED BY <1>0, <1>4, <1>5, <1>6, <1>7, CycleBegin

LEMMA RunEndEnds ==
  ASSUME TypeOK, TypeOK', ~kill, ~kill', InPeriod, InPeriod', PeriodOrder, PeriodOrder',
         NEW t \in Threads, RunEnd(t)
  PROVE  Cycle!Next
<1>0. /\ mods \subseteq Mods /\ refCount \in [Mods -> Int] /\ pc \in [Threads -> Steps]
      /\ cur \in [Threads -> Mods \union {None}]
  BY DEF TypeOK
<1>1. PICK c \in mods : c = cur[t] /\ refCount[c] < 0
  BY DEF PeriodOrder, Held, RunEnd, At, Holding
<1>2. /\ pc[t] = "run" /\ pc'[t] = "sub" /\ cur'[t] = c
      /\ \A u \in Threads \ {t} : pc'[u] = pc[u] /\ cur'[u] = cur[u]
      /\ UNCHANGED <<mods, plan, refCount>>
  BY <1>0, <1>1 DEF RunEnd, At, Goto, graph, ghosts
<1>3. \A u \in Threads \ {t} : ~RunsModule(u, c)
  BY <1>1, <1>2 DEF PeriodOrder, Held, Holding, RunsModule
<1>4. \A u \in Threads, m \in Mods : RunsModule(u, m)' <=> (RunsModule(u, m) /\ m # c)
  BY <1>1, <1>2, <1>3 DEF RunsModule
<1>5. RunsModule(t, c)
  BY <1>1, <1>2 DEF RunsModule
<1>6. Status[c] = "running" /\ Status'[c] = "done"
  BY <1>0, <1>1, <1>2, <1>4, <1>5, StatusIs, StatusIsNext
<1>7. \A m \in Mods \ {c} : Status'[m] = Status[m]
  BY <1>2, <1>4, StatusIs, StatusIsNext
<1>8. Status' = [Status EXCEPT ![c] = "done"]
  BY <1>0, <1>6, <1>7, StatusType
<1>9. Phase = "cycle" /\ Phase' = "cycle" /\ Plan' = Plan
  BY <1>2 DEF Phase, Plan
<1> QED BY <1>0, <1>6, <1>8, <1>9, CycleEnd

(* All else that a thread does in a period does not show. *)
LEMMA WorkStutters ==
  ASSUME TypeOK, TypeOK', ~kill, ~kill', InPeriod, InPeriod', GraphInv,
         PeriodOrder, PeriodOrder', NEW t \in Threads, Work(t), ~Claim(t), ~RunEnd(t)
  PROVE  UNCHANGED Cycle!vars
<1>0. /\ mods \subseteq Mods /\ refCount \in [Mods -> Int] /\ pc \in [Threads -> Steps]
      /\ cur \in [Threads -> Mods \union {None}]
  BY DEF TypeOK
<1>1. mods' = mods /\ plan' = plan
  BY DEF Work, ReorderClear, ReorderAdd, ReorderReturn, Spin, SkipClaimed,
         SkipLater, RampCut, SubSink, SubReturn, graph, ghosts
<1>2. \A m \in mods : refCount'[m] >= 0 <=> refCount[m] >= 0
  <2>1. CASE SubSink(t)
    <3>1. pc[t] = "sub" /\ idx[t] <= Len(sinks[cur[t]])
      BY <2>1 DEF SubSink, At
    <3>2. PICK k \in mods : k = sinks[cur[t]][idx[t]] /\ refCount[k] >= 1
      BY <3>1, Telling
    <3>3. refCount' = [refCount EXCEPT ![k] = @ - 1]
      BY <2>1, <3>2 DEF SubSink
    <3> QED BY <1>0, <3>2, <3>3
  <2>2. CASE ~SubSink(t)
    BY <2>2 DEF Work, ReorderClear, ReorderAdd, ReorderReturn, Spin, SkipClaimed,
         SkipLater, RampCut, SubReturn
  <2> QED BY <2>1, <2>2
<1>3. \A u \in Threads, m \in Mods : RunsModule(u, m)' <=> RunsModule(u, m)
  <2>1. ASSUME \A u \in Threads \ {t} : pc'[u] = pc[u] /\ cur'[u] = cur[u],
               \/ /\ pc[t] \in {"run", "clear", "add"} /\ pc'[t] \in {"run", "clear", "add"}
                  /\ cur'[t] = cur[t]
               \/ /\ pc[t] \notin {"run", "clear", "add"}
                  /\ pc'[t] \notin {"run", "clear", "add"}
        PROVE  \A u \in Threads, m \in Mods : RunsModule(u, m)' <=> RunsModule(u, m)
    BY <2>1 DEF RunsModule
  <2>2. CASE ReorderClear(t) \/ ReorderAdd(t) \/ ReorderReturn(t) \/ RampCut(t)
    <3>1. pc[t] \in {"clear", "add"} => cur[t] # None
      BY <1>0 DEF PeriodOrder, Held, Holding, Mods, None
    <3> QED BY <1>0, <2>1, <2>2, <3>1 DEF ReorderClear, ReorderAdd, ReorderReturn, RampCut,
                                         Step, At, Goto
  <2>3. CASE Spin(t)
    BY <1>0, <2>1, <2>3 DEF Spin, At, Leave, Goto
  <2>4. CASE SkipClaimed(t) \/ SkipLater(t) \/ SubReturn(t)
    <3>1. PICK h : Advance(t, h)
      BY <2>4 DEF SkipClaimed, SkipLater, SubReturn
    <3>2. pc[t] \in {"cas", "sub"}
      BY <2>4 DEF SkipClaimed, SkipLater, SubReturn, At
    <3> QED BY <2>1, <3>1, <3>2, AdvanceGoes
  <2>5. CASE SubSink(t)
    BY <2>5 DEF SubSink, RunsModule
  <2> QED BY <2>2, <2>3, <2>4, <2>5 DEF Work
<1> QED BY <1>1, <1>2, <1>3, PeriodStutter

(* Outside a period DspCycle sees when a period starts, and the shutdown.  *)
LEMMA StartStarts ==
  ASSUME TypeOK, TypeOK', ~kill, ~kill', MasterInOrder, PeriodInv', ParallelStart
  PROVE  Cycle!Next
<1>0. /\ mods \subseteq Mods /\ refCount \in [Mods -> Int] /\ pc \in [Threads -> Steps]
      /\ numSources \in [Mods -> Nat] /\ 0 \in Threads /\ plan' \subseteq Edges
  BY ZeroThread DEF TypeOK
<1>1. pc[0] = "idle" /\ pc'[0] = "post" /\ mods' = mods
  BY <1>0 DEF ParallelStart, Step, At, Goto, graph
<1>2. Phase = "idle" /\ Phase' = "cycle" /\ InPeriod' /\ Plan' = plan'
  BY <1>1 DEF Phase, Plan, InPeriod
<1>3. PeriodOrder'
  BY <1>2 DEF PeriodInv
<1>4. \A m \in mods : refCount'[m] >= 0
  BY <1>0 DEF ParallelStart
<1>5. \A m \in Mods : Status'[m] = IF m \in mods THEN "todo" ELSE "off"
  BY <1>1, <1>2, <1>4 DEF Status
<1>6. Status' \in [Mods -> {"off", "todo"}]
  BY <1>5, StatusType
<1>7. \A e \in Plan' : e[1] \in mods /\ e[2] \in mods /\ e[1] < e[2] /\ e \in Edges
  BY <1>0, <1>1, <1>2, <1>3 DEF PeriodOrder, Planned
<1> QED BY <1>0, <1>2, <1>5, <1>6, <1>7, CycleStart

LEMMA ExclusiveGivesNext == TypeOK' /\ ExclusiveInv' => GraphExclusive'
BY ExclusiveGives, PTL

LEMMA FinishFinishes ==
  ASSUME TypeOK, TypeOK', ~kill, ~kill', ExclusiveInv', Passed, InPeriod, PeriodOrder,
         WaitOne, ~(cnt + 1 < num)
  PROVE  Cycle!Next
<1>0. /\ mods \subseteq Mods /\ refCount \in [Mods -> Int] /\ pc \in [Threads -> Steps]
      /\ 0 \in Threads /\ \A m \in mods : m < PastEnd
  <2>1. \A m \in Mods : m < PastEnd
    BY DEF Mods, PastEnd
  <2> QED BY <2>1, ZeroThread DEF TypeOK
<1>1. /\ pc[0] = "wait" /\ pc'[0] = "end" /\ \A t \in Threads \ {0} : pc'[t] = pc[t]
  BY <1>0 DEF WaitOne, At, Goto
<1>2. \A t \in Threads : pc[t] \in {"sleep", "check", "wait"}
  <2>1. \A s \in Slaves : pc'[s] \in {"sleep", "check"}
    BY <1>1, ExclusiveGivesNext DEF GraphExclusive, InPeriod
  <2> QED BY <1>1, <2>1 DEF Threads, Slaves
<1>3. \A m \in mods : refCount[m] < 0
  BY <1>0, <1>1 DEF Passed, ClaimedBelow
<1>4. \A m \in Mods : Status[m] \in {"off", "done"}
  BY <1>0, <1>2, <1>3, StatusIs DEF RunsModule
<1>5. Phase = "cycle" /\ Phase' = "idle" /\ Plan' = {}
  BY <1>1 DEF Phase, Plan, InPeriod
<1>6. Status' = [m \in Mods |-> "off"]
  BY <1>1, StatusOffNext DEF InPeriod
<1> QED BY <1>4, <1>5, <1>6, CycleFinish

(* Steps outside of periods. *)
LEMMA OutsideStutters ==
  ASSUME \/ kill /\ kill'
         \/ ~kill /\ ~kill' /\ ~InPeriod /\ ~InPeriod'
  PROVE  UNCHANGED Cycle!vars
<1>1. Phase' = Phase /\ Plan' = Plan
  BY DEF Phase, Plan
<1>2. Status' = Status
  BY StatusOff, StatusOffNext
<1> QED BY <1>1, <1>2, CycleStutter

LEMMA KillStops ==
  ASSUME TypeOK, ~kill, kill', [Next]_vars
  PROVE  Cycle!Next
<1>1. FreeKill
  BY DEF Next, Patch, ModAdd, ModEject, PortConnect, PortDisconnect, Dirty,
    BetweenPeriods, ParallelStart, SerialPeriod, Master, WakeSlave, WaitOne,
    EndReset, EndPlain, EndReweight, FreePost, FreeWait, FreeJoin, WaitTimeout,
    XrunReport, Work, ReorderClear, ReorderAdd, ReorderReturn, Spin, Claim,
    SkipClaimed, SkipLater, RampCut, RunEnd, SubSink, SubReturn, Slave, SlaveWake,
    SlavePost, SlaveCheck, Freed, vars, flags
<1>2. ~InPeriod
  BY <1>1 DEF FreeKill, Step, At, InPeriod
<1>3. Phase = "idle" /\ Phase' = "stopped" /\ Plan' = Plan
  BY <1>2 DEF Phase, Plan
<1>4. Status' = Status
  BY <1>2, StatusOff, StatusOffNext
<1> QED BY <1>3, <1>4, CycleStop

LEMMA CycleStep ==
  ASSUME TypeOK, TypeOK', ExclusiveInv, ExclusiveInv', KillIsLast', OrderInv, OrderInv',
         CycleInv, [Next]_vars
  PROVE  [Cycle!Next]_(Cycle!vars)
<1>1. CASE kill
  <2>1. kill'
    BY <1>1, KillStays
  <2>2. UNCHANGED Cycle!vars
    BY <1>1, <2>1, OutsideStutters
  <2> QED BY <2>2
<1>2. CASE ~kill /\ kill'
  BY <1>2, KillStops
<1>3. CASE ~kill /\ ~kill'
  <2>0. /\ 0 \in Threads /\ 0 \notin Slaves /\ \A s \in Slaves : s \in Threads
        /\ pc \in [Threads -> Steps] /\ cur \in [Threads -> Mods \union {None}]
    BY DEF TypeOK, Threads, Slaves
  <2>a. /\ Passed /\ GraphInv /\ (InPeriod => PeriodOrder) /\ PeriodInv'
        /\ (InPeriod' => PeriodOrder') /\ AtHand /\ MasterInOrder
    BY <1>3 DEF CycleInv, OrderInv, PeriodInv, ExclusiveInv
  <2>1. CASE ~InPeriod /\ ~InPeriod'
    BY <1>3, <2>1, OutsideStutters
  <2>2. CASE ParallelStart
    BY <1>3, <2>2, <2>a, StartStarts
  <2>3. CASE Patch \/ SerialPeriod \/ XrunReport \/ EndReset \/ EndPlain \/ EndReweight
    <3>1. /\ pc[0] \in {"idle", "end"} /\ pc'[0] \in {"idle", "end", "clear"}
          /\ cur'[0] = cur[0]
      BY <2>0, <2>3 DEF Patch, ModAdd, ModEject, PortConnect, PortDisconnect, Dirty,
         BetweenPeriods, SerialPeriod, XrunReport, EndReset, EndPlain, EndReweight,
         Step, At, Goto, thread
    <3>2. cur[0] = None
      BY <2>a, <3>1 DEF MasterInOrder, Working
    <3> QED BY <2>1, <3>1, <3>2 DEF InPeriod
  <2>4. ASSUME NEW t \in Threads, Work(t) PROVE [Cycle!Next]_(Cycle!vars)
    <3>1. /\ \/ /\ Working(t)
                /\ Working(t)' \/ pc'[t] = IF t = 0 THEN "wait" ELSE "done"
             \/ /\ pc[t] \in {"clear", "add"} /\ cur[t] = None
                /\ pc'[t] \in {"add", "idle"} /\ cur'[t] = None
          /\ \A u \in Threads \ {t} : pc'[u] = pc[u] /\ cur'[u] = cur[u]
      BY <2>0, <2>4, <2>a, WorkEffect DEF AtHand
    <3>2. CASE InPeriod
      <4>1. InPeriod'
        <5>1. CASE t = 0
          <6>1. ~(pc[t] \in {"clear", "add"} /\ cur[t] = None)
            BY <3>2, <5>1 DEF InPeriod
          <6> QED BY <3>1, <5>1, <6>1, InPeriodIsNext
        <5>2. CASE t # 0
          BY <2>0, <3>1, <3>2, <5>2 DEF InPeriod
        <5> QED BY <5>1, <5>2
      <4>2. CASE Claim(t)
        BY <1>3, <2>a, <3>2, <4>1, <4>2, ClaimBegins
      <4>3. CASE RunEnd(t)
        BY <1>3, <2>a, <3>2, <4>1, <4>3, RunEndEnds
      <4>4. CASE ~Claim(t) /\ ~RunEnd(t)
        BY <1>3, <2>4, <2>a, <3>2, <4>1, <4>4, WorkStutters
      <4> QED BY <4>2, <4>3, <4>4
    <3>3. CASE ~InPeriod
      <4>1. ~Working(0)
        BY <3>3, InPeriodIs
      <4>2. t = 0
        BY <1>3, <2>0, <3>1, <3>3, ExclusiveGives DEF GraphExclusive, Working, Threads, Slaves
      <4>3. ~InPeriod'
        BY <3>1, <4>1, <4>2 DEF InPeriod
      <4> QED BY <2>1, <3>3, <4>3
    <3> QED BY <3>2, <3>3
  <2>5. ASSUME UNCHANGED <<mods, refCount, plan>>, InPeriod' <=> InPeriod,
               \A u \in Threads, m \in Mods : RunsModule(u, m)' <=> RunsModule(u, m)
        PROVE  UNCHANGED Cycle!vars
    BY <1>3, <2>1, <2>5, <2>a, PeriodStutter, OutsideStutters
  <2>6. ASSUME NEW s \in Slaves, Slave(s) PROVE [Cycle!Next]_(Cycle!vars)
    <3>1. /\ UNCHANGED <<mods, refCount, plan>>
          /\ pc[s] \notin {"run", "clear", "add"} /\ pc'[s] \notin {"run", "clear", "add"}
          /\ \A u \in Threads \ {s} : pc'[u] = pc[u] /\ cur'[u] = cur[u]
      BY <2>0, <2>6 DEF Slave, SlaveWake, SlavePost, SlaveCheck, Step, At, Goto, graph, ghosts
    <3> QED BY <2>0, <2>5, <3>1 DEF InPeriod, RunsModule
  <2>7. ASSUME UNCHANGED <<mods, refCount, plan, pc, cur>> PROVE UNCHANGED Cycle!vars
    BY <2>5, <2>7 DEF InPeriod, RunsModule
  <2>8. CASE WaitTimeout \/ Freed \/ UNCHANGED vars
    BY <2>7, <2>8 DEF WaitTimeout, Freed, vars, thread, graph, ghosts
  <2>9. CASE WakeSlave \/ (WaitOne /\ cnt + 1 < num)
    <3>1. /\ UNCHANGED <<mods, refCount, plan>>
          /\ pc[0] \in {"post", "wait"} /\ pc'[0] \in {"post", "spin", "wait"}
          /\ \A u \in Threads \ {0} : pc'[u] = pc[u] /\ cur'[u] = cur[u]
      BY <2>0, <2>9 DEF WakeSlave, WaitOne, At, Goto, graph, ghosts, thread
    <3> QED BY <2>0, <2>5, <3>1 DEF InPeriod, RunsModule
  <2>10. CASE WaitOne /\ ~(cnt + 1 < num)
    <3>1. InPeriod
      BY <2>10 DEF WaitOne, At, InPeriod
    <3> QED BY <1>3, <2>10, <2>a, <3>1, FinishFinishes
  <2>11. ~FreePost /\ ~FreeWait /\ ~FreeJoin /\ ~FreeKill
    BY <1>3, <2>0, <2>a DEF FreePost, FreeWait, FreeJoin, FreeKill, At, Step,
                            MasterInOrder, Working
  <2> QED
    <3>1. CASE Next
      <4>1. \/ ParallelStart
            \/ Patch \/ SerialPeriod \/ XrunReport \/ EndReset \/ EndPlain \/ EndReweight
            \/ \E t \in Threads : Work(t)
            \/ \E s \in Slaves : Slave(s)
            \/ WaitTimeout \/ Freed
            \/ WakeSlave \/ WaitOne
        BY <2>11, <3>1 DEF Next, Master
      <4> QED BY <2>2, <2>3, <2>4, <2>6, <2>8, <2>9, <2>10, <4>1
    <3>2. CASE UNCHANGED vars
      BY <2>8, <3>2
    <3> QED BY <3>1, <3>2
<1> QED BY <1>1, <1>2, <1>3

(* The parallel scheduler implements DspCycle: between the start and the   *)
(* end of a period every module present runs exactly once, and starts only *)
(* after every module that feeds it has ended, by whichever threads and in *)
(* whatever order of their steps.                                          *)
THEOREM CycleImplemented == Spec /\ []ReordersInTurn => ImplementsCycle
<1>1. Init => Cycle!Init
  <2> SUFFICES ASSUME Init PROVE Cycle!Init
    OBVIOUS
  <2>1. ~kill /\ ~InPeriod
    BY ZeroThread DEF Init, InPeriod
  <2> QED BY <2>1, StatusOff, CycleInit DEF Phase, Plan
<1>2. /\ TypeOK /\ TypeOK' /\ ExclusiveInv /\ ExclusiveInv' /\ KillIsLast'
      /\ OrderInv /\ OrderInv' /\ CycleInv /\ [Next]_vars
      => [Cycle!Next]_(Cycle!vars)
  BY CycleStep
<1> QED BY <1>1, <1>2, TypeCorrect, ExclusiveInvariant, KillInvariant, OrderInvariant,
           CycleInvariant, PTL DEF Spec, ImplementsCycle, Cycle!Spec

(* Where connections into one module only are faded out, or none at all,   *)
(* nothing is assumed of the behaviour: sources end before their sinks     *)
(* start, no count is decremented too often, every period is complete, and *)
(* the scheduler implements DspCycle.                                      *)
THEOREM OneFaderCorrect ==
  ASSUME OneFader
  PROVE  Spec => []SourcesFirst /\ []RefCountAssert /\ []PeriodComplete /\ ImplementsCycle
BY OneFaderReordersInTurn, SourcesAlwaysFirst, CountsSuffice, PeriodsComplete,
   CycleImplemented, PTL
===============================================================================
