---------------------------- MODULE DspMasterProofs ----------------------------
(***************************************************************************)
(* Theorems about DspMaster, for every number of modules and slaves, every *)
(* patch and every set of connections that fade out while the patch plays. *)
(***************************************************************************)
EXTENDS DspMaster, WellFoundedInduction, FiniteSetTheorems, TLAPS

USE NumModsAssumption, NumSlavesAssumption

(* A set of naturals that has an element has a least one. *)
LEMMA LeastElement ==
  ASSUME NEW S, \A k \in S : k \in Nat, NEW x \in S
  PROVE  \E k \in S : \A j \in S : k <= j
<1>1. IsWellFoundedOn(OpToRel(<, Nat), Nat)
  BY NatLessThanWellFounded
<1>2. S \subseteq Nat /\ S # {}
  OBVIOUS
<1>3. \E k \in S : \A j \in S : ~(<<j, k>> \in OpToRel(<, Nat))
  BY <1>1, <1>2, WFMin
<1>4. \A j, k \in Nat : ~(<<j, k>> \in OpToRel(<, Nat)) => k <= j
  BY DEF OpToRel
<1> QED BY <1>3, <1>4

(* The scan of app->mods finds a module that is present, the first one not *)
(* below the rank asked for, or the end of the array.                      *)
LEMMA FirstFromFact ==
  ASSUME mods \subseteq Mods, NEW m \in Nat
  PROVE  /\ FirstFrom(m) \in Mods \union {PastEnd}
         /\ FirstFrom(m) # PastEnd =>
              /\ FirstFrom(m) \in mods
              /\ FirstFrom(m) >= m
              /\ \A j \in mods : j >= m => FirstFrom(m) <= j
         /\ FirstFrom(m) = PastEnd => \A k \in mods : k < m
<1> DEFINE S == {k \in mods : k >= m}
<1>1. \A k \in mods : k \in Nat /\ k # PastEnd
  BY DEF Mods, PastEnd
<1>2. CASE \E k \in mods : k >= m
  <2>1. PICK x \in mods : x >= m
    BY <1>2
  <2>2. \A k \in S : k \in Nat
    BY <1>1
  <2>3. \E k \in S : \A j \in S : k <= j
    <3>1. x \in S
      BY <2>1
    <3> HIDE DEF S
    <3> QED BY <2>2, <3>1, LeastElement
  <2>4. \E k \in mods : k >= m /\ \A j \in mods : j >= m => k <= j
    BY <2>3
  <2>5. /\ FirstFrom(m) \in mods /\ FirstFrom(m) >= m
        /\ \A j \in mods : j >= m => FirstFrom(m) <= j
    <3> HIDE DEF S
    <3> QED BY <1>2, <2>4 DEF FirstFrom
  <2> HIDE DEF S
  <2> QED BY <2>5, <1>1
<1>3. CASE ~ \E k \in mods : k >= m
  <2>1. FirstFrom(m) = PastEnd
    BY <1>3 DEF FirstFrom
  <2> HIDE DEF S
  <2> QED BY <1>1, <1>3, <2>1
<1> QED BY <1>2, <1>3

-------------------------------------------------------------------------------
(* Type correctness, one part of the state after the other. *)

GraphType ==
  /\ mods \subseteq Mods /\ conn \subseteq Edges
  /\ sinks \in [Mods -> Seq(Mods)]
  /\ numSources \in [Mods -> Nat]

CountType ==
  /\ refCount \in [Mods -> Int]
  /\ concurrent \in Nat
  /\ kill \in BOOLEAN /\ emergency \in BOOLEAN /\ xrun \in BOOLEAN
  /\ masterSem \in Nat /\ slaveSem \in [Slaves -> Nat]
  /\ num \in 0 .. NumSlaves /\ cnt \in 0 .. NumSlaves

ThreadType ==
  /\ pc \in [Threads -> Steps]
  /\ cur \in [Threads -> Mods \union {None}]
  /\ head \in [Threads -> Mods \union {None, 1}]
  /\ idx \in [Threads -> Nat]

GhostType == plan \subseteq Edges /\ runs \in [Mods -> Nat]

LEMMA TypeParts == TypeOK <=> GraphType /\ CountType /\ ThreadType /\ GhostType
BY DEF TypeOK, GraphType, CountType, ThreadType, GhostType

LEMMA TypePartsNext ==
  TypeOK' <=> GraphType' /\ CountType' /\ ThreadType' /\ GhostType'
BY DEF TypeOK, GraphType, CountType, ThreadType, GhostType

LEMMA InitType == Init => TypeOK
<1> SUFFICES ASSUME Init PROVE TypeOK
  OBVIOUS
<1>1. GraphType
  <2>1. <<>> \in Seq(Mods)
    OBVIOUS
  <2>2. sinks \in [Mods -> Seq(Mods)]
    BY <2>1 DEF Init
  <2> QED BY <2>2 DEF Init, GraphType
<1>2. CountType
  <2>1. 0 \in 0 .. NumSlaves /\ NumSlaves + 1 \in Nat
    OBVIOUS
  <2>2. refCount \in [Mods -> Int] /\ slaveSem \in [Slaves -> Nat]
    BY DEF Init
  <2> QED BY <2>1, <2>2 DEF Init, CountType
<1>3. ThreadType
  <2>1. pc \in [Threads -> Steps]
    BY DEF Init, Steps
  <2>2. cur \in [Threads -> Mods \union {None}]
    BY DEF Init
  <2>3. head \in [Threads -> Mods \union {None, 1}]
    BY DEF Init
  <2>4. idx \in [Threads -> Nat]
    BY DEF Init
  <2> QED BY <2>1, <2>2, <2>3, <2>4 DEF ThreadType
<1>4. GhostType
  BY DEF Init, GhostType
<1> QED BY <1>1, <1>2, <1>3, <1>4, TypeParts

(* A thread that goes on at a step keeps its type. *)
LEMMA GotoType ==
  ASSUME ThreadType, NEW t \in Threads, NEW step \in Steps,
         NEW m \in Mods \union {None}, NEW h \in Mods \union {None, 1},
         Goto(t, step, m, h), idx' \in [Threads -> Nat]
  PROVE  ThreadType'
BY DEF ThreadType, Goto

LEMMA StepType ==
  ASSUME ThreadType, NEW t \in Threads, NEW from, NEW to \in Steps,
         Step(t, from, to)
  PROVE  ThreadType'
<1>1. cur[t] \in Mods \union {None} /\ head[t] \in Mods \union {None, 1}
  BY DEF ThreadType
<1>2. Goto(t, to, cur[t], head[t]) /\ idx' \in [Threads -> Nat]
  BY DEF Step, ThreadType
<1> QED BY <1>1, <1>2, GotoType

LEMMA ZeroThread == 0 \in Threads /\ \A s \in Slaves : s \in Threads
BY DEF Threads, Slaves

LEMMA ModsFinite ==
  ASSUME NEW S \in SUBSET Mods
  PROVE  IsFiniteSet(S) /\ Cardinality(S) \in Nat
<1>1. IsFiniteSet(Mods)
  BY FS_Interval, 1 \in Int, NumMods \in Int DEF Mods
<1>2. IsFiniteSet(S)
  BY <1>1, FS_Subset
<1> QED BY <1>2, FS_CardinalityType

(* The realtime thread's changes to the patch. *)
LEMMA PatchType == TypeOK /\ Patch => TypeOK'
<1> SUFFICES ASSUME GraphType, CountType, ThreadType, GhostType, Patch
             PROVE  TypeOK'
  BY TypeParts
<1>0. "clear" \in Steps
  BY DEF Steps
<1>1. ASSUME BetweenPeriods, mods' \subseteq Mods, conn' \subseteq Edges,
             refCount' \in [Mods -> Int], runs' \in [Mods -> Nat]
      PROVE  TypeOK'
  <2>1. GraphType'
    BY <1>1 DEF BetweenPeriods, GraphType
  <2>2. CountType'
    BY <1>1 DEF BetweenPeriods, CountType, flags, sems
  <2>3. ThreadType'
    BY <1>0, <1>1, StepType, ZeroThread DEF BetweenPeriods
  <2>4. GhostType'
    BY <1>1 DEF BetweenPeriods, GhostType
  <2> QED BY <2>1, <2>2, <2>3, <2>4, TypePartsNext
<1>2. ASSUME NEW m \in Mods, ModAdd(m) PROVE TypeOK'
  <2>1. mods' \subseteq Mods /\ conn' \subseteq Edges
    BY <1>2 DEF ModAdd, GraphType
  <2>2. refCount' \in [Mods -> Int] /\ runs' \in [Mods -> Nat]
    BY <1>2 DEF ModAdd, CountType, GhostType
  <2> QED BY <1>1, <1>2, <2>1, <2>2 DEF ModAdd
<1>3. ASSUME NEW m \in Mods, ModEject(m) PROVE TypeOK'
  <2>1. GraphType'
    <3>1. <<>> \in Seq(Mods)
      OBVIOUS
    <3>2. sinks' \in [Mods -> Seq(Mods)]
      BY <1>3, <3>1 DEF ModEject, GraphType
    <3>3. numSources' \in [Mods -> Nat]
      BY <1>3 DEF ModEject, GraphType
    <3>4. mods' \subseteq Mods /\ conn' \subseteq Edges
      BY <1>3 DEF ModEject, GraphType
    <3> QED BY <3>2, <3>3, <3>4 DEF GraphType
  <2>2. CountType'
    BY <1>3 DEF ModEject, CountType, flags, sems
  <2>3. ThreadType'
    BY <1>0, <1>3, StepType, ZeroThread DEF ModEject
  <2>4. GhostType'
    BY <1>3 DEF ModEject, GhostType
  <2> QED BY <2>1, <2>2, <2>3, <2>4, TypePartsNext
<1>4. ASSUME NEW e \in Edges, PortConnect(e) PROVE TypeOK'
  <2>1. mods' \subseteq Mods /\ conn' \subseteq Edges
    BY <1>4 DEF PortConnect, GraphType
  <2>2. refCount' \in [Mods -> Int] /\ runs' \in [Mods -> Nat]
    BY <1>4 DEF PortConnect, CountType, GhostType
  <2> QED BY <1>1, <1>4, <2>1, <2>2 DEF PortConnect
<1>5. ASSUME NEW e \in Edges, PortDisconnect(e) PROVE TypeOK'
  <2>1. mods' \subseteq Mods /\ conn' \subseteq Edges
    BY <1>5 DEF PortDisconnect, GraphType
  <2>2. refCount' \in [Mods -> Int] /\ runs' \in [Mods -> Nat]
    BY <1>5 DEF PortDisconnect, CountType, GhostType
  <2> QED BY <1>1, <1>5, <2>1, <2>2 DEF PortDisconnect
<1>6. ASSUME Dirty PROVE TypeOK'
  BY <1>1, <1>6 DEF Dirty, GraphType, CountType, GhostType
<1> QED BY <1>2, <1>3, <1>4, <1>5, <1>6 DEF Patch

(* A thread on its way through a pass, and out of it. *)
LEMMA LeaveType ==
  ASSUME ThreadType, NEW t \in Threads, Leave(t), idx' \in [Threads -> Nat]
  PROVE  ThreadType'
<1>1. {"wait", "done"} \subseteq Steps
  BY DEF Steps
<1> QED BY <1>1, GotoType DEF Leave

LEMMA AdvanceType ==
  ASSUME GraphType, ThreadType, NEW t \in Threads,
         NEW h \in Mods \union {None, 1}, Advance(t, h), idx' \in [Threads -> Nat]
  PROVE  ThreadType'
<1> DEFINE m == FirstFrom(cur[t] + 1)
<1>1. cur[t] + 1 \in Nat /\ mods \subseteq Mods
  <2>1. cur[t] \in Mods \union {None}
    BY DEF ThreadType
  <2> QED BY <2>1 DEF GraphType, Mods, None
<1>2. m \in Mods \union {PastEnd}
  BY <1>1, FirstFromFact
<1>3. "cas" \in Steps /\ "spin" \in Steps
  BY DEF Steps
<1>4. CASE m # PastEnd
  BY <1>2, <1>3, <1>4, GotoType DEF Advance
<1>5. CASE m = PastEnd /\ h = None
  BY <1>5, LeaveType DEF Advance
<1>6. CASE m = PastEnd /\ h # None
  BY <1>3, <1>6, GotoType DEF Advance
<1> QED BY <1>4, <1>5, <1>6

(* What a thread does to a count, at an entry it may not have. *)
LEMMA CountUpdate ==
  ASSUME NEW f, NEW x, NEW d, f \in [Mods -> Int], d \in Int
  PROVE  [f EXCEPT ![x] = f[x] + d] \in [Mods -> Int]
<1>1. CASE x \in Mods
  <2>1. f[x] + d \in Int
    BY <1>1
  <2> QED BY <2>1
<1>2. CASE x \notin Mods
  BY <1>2
<1> QED BY <1>1, <1>2

(* A post of a semaphore. *)
LEMMA PostType ==
  ASSUME NEW f, NEW x, f \in [Slaves -> Nat]
  PROVE  [f EXCEPT ![x] = f[x] + 1] \in [Slaves -> Nat]
<1>1. CASE x \in Slaves
  <2>1. f[x] + 1 \in Nat
    BY <1>1
  <2> QED BY <2>1
<1>2. CASE x \notin Slaves
  BY <1>2
<1> QED BY <1>1, <1>2

(* The steps every thread takes while it works. *)
LEMMA WorkType ==
  ASSUME TypeOK, NEW t \in Threads, Work(t)
  PROVE  TypeOK'
<1>0. GraphType /\ CountType /\ ThreadType /\ GhostType
  BY TypeParts
<1>a. {"clear", "add", "idle", "spin", "cas", "run", "sub"} \subseteq Steps
  BY DEF Steps
<1>b. cur[t] \in Mods \union {None} /\ head[t] \in Mods \union {None, 1}
  BY <1>0 DEF ThreadType
<1>c. \A m \in Nat : FirstFrom(m) \in Mods \union {PastEnd}
  BY <1>0, FirstFromFact DEF GraphType
<1>d. Mods \union {PastEnd} \subseteq Nat
  BY DEF Mods, PastEnd
<1>1. CASE ReorderClear(t)
  <2>1. GraphType'
    <3>1. <<>> \in Seq(Mods)
      OBVIOUS
    <3>2. sinks' \in [Mods -> Seq(Mods)]
      BY <1>0, <1>1, <3>1 DEF ReorderClear, GraphType
    <3>3. numSources' \in [Mods -> Nat]
      BY <1>0, <1>1 DEF ReorderClear, GraphType
    <3> QED BY <1>0, <1>1, <3>2, <3>3 DEF ReorderClear, GraphType
  <2>2. CountType'
    BY <1>0, <1>1 DEF ReorderClear, CountType, flags, sems
  <2>3. ThreadType'
    <3>1. FirstFrom(1) \in Nat
      BY <1>c, <1>d
    <3> QED BY <1>0, <1>a, <1>1, <3>1 DEF ReorderClear, ThreadType
  <2>4. GhostType'
    BY <1>0, <1>1 DEF ReorderClear, GhostType, ghosts
  <2> QED BY <2>1, <2>2, <2>3, <2>4, TypePartsNext
<1>2. CASE ReorderAdd(t)
  <2> DEFINE m == idx[t]
  <2>0. m \in Mods
    BY <1>2 DEF ReorderAdd
  <2>1. GraphType'
    <3>1. \A n \in Mods : Append(sinks[n], m) \in Seq(Mods)
      BY <1>0, <2>0 DEF GraphType
    <3>2. sinks' \in [Mods -> Seq(Mods)]
      BY <1>0, <1>2, <3>1 DEF ReorderAdd, GraphType
    <3>3. SourcesOf(m) \in SUBSET Mods
      BY <1>0 DEF SourcesOf, GraphType
    <3>4. Cardinality(SourcesOf(m)) \in Nat
      BY <3>3, ModsFinite
    <3>5. numSources' \in [Mods -> Nat]
      BY <1>0, <1>2, <2>0, <3>4 DEF ReorderAdd, GraphType
    <3> QED BY <1>0, <1>2, <3>2, <3>5 DEF ReorderAdd, GraphType
  <2>2. CountType'
    BY <1>0, <1>2 DEF ReorderAdd, CountType, flags, sems
  <2>3. ThreadType'
    <3>1. FirstFrom(m + 1) \in Nat
      BY <1>c, <1>d, <2>0
    <3> QED BY <1>0, <1>2, <3>1 DEF ReorderAdd, ThreadType
  <2>4. GhostType'
    BY <1>0, <1>2 DEF ReorderAdd, GhostType, ghosts
  <2> QED BY <2>1, <2>2, <2>3, <2>4, TypePartsNext
<1>3. CASE ReorderReturn(t)
  <2>1. GraphType'
    BY <1>0, <1>3 DEF ReorderReturn, GraphType, graph
  <2>2. CountType'
    BY <1>0, <1>3 DEF ReorderReturn, CountType, flags, sems
  <2>3. ThreadType'
    BY <1>0, <1>3, <1>a DEF ReorderReturn, ThreadType
  <2>4. GhostType'
    BY <1>0, <1>3 DEF ReorderReturn, GhostType, ghosts
  <2> QED BY <2>1, <2>2, <2>3, <2>4, TypePartsNext
<1>4. ASSUME ThreadType', UNCHANGED <<graph, refCount, concurrent, flags, sems, ghosts>>
      PROVE  TypeOK'
  <2>1. GraphType'
    BY <1>0, <1>4 DEF GraphType, graph
  <2>2. CountType'
    BY <1>0, <1>4 DEF CountType, flags, sems
  <2>3. GhostType'
    BY <1>0, <1>4 DEF GhostType, ghosts
  <2> QED BY <1>4, <2>1, <2>2, <2>3, TypePartsNext
<1>i. UNCHANGED idx => idx' \in [Threads -> Nat]
  BY <1>0 DEF ThreadType
<1>5. CASE Spin(t)
  <2>1. head[t] \in Nat
    BY <1>b DEF Mods, None
  <2>2. FirstFrom(head[t]) \in Mods \union {PastEnd}
    BY <1>c, <2>1
  <2>3. ThreadType'
    <3>1. CASE emergency \/ FirstFrom(head[t]) = PastEnd
      BY <1>0, <1>5, <1>i, <3>1, LeaveType DEF Spin
    <3>2. CASE ~(emergency \/ FirstFrom(head[t]) = PastEnd)
      BY <1>0, <1>5, <1>a, <1>i, <2>2, <3>2, GotoType DEF Spin
    <3> QED BY <3>1, <3>2
  <2> QED BY <1>4, <1>5, <2>3 DEF Spin
<1>6. CASE Claim(t)
  <2>1. GraphType'
    BY <1>0, <1>6 DEF Claim, GraphType, graph
  <2>2. CountType'
    <3>1. refCount' \in [Mods -> Int]
      <4>1. -1 \in Int /\ refCount \in [Mods -> Int]
        BY <1>0 DEF CountType
      <4>2. refCount' = [refCount EXCEPT ![cur[t]] = -1]
        BY <1>6 DEF Claim
      <4> QED BY <4>1, <4>2
    <3> QED BY <1>0, <1>6, <3>1 DEF Claim, CountType, flags, sems
  <2>3. ThreadType'
    BY <1>0, <1>6, <1>a, StepType DEF Claim
  <2>4. GhostType'
    <3>1. runs \in [Mods -> Nat]
      BY <1>0 DEF GhostType
    <3>2. CASE cur[t] \in Mods
      BY <1>0, <1>6, <3>1, <3>2 DEF Claim, GhostType
    <3>3. CASE cur[t] \notin Mods
      BY <1>0, <1>6, <3>1, <3>3 DEF Claim, GhostType
    <3> QED BY <3>2, <3>3
  <2> QED BY <2>1, <2>2, <2>3, <2>4, TypePartsNext
<1>7. CASE SkipClaimed(t)
  <2>1. ThreadType'
    BY <1>0, <1>7, <1>b, <1>i, AdvanceType DEF SkipClaimed
  <2> QED BY <1>4, <1>7, <2>1 DEF SkipClaimed
<1>8. CASE SkipLater(t)
  <2> DEFINE h == IF head[t] = None THEN cur[t] ELSE head[t]
  <2>1. h \in Mods \union {None, 1}
    BY <1>b
  <2>2. ThreadType'
    BY <1>0, <1>8, <1>i, <2>1, AdvanceType DEF SkipLater
  <2> QED BY <1>4, <1>8, <2>2 DEF SkipLater
<1>9. CASE RampCut(t)
  <2>1. GraphType'
    BY <1>0, <1>9 DEF RampCut, GraphType
  <2>2. CountType'
    BY <1>0, <1>9 DEF RampCut, CountType, flags, sems
  <2>3. ThreadType'
    BY <1>0, <1>9, <1>a, StepType DEF RampCut
  <2>4. GhostType'
    BY <1>0, <1>9 DEF RampCut, GhostType, ghosts
  <2> QED BY <2>1, <2>2, <2>3, <2>4, TypePartsNext
<1>10. CASE RunEnd(t)
  <2>1. idx' \in [Threads -> Nat]
    BY <1>0, <1>10 DEF RunEnd, ThreadType
  <2>2. ThreadType'
    BY <1>0, <1>10, <1>a, <1>b, <2>1, GotoType DEF RunEnd
  <2> QED BY <1>4, <1>10, <2>2 DEF RunEnd
<1>11. CASE SubSink(t)
  <2>1. GraphType'
    BY <1>0, <1>11 DEF SubSink, GraphType, graph
  <2>2. CountType'
    <3> DEFINE x == sinks[cur[t]][idx[t]]
    <3>1. refCount \in [Mods -> Int]
      BY <1>0 DEF CountType
    <3>2. refCount' = [refCount EXCEPT ![x] = refCount[x] + (-1)]
      <4>1. CASE x \in Mods
        BY <1>11, <3>1, <4>1 DEF SubSink
      <4>2. CASE x \notin Mods
        BY <1>11, <3>1, <4>2 DEF SubSink
      <4> QED BY <4>1, <4>2
    <3>3. refCount' \in [Mods -> Int]
      <4>1. -1 \in Int
        OBVIOUS
      <4> HIDE DEF x
      <4> QED BY <3>1, <3>2, <4>1, CountUpdate
    <3> QED BY <1>0, <1>11, <3>3 DEF SubSink, CountType, flags, sems
  <2>3. ThreadType'
    BY <1>0, <1>11 DEF SubSink, ThreadType
  <2>4. GhostType'
    BY <1>0, <1>11 DEF SubSink, GhostType, ghosts
  <2> QED BY <2>1, <2>2, <2>3, <2>4, TypePartsNext
<1>12. CASE SubReturn(t)
  <2>1. idx' \in [Threads -> Nat]
    BY <1>0, <1>12 DEF SubReturn, ThreadType
  <2>2. ThreadType'
    BY <1>0, <1>12, <1>b, <2>1, AdvanceType DEF SubReturn
  <2> QED BY <1>4, <1>12, <2>2 DEF SubReturn
<1> QED BY <1>1, <1>2, <1>3, <1>5, <1>6, <1>7, <1>8, <1>9, <1>10, <1>11,
           <1>12 DEF Work

(* The steps of the slaves only. *)
LEMMA SlaveType ==
  ASSUME TypeOK, NEW s \in Slaves, Slave(s)
  PROVE  TypeOK'
<1>0. GraphType /\ CountType /\ ThreadType /\ GhostType /\ s \in Threads
  BY TypeParts, ZeroThread
<1>1. UNCHANGED <<graph, ghosts>>
  BY DEF Slave, SlaveWake, SlavePost, SlaveCheck
<1>2. GraphType' /\ GhostType'
  BY <1>0, <1>1 DEF GraphType, GhostType, graph, ghosts
<1>3. {"sleep", "spin", "check", "exit"} \subseteq Steps
  BY DEF Steps
<1>4. CASE SlaveWake(s)
  <2>1. CountType'
    BY <1>0, <1>4 DEF SlaveWake, CountType, flags
  <2>2. idx' \in [Threads -> Nat]
    BY <1>0, <1>4 DEF SlaveWake, ThreadType
  <2>3. ThreadType'
    BY <1>0, <1>3, <1>4, <2>2, GotoType DEF SlaveWake
  <2> QED BY <1>2, <2>1, <2>3, TypePartsNext
<1>5. CASE SlavePost(s)
  <2>1. CountType'
    BY <1>0, <1>5 DEF SlavePost, CountType, flags
  <2>2. ThreadType'
    BY <1>0, <1>3, <1>5, StepType DEF SlavePost
  <2> QED BY <1>2, <2>1, <2>2, TypePartsNext
<1>6. CASE SlaveCheck(s)
  <2>1. CountType'
    BY <1>0, <1>6 DEF SlaveCheck, CountType, flags, sems
  <2>2. (IF kill THEN "exit" ELSE "sleep") \in Steps
    BY <1>3
  <2>3. ThreadType'
    BY <1>0, <1>6, <2>2, StepType DEF SlaveCheck
  <2> QED BY <1>2, <2>1, <2>3, TypePartsNext
<1> QED BY <1>4, <1>5, <1>6 DEF Slave

(* The realtime thread's semaphore loops, and the end of a period. *)
LEMMA MasterType == TypeOK /\ Master => TypeOK'
<1> SUFFICES ASSUME TypeOK, Master PROVE TypeOK'
  OBVIOUS
<1>0. GraphType /\ CountType /\ ThreadType /\ GhostType /\ 0 \in Threads
  BY TypeParts, ZeroThread
<1>1. {"spin", "end", "idle", "kpost", "kwait", "join", "freed"} \subseteq Steps
  BY DEF Steps
<1>2. ASSUME UNCHANGED <<graph, ghosts>>, CountType', ThreadType' PROVE TypeOK'
  <2>1. GraphType' /\ GhostType'
    BY <1>0, <1>2 DEF GraphType, GhostType, graph, ghosts
  <2> QED BY <1>2, <2>1, TypePartsNext
<1>3. UNCHANGED thread => ThreadType'
  BY <1>0 DEF ThreadType, thread
<1>4. ASSUME NEW step \in Steps, NEW h \in {None, 1},
             Goto(0, step, None, h) /\ UNCHANGED idx
      PROVE  ThreadType'
  <2>1. idx' \in [Threads -> Nat]
    BY <1>0, <1>4 DEF ThreadType
  <2> QED BY <1>0, <1>4, <2>1, GotoType
<1>5. ASSUME NEW from, NEW to \in Steps, Step(0, from, to) PROVE ThreadType'
  BY <1>0, <1>5, StepType
<1>6. CASE WakeSlave
  <2>1. slaveSem' \in [Slaves -> Nat]
    <3>1. slaveSem' = [slaveSem EXCEPT ![cnt + 1] = slaveSem[cnt + 1] + 1]
      BY <1>6 DEF WakeSlave
    <3>2. slaveSem \in [Slaves -> Nat]
      BY <1>0 DEF CountType
    <3> QED BY <3>1, <3>2, PostType
  <2>2. CountType'
    BY <1>0, <1>6, <2>1 DEF WakeSlave, CountType, flags
  <2>3. ThreadType'
    BY <1>1, <1>3, <1>4, <1>6 DEF WakeSlave
  <2> QED BY <1>2, <1>6, <2>2, <2>3 DEF WakeSlave
<1>7. CASE WaitOne
  <2>1. CountType'
    BY <1>0, <1>7 DEF WaitOne, CountType, flags
  <2>2. ThreadType'
    BY <1>1, <1>3, <1>4, <1>7 DEF WaitOne
  <2> QED BY <1>2, <1>7, <2>1, <2>2 DEF WaitOne
<1>8. ASSUME Step(0, "end", "idle"), UNCHANGED <<graph, sems, kill, refCount>>,
             concurrent' \in Nat, emergency' \in BOOLEAN, xrun' \in BOOLEAN, Forget
      PROVE  TypeOK'
  <2>1. GraphType'
    BY <1>0, <1>8 DEF GraphType, graph
  <2>2. CountType'
    BY <1>0, <1>8 DEF CountType, sems
  <2>3. ThreadType'
    BY <1>1, <1>5, <1>8
  <2>4. GhostType'
    BY <1>8 DEF GhostType, Forget
  <2> QED BY <2>1, <2>2, <2>3, <2>4, TypePartsNext
<1>9. CASE EndReset
  <2>1. Step(0, "end", "idle") /\ UNCHANGED <<graph, sems, kill, refCount>> /\ Forget
    BY <1>9 DEF EndReset
  <2>2. concurrent' \in Nat /\ emergency' \in BOOLEAN /\ xrun' \in BOOLEAN
    <3>1. concurrent' = NumSlaves + 1 
      BY <1>9 DEF EndReset
    <3>2. emergency' = FALSE /\ xrun' = FALSE
      BY <1>9 DEF EndReset
    <3>3. emergency' \in BOOLEAN /\ xrun' \in BOOLEAN
      BY <3>2, Zenon
    <3>4. concurrent' \in Nat
      BY <3>1
    <3> QED BY <3>3, <3>4
  <2> QED BY <1>8, <2>1, <2>2
<1>10. CASE EndPlain
  BY <1>0, <1>8, <1>10 DEF EndPlain, CountType, flags
<1>11. CASE EndReweight
  <2>1. Cardinality(mods) \in Nat
    BY <1>0, ModsFinite DEF GraphType
  <2>2. concurrent' \in Nat
    BY <1>11, <2>1 DEF EndReweight
  <2> QED BY <1>0, <1>8, <1>11, <2>2 DEF EndReweight, CountType, flags
<1>12. CASE FreePost
  <2>1. slaveSem' \in [Slaves -> Nat]
    <3>1. slaveSem' = [slaveSem EXCEPT ![cnt + 1] = slaveSem[cnt + 1] + 1]
      BY <1>12 DEF FreePost
    <3>2. slaveSem \in [Slaves -> Nat]
      BY <1>0 DEF CountType
    <3> QED BY <3>1, <3>2, PostType
  <2>2. CountType'
    BY <1>0, <1>12, <2>1 DEF FreePost, CountType, flags
  <2>3. ThreadType'
    BY <1>1, <1>3, <1>5, <1>12 DEF FreePost
  <2> QED BY <1>2, <1>12, <2>2, <2>3 DEF FreePost
<1>13. CASE FreeWait
  <2>1. CountType'
    BY <1>0, <1>13 DEF FreeWait, CountType, flags
  <2>2. ThreadType'
    BY <1>1, <1>3, <1>5, <1>13 DEF FreeWait
  <2> QED BY <1>2, <1>13, <2>1, <2>2 DEF FreeWait
<1>14. CASE FreeJoin
  <2>1. CountType'
    BY <1>0, <1>14 DEF FreeJoin, CountType, flags, sems
  <2>2. ThreadType'
    BY <1>1, <1>5, <1>14 DEF FreeJoin
  <2> QED BY <1>2, <1>14, <2>1, <2>2 DEF FreeJoin
<1> QED BY <1>6, <1>7, <1>9, <1>10, <1>11, <1>12, <1>13, <1>14 DEF Master

LEMMA ParallelStartType == TypeOK /\ ParallelStart => TypeOK'
<1> SUFFICES ASSUME TypeOK, ParallelStart PROVE TypeOK'
  OBVIOUS
<1>0. GraphType /\ CountType /\ ThreadType /\ GhostType /\ 0 \in Threads
  BY TypeParts, ZeroThread
<1>1. GraphType'
  BY <1>0 DEF ParallelStart, GraphType, graph
<1>2. refCount' \in [Mods -> Int]
  BY <1>0 DEF ParallelStart, GraphType, CountType
<1>3. num' \in 0 .. NumSlaves /\ cnt' \in 0 .. NumSlaves
  BY <1>0 DEF ParallelStart, CountType, MinOf
<1>4. CountType'
  BY <1>0, <1>2, <1>3 DEF ParallelStart, CountType, flags
<1>5. ThreadType'
  BY <1>0, StepType DEF ParallelStart, Steps
<1>6. GhostType'
  BY <1>0 DEF ParallelStart, GhostType, GraphType, ForwardEdges
<1> QED BY <1>1, <1>4, <1>5, <1>6, TypePartsNext

LEMMA NextType == TypeOK /\ [Next]_vars => TypeOK'
<1> SUFFICES ASSUME TypeOK, [Next]_vars PROVE TypeOK'
  OBVIOUS
<1>0. GraphType /\ CountType /\ ThreadType /\ GhostType /\ 0 \in Threads
  BY TypeParts, ZeroThread
<1>1. CASE SerialPeriod
  <2>1. ThreadType'
    BY <1>0, <1>1, StepType DEF SerialPeriod, Steps
  <2>2. CountType' /\ GraphType' /\ GhostType'
    BY <1>0, <1>1
    DEF SerialPeriod, CountType, GraphType, GhostType, flags, sems, graph, ghosts
  <2> QED BY <2>1, <2>2, TypePartsNext
<1>2. CASE FreeKill
  <2>1. (IF NumSlaves = 0 THEN "join" ELSE "kpost") \in Steps
    BY DEF Steps
  <2>2. ThreadType'
    BY <1>0, <1>2, <2>1, StepType DEF FreeKill
  <2>3. CountType' /\ GraphType' /\ GhostType'
    BY <1>0, <1>2 DEF FreeKill, CountType, GraphType, GhostType, graph, ghosts
  <2> QED BY <2>2, <2>3, TypePartsNext
<1>3. CASE WaitTimeout \/ XrunReport
  <2>1. CountType' /\ GraphType' /\ GhostType' /\ ThreadType'
    BY <1>0, <1>3 DEF WaitTimeout, XrunReport, CountType, GraphType, GhostType,
                      ThreadType, graph, sems, thread, ghosts
  <2> QED BY <2>1, TypePartsNext
<1>4. CASE UNCHANGED vars
  <2>1. CountType' /\ GraphType' /\ GhostType' /\ ThreadType'
    BY <1>0, <1>4 DEF vars, CountType, GraphType, GhostType,
                      ThreadType, graph, flags, sems, thread, ghosts
  <2> QED BY <2>1, TypePartsNext
<1>5. CASE Freed
  BY <1>4, <1>5 DEF Freed
<1> QED BY <1>1, <1>2, <1>3, <1>4, <1>5, PatchType, ParallelStartType,
           MasterType, WorkType, SlaveType DEF Next

(* Every variable keeps its type: the counts of a module stay integers and *)
(* no semaphore is taken below zero, whatever the threads do.              *)
THEOREM TypeCorrect == Spec => []TypeOK
<1>1. Init => TypeOK
  BY InitType
<1>2. TypeOK /\ [Next]_vars => TypeOK'
  BY NextType
<1> QED BY <1>1, <1>2, PTL DEF Spec

-------------------------------------------------------------------------------
(* A module is started once in a period.  The count of a module that has   *)
(* been started is negative and, since counts only go down in a period, no *)
(* compare-and-swap finds it at zero again.                                *)

StartedIsClaimed ==
  \A m \in Mods : runs[m] <= 1 /\ (runs[m] = 1 => refCount[m] < 0)

LEMMA StartedIsClaimedStep ==
  ASSUME TypeOK, StartedIsClaimed, [Next]_vars
  PROVE  StartedIsClaimed'
<1>0. refCount \in [Mods -> Int] /\ runs \in [Mods -> Nat]
  BY DEF TypeOK
<1>1. ASSUME UNCHANGED <<refCount, runs>> PROVE StartedIsClaimed'
  BY <1>1 DEF StartedIsClaimed
<1>2. ASSUME runs' = [m \in Mods |-> 0] PROVE StartedIsClaimed'
  BY <1>2 DEF StartedIsClaimed
<1>3. ASSUME NEW m \in Mods, ModAdd(m) \/ ModEject(m) PROVE StartedIsClaimed'
  <2>1. refCount' = [refCount EXCEPT ![m] = 0] /\ runs' = [runs EXCEPT ![m] = 0]
    BY <1>3 DEF ModAdd, ModEject
  <2> QED BY <1>0, <2>1 DEF StartedIsClaimed
<1>4. CASE Patch
  BY <1>1, <1>3, <1>4 DEF Patch, PortConnect, PortDisconnect, Dirty
<1>5. ASSUME NEW t \in Threads, Claim(t) PROVE StartedIsClaimed'
  <2>1. CASE cur[t] \in Mods
    <3>1. runs[cur[t]] = 0
      BY <1>0, <1>5, <2>1 DEF StartedIsClaimed, Claim
    <3>2. /\ refCount' = [refCount EXCEPT ![cur[t]] = -1]
          /\ runs' = [runs EXCEPT ![cur[t]] = @ + 1]
      BY <1>5 DEF Claim
    <3>3. runs'[cur[t]] = 1 /\ refCount'[cur[t]] < 0
      BY <1>0, <2>1, <3>1, <3>2
    <3>4. \A m \in Mods \ {cur[t]} : runs'[m] = runs[m] /\ refCount'[m] = refCount[m]
      BY <1>0, <3>2
    <3> QED BY <3>3, <3>4 DEF StartedIsClaimed
  <2>2. CASE cur[t] \notin Mods
    <3>1. \A m \in Mods : runs'[m] = runs[m] /\ refCount'[m] = refCount[m]
      BY <1>0, <1>5, <2>2 DEF Claim
    <3> QED BY <3>1 DEF StartedIsClaimed
  <2> QED BY <2>1, <2>2
<1>6. ASSUME NEW t \in Threads, SubSink(t) PROVE StartedIsClaimed'
  <2> DEFINE x == sinks[cur[t]][idx[t]]
  <2>1. refCount' = [refCount EXCEPT ![x] = @ - 1] /\ runs' = runs
    BY <1>6 DEF SubSink, ghosts
  <2>2. \A m \in Mods : refCount'[m] <= refCount[m] /\ refCount'[m] \in Int
    <3> HIDE DEF x
    <3> QED BY <1>0, <2>1
  <2> HIDE DEF x
  <2> QED BY <1>0, <2>1, <2>2 DEF StartedIsClaimed
<1>7. ASSUME NEW t \in Threads, Work(t) PROVE StartedIsClaimed'
  BY <1>1, <1>5, <1>6, <1>7
  DEF Work, ReorderClear, ReorderAdd, ReorderReturn, Spin, SkipClaimed, SkipLater,
      RampCut, RunEnd, SubReturn, ghosts
<1>8. CASE Master
  BY <1>1, <1>2, <1>8
  DEF Master, WakeSlave, WaitOne, EndReset, EndPlain, EndReweight, FreePost,
      FreeWait, FreeJoin, Forget, ghosts
<1>9. ASSUME NEW s \in Slaves, Slave(s) PROVE StartedIsClaimed'
  BY <1>1, <1>9 DEF Slave, SlaveWake, SlavePost, SlaveCheck, ghosts
<1>10. CASE ParallelStart
  BY <1>2, <1>10 DEF ParallelStart
<1>11. CASE SerialPeriod \/ FreeKill \/ WaitTimeout \/ XrunReport
  BY <1>1, <1>11 DEF SerialPeriod, FreeKill, WaitTimeout, XrunReport, ghosts
<1>12. CASE UNCHANGED vars \/ Freed
  BY <1>1, <1>12 DEF vars, ghosts, Freed
<1> QED BY <1>4, <1>7, <1>8, <1>9, <1>10, <1>11, <1>12 DEF Next

(* _dsp_slave_fetch: however the threads are scheduled, and whatever is    *)
(* patched, cut or shut down in between, no module is started twice in a   *)
(* period.                                                                 *)
THEOREM RunOnce == Spec => []RunAtMostOnce
<1>1. Init => StartedIsClaimed
  BY DEF Init, StartedIsClaimed
<1>2. TypeOK /\ StartedIsClaimed /\ [Next]_vars => StartedIsClaimed'
  BY StartedIsClaimedStep
<1>3. StartedIsClaimed => RunAtMostOnce
  BY DEF StartedIsClaimed, RunAtMostOnce
<1> QED BY <1>1, <1>2, <1>3, TypeCorrect, PTL DEF Spec

-------------------------------------------------------------------------------
(* Between two periods the realtime thread has the graph to itself.  The   *)
(* proof counts: each slave that was woken and has not reported back holds *)
(* one of the posts the realtime thread still has to collect.              *)

(* Thread t is on its way through _dsp_slave_spin. *)
Working(t) ==
  \/ pc[t] \in {"spin", "cas", "run", "sub"}
  \/ pc[t] \in {"clear", "add"} /\ cur[t] # None

(* It has a module at hand where it needs one. *)
AtHand == \A t \in Threads : pc[t] \in {"cas", "run", "sub"} => cur[t] \in Mods

(* Slave s was woken and has not reported back. *)
IsBusy(s) == slaveSem[s] > 0 \/ Working(s) \/ pc[s] = "done"

Busy == {s \in Slaves : IsBusy(s)}

(* How many reports the realtime thread has yet to collect. *)
Owed == IF pc[0] = "post" THEN cnt ELSE IF InPeriod THEN num - cnt ELSE 0

SlavesInOrder ==
  \A s \in Slaves :
    /\ pc[s] \in {"sleep", "check", "done"} \/ Working(s)
    /\ slaveSem[s] \in {0, 1}
    /\ slaveSem[s] = 1 => pc[s] \in {"sleep", "check"}

MasterInOrder ==
  /\ \/ pc[0] \in {"idle", "end", "clear", "add"} /\ cur[0] = None
     \/ pc[0] \in {"post", "wait"} \/ Working(0)
  /\ InPeriod => cnt < num

Account ==
  /\ masterSem + Cardinality(Busy) = Owed
  /\ pc[0] = "post" => \A s \in Busy : s <= cnt

ExclusiveInv == ~kill => AtHand /\ SlavesInOrder /\ MasterInOrder /\ Account

LEMMA InPeriodIs == InPeriod <=> pc[0] \in {"post", "wait"} \/ Working(0)
BY DEF InPeriod, Working

LEMMA InPeriodIsNext ==
  InPeriod' <=> pc'[0] \in {"post", "wait"} \/ Working(0)'
BY DEF InPeriod, Working

LEMMA BusyFinite == IsFiniteSet(Busy) /\ Cardinality(Busy) \in Nat
<1>1. IsFiniteSet(Slaves)
  BY FS_Interval, 1 \in Int, NumSlaves \in Int DEF Slaves
<1>2. Busy \subseteq Slaves
  BY DEF Busy
<1>3. IsFiniteSet(Busy)
  BY <1>1, <1>2, FS_Subset
<1> QED BY <1>3, FS_CardinalityType

(* Slaves that do not move are as busy as before. *)
LEMMA BusySame ==
  ASSUME \A s \in Slaves : IsBusy(s)' <=> IsBusy(s)
  PROVE  Busy' = Busy
<1>1. \A s : s \in Busy' <=> s \in Busy
  BY DEF Busy
<1> QED BY <1>1

LEMMA AdvanceEffect ==
  ASSUME TypeOK, NEW t \in Threads, NEW h, Advance(t, h)
  PROVE  /\ pc'[t] \in {"cas", "spin", IF t = 0 THEN "wait" ELSE "done"}
         /\ pc'[t] = "cas" => cur'[t] \in Mods
         /\ \A u \in Threads \ {t} : pc'[u] = pc[u] /\ cur'[u] = cur[u]
<1> DEFINE m == FirstFrom(cur[t] + 1)
<1>0. /\ pc \in [Threads -> Steps] /\ cur \in [Threads -> Mods \union {None}]
      /\ mods \subseteq Mods
  BY DEF TypeOK
<1>1. cur[t] + 1 \in Nat
  BY <1>0 DEF Mods, None
<1>2. m \in Mods \union {PastEnd}
  BY <1>0, <1>1, FirstFromFact
<1>3. CASE m # PastEnd
  <2>1. Goto(t, "cas", m, h) /\ m \in Mods
    BY <1>2, <1>3 DEF Advance
  <2> HIDE DEF m
  <2> QED BY <1>0, <2>1 DEF Goto
<1>4. CASE m = PastEnd /\ h = None
  <2>1. Leave(t)
    BY <1>4 DEF Advance
  <2> QED BY <1>0, <2>1 DEF Leave, Goto
<1>5. CASE m = PastEnd /\ h # None
  <2>1. Goto(t, "spin", None, h)
    BY <1>5 DEF Advance
  <2> QED BY <1>0, <2>1 DEF Goto
<1> QED BY <1>3, <1>4, <1>5

(* A thread's work keeps it on its way or takes it out of the pass, and    *)
(* touches no semaphore and no other thread.                               *)
LEMMA WorkEffect ==
  ASSUME TypeOK, NEW t \in Threads, Work(t),
         pc[t] \in {"cas", "run", "sub"} => cur[t] \in Mods
  PROVE  /\ UNCHANGED <<kill, sems>>
         /\ \A u \in Threads \ {t} : pc'[u] = pc[u] /\ cur'[u] = cur[u]
         /\ pc'[t] \in {"cas", "run", "sub"} => cur'[t] \in Mods
         /\ \/ /\ Working(t)
               /\ Working(t)' \/ pc'[t] = IF t = 0 THEN "wait" ELSE "done"
            \/ /\ pc[t] \in {"clear", "add"} /\ cur[t] = None
               /\ pc'[t] \in {"add", "idle"} /\ cur'[t] = None
<1>0. /\ pc \in [Threads -> Steps] /\ cur \in [Threads -> Mods \union {None}]
      /\ mods \subseteq Mods /\ head \in [Threads -> Mods \union {None, 1}]
  BY DEF TypeOK
<1>1. UNCHANGED <<kill, sems>>
  BY DEF Work, ReorderClear, ReorderAdd, ReorderReturn, Spin, Claim, SkipClaimed,
         SkipLater, RampCut, RunEnd, SubSink, SubReturn, flags
<1>2. None \notin Mods
  BY DEF None, Mods
<1>3. CASE ReorderClear(t) \/ ReorderAdd(t)
  BY <1>0, <1>1, <1>3 DEF ReorderClear, ReorderAdd, At, Working
<1>4. CASE ReorderReturn(t)
  BY <1>0, <1>1, <1>4 DEF ReorderReturn, At, Working
<1>5. CASE Spin(t)
  <2>1. head[t] \in Nat
    BY <1>0 DEF Mods, None
  <2>2. FirstFrom(head[t]) \in Mods \union {PastEnd}
    BY <1>0, <2>1, FirstFromFact
  <2> QED BY <1>0, <1>1, <1>5, <2>2 DEF Spin, At, Leave, Goto, Working
<1>6. CASE Claim(t) \/ RampCut(t) \/ RunEnd(t)
  BY <1>0, <1>1, <1>2, <1>6 DEF Claim, RampCut, RunEnd, Step, At, Goto, Working
<1>7. CASE SubSink(t)
  BY <1>0, <1>1, <1>7 DEF SubSink, At, Working
<1>8. CASE SkipClaimed(t) \/ SkipLater(t) \/ SubReturn(t)
  <2>1. PICK h : Advance(t, h)
    BY <1>8 DEF SkipClaimed, SkipLater, SubReturn
  <2>2. Working(t)
    BY <1>8 DEF SkipClaimed, SkipLater, SubReturn, At, Working
  <2> QED BY <1>1, <2>1, <2>2, AdvanceEffect DEF Working
<1> QED BY <1>3, <1>4, <1>5, <1>6, <1>7, <1>8 DEF Work

LEMMA ExclusiveInit == Init => ExclusiveInv
<1> SUFFICES ASSUME Init PROVE ExclusiveInv
  OBVIOUS
<1>1. pc[0] = "idle" /\ cur[0] = None
  BY ZeroThread DEF Init
<1>2. \A s \in Slaves : pc[s] = "sleep" /\ slaveSem[s] = 0
  BY ZeroThread DEF Init, Slaves
<1>3. Busy = {}
  BY <1>2 DEF Busy, IsBusy, Working
<1>4. Cardinality(Busy) = 0
  BY <1>3, FS_EmptySet
<1>5. ~InPeriod
  BY <1>1 DEF InPeriod
<1>6. Account
  BY <1>1, <1>4, <1>5 DEF Account, Owed, Init
<1>7. AtHand
  BY DEF Init, AtHand
<1> QED BY <1>1, <1>2, <1>5, <1>6, <1>7 DEF ExclusiveInv, SlavesInOrder, MasterInOrder

(* A step of a thread through its pass leaves the account as it is. *)
LEMMA ExclusiveWork ==
  ASSUME TypeOK, AtHand, SlavesInOrder, MasterInOrder, Account,
         NEW t \in Threads, Work(t)
  PROVE  AtHand' /\ SlavesInOrder' /\ MasterInOrder' /\ Account'
<1>0. /\ UNCHANGED <<kill, sems>>
      /\ \A u \in Threads \ {t} : pc'[u] = pc[u] /\ cur'[u] = cur[u]
      /\ pc'[t] \in {"cas", "run", "sub"} => cur'[t] \in Mods
      /\ \/ /\ Working(t)
            /\ Working(t)' \/ pc'[t] = IF t = 0 THEN "wait" ELSE "done"
         \/ /\ pc[t] \in {"clear", "add"} /\ cur[t] = None
            /\ pc'[t] \in {"add", "idle"} /\ cur'[t] = None
  BY WorkEffect DEF AtHand
<1>1. \A u \in Threads \ {t} : Working(u)' <=> Working(u)
  BY <1>0 DEF Working
<1>2. AtHand'
  BY <1>0 DEF AtHand
<1>3. 0 \in Threads /\ 0 \notin Slaves /\ \A s \in Slaves : s \in Threads /\ s # 0
  BY DEF Threads, Slaves
<1>4. SlavesInOrder' /\ \A s \in Slaves : IsBusy(s)' <=> IsBusy(s)
  <2>1. CASE t = 0
    BY <1>0, <1>1, <1>3, <2>1 DEF SlavesInOrder, IsBusy, sems
  <2>2. CASE t # 0
    <3>1. t \in Slaves
      BY <2>2 DEF Threads, Slaves
    <3>2. Working(t) /\ (Working(t)' \/ pc'[t] = "done")
      BY <1>0, <2>2, <3>1 DEF SlavesInOrder, Working
    <3>3. slaveSem[t] = 0
      BY <3>1, <3>2 DEF SlavesInOrder, Working
    <3> QED BY <1>0, <1>1, <1>3, <3>1, <3>2, <3>3 DEF SlavesInOrder, IsBusy, sems
  <2> QED BY <2>1, <2>2
<1>5. MasterInOrder' /\ (InPeriod' <=> InPeriod) /\ (pc'[0] = "post" <=> pc[0] = "post")
  <2>1. CASE t = 0
    <3>1. CASE Working(0)
      <4>1. InPeriod /\ InPeriod' /\ pc[0] # "post" /\ pc'[0] # "post"
        BY <1>0, <2>1, <3>1, InPeriodIs, InPeriodIsNext DEF Working
      <4> QED BY <1>0, <2>1, <3>1, <4>1 DEF MasterInOrder, sems
    <3>2. CASE ~Working(0)
      <4>1. /\ pc[0] \in {"clear", "add"} /\ cur[0] = None
            /\ pc'[0] \in {"add", "idle"} /\ cur'[0] = None
        BY <1>0, <2>1, <3>2
      <4>2. ~InPeriod /\ ~InPeriod' /\ pc[0] # "post" /\ pc'[0] # "post"
        BY <4>1 DEF InPeriod
      <4> QED BY <4>1, <4>2 DEF MasterInOrder
    <3> QED BY <3>1, <3>2
  <2>2. CASE t # 0
    <3>1. pc'[0] = pc[0] /\ cur'[0] = cur[0] /\ UNCHANGED <<num, cnt>>
      BY <1>0, <1>3, <2>2 DEF sems
    <3>2. Working(0)' <=> Working(0)
      BY <1>1, <1>3, <2>2
    <3>3. InPeriod' <=> InPeriod
      BY <3>1, <3>2, InPeriodIs, InPeriodIsNext
    <3> QED BY <3>1, <3>2, <3>3 DEF MasterInOrder
  <2> QED BY <2>1, <2>2
<1>6. Busy' = Busy
  BY <1>4, BusySame
<1>7. Account'
  BY <1>0, <1>5, <1>6 DEF Account, Owed, sems
<1> QED BY <1>2, <1>4, <1>5, <1>7

(* A slave takes the post it was woken with, and gives it back.            *)
LEMMA ExclusiveSlave ==
  ASSUME TypeOK, ~kill, AtHand, SlavesInOrder, MasterInOrder, Account,
         NEW s \in Slaves, Slave(s)
  PROVE  AtHand' /\ SlavesInOrder' /\ MasterInOrder' /\ Account'
<1>0. /\ pc \in [Threads -> Steps] /\ cur \in [Threads -> Mods \union {None}]
      /\ slaveSem \in [Slaves -> Nat] /\ masterSem \in Nat
      /\ num \in Nat /\ cnt \in Nat
      /\ s \in Threads /\ s # 0 /\ 0 \in Threads /\ \A u \in Slaves : u \in Threads
  BY DEF TypeOK, Slaves, Threads
<1>1. /\ UNCHANGED <<kill, num, cnt>>
      /\ \A u \in Threads \ {s} : pc'[u] = pc[u] /\ cur'[u] = cur[u]
      /\ pc'[s] \in {"spin", "check", "sleep"}
  BY <1>0 DEF Slave, SlaveWake, SlavePost, SlaveCheck, Step, Goto, flags, sems
<1>2. AtHand'
  BY <1>1 DEF AtHand
<1>3. \A u \in Threads \ {s} : Working(u)' <=> Working(u)
  BY <1>1 DEF Working
<1>4. /\ InPeriod' <=> InPeriod
      /\ pc'[0] = pc[0] /\ cur'[0] = cur[0] /\ (Working(0)' <=> Working(0))
  BY <1>0, <1>1, <1>3, InPeriodIs, InPeriodIsNext
<1>5. MasterInOrder'
  BY <1>1, <1>4 DEF MasterInOrder
<1>6. Owed' = Owed
  BY <1>1, <1>4 DEF Owed
<1>7. CASE SlaveWake(s)
  <2>1. /\ slaveSem[s] = 1 /\ slaveSem' = [slaveSem EXCEPT ![s] = 0]
        /\ pc'[s] = "spin" /\ masterSem' = masterSem
    <3>1. slaveSem[s] = 1
      BY <1>0, <1>7 DEF SlaveWake, SlavesInOrder
    <3>2. slaveSem' = [slaveSem EXCEPT ![s] = slaveSem[s] - 1]
      BY <1>7 DEF SlaveWake
    <3> QED BY <1>0, <1>7, <3>1, <3>2 DEF SlaveWake, Goto
  <2>2. SlavesInOrder'
    BY <1>0, <1>1, <1>3, <2>1 DEF SlavesInOrder, Working
  <2>3. \A u \in Slaves : IsBusy(u)' <=> IsBusy(u)
    BY <1>0, <1>1, <1>3, <2>1 DEF IsBusy, Working
  <2>4. Busy' = Busy
    BY <2>3, BusySame
  <2>5. Account'
    BY <1>1, <1>4, <1>6, <2>1, <2>4 DEF Account
  <2> QED BY <1>2, <1>5, <2>2, <2>5
<1>8. CASE SlavePost(s)
  <2>1. /\ pc[s] = "done" /\ pc'[s] = "check"
        /\ masterSem' = masterSem + 1 /\ slaveSem' = slaveSem
    BY <1>0, <1>8 DEF SlavePost, Step, At, Goto
  <2>2. slaveSem[s] = 0
    BY <2>1 DEF SlavesInOrder
  <2>3. SlavesInOrder'
    BY <1>0, <1>1, <1>3, <2>1, <2>2 DEF SlavesInOrder, Working
  <2>4. Busy' = Busy \ {s} /\ s \in Busy
    <3>1. \A u \in Slaves \ {s} : IsBusy(u)' <=> IsBusy(u)
      BY <1>0, <1>1, <1>3, <2>1 DEF IsBusy
    <3>2. IsBusy(s) /\ ~IsBusy(s)'
      BY <2>1, <2>2 DEF IsBusy, Working
    <3>3. \A u : u \in Busy' <=> u \in Busy \ {s}
      BY <3>1, <3>2 DEF Busy
    <3> QED BY <3>2, <3>3 DEF Busy
  <2>5. Cardinality(Busy') = Cardinality(Busy) - 1
    BY <2>4, BusyFinite, FS_RemoveElement
  <2>6. Account'
    BY <1>0, <1>1, <1>4, <1>6, <2>1, <2>4, <2>5, BusyFinite DEF Account
  <2> QED BY <1>2, <1>5, <2>3, <2>6
<1>9. CASE SlaveCheck(s)
  <2>1. /\ pc[s] = "check" /\ pc'[s] = "sleep" /\ UNCHANGED <<masterSem, slaveSem>>
    BY <1>0, <1>9 DEF SlaveCheck, Step, At, Goto, sems
  <2>2. SlavesInOrder'
    BY <1>0, <1>1, <1>3, <2>1 DEF SlavesInOrder
  <2>3. \A u \in Slaves : IsBusy(u)' <=> IsBusy(u)
    BY <1>0, <1>1, <1>3, <2>1 DEF IsBusy, Working
  <2>4. Busy' = Busy
    BY <2>3, BusySame
  <2>5. Account'
    BY <1>1, <1>4, <1>6, <2>1, <2>4 DEF Account
  <2> QED BY <1>2, <1>5, <2>2, <2>5
<1> QED BY <1>7, <1>8, <1>9 DEF Slave

(* A step of the realtime thread that wakes no slave and collects no post. *)
LEMMA ExclusiveQuiet ==
  ASSUME TypeOK, AtHand, SlavesInOrder, Account, NEW to, Owed = 0,
         pc[0] # "post", pc'[0] = to, to \in {"idle", "clear", "end"},
         cur'[0] = None, UNCHANGED <<masterSem, slaveSem>>,
         \A u \in Slaves : pc'[u] = pc[u] /\ cur'[u] = cur[u]
  PROVE  AtHand' /\ SlavesInOrder' /\ MasterInOrder' /\ Account'
<1>1. Threads = Slaves \union {0} /\ 0 \notin Slaves
  BY DEF Threads, Slaves
<1>2. \A u \in Slaves : Working(u)' <=> Working(u)
  BY DEF Working
<1>3. ~InPeriod'
  BY DEF InPeriod
<1>4. Busy' = Busy
  BY <1>2, BusySame DEF IsBusy
<1>5. Account'
  BY <1>3, <1>4 DEF Account, Owed
<1> QED BY <1>1, <1>2, <1>3, <1>5 DEF AtHand, SlavesInOrder, MasterInOrder

LEMMA ExclusivePost ==
  ASSUME TypeOK, AtHand, SlavesInOrder, MasterInOrder, Account, WakeSlave
  PROVE  AtHand' /\ SlavesInOrder' /\ MasterInOrder' /\ Account'
<1>0. /\ pc \in [Threads -> Steps] /\ cur \in [Threads -> Mods \union {None}]
      /\ slaveSem \in [Slaves -> Nat] /\ masterSem \in Nat
      /\ num \in 0 .. NumSlaves /\ cnt \in 0 .. NumSlaves
      /\ Threads = Slaves \union {0} /\ 0 \notin Slaves
  BY DEF TypeOK, Slaves, Threads
<1>1. pc[0] = "post" /\ InPeriod /\ cnt < num
  BY DEF WakeSlave, At, InPeriod, MasterInOrder
<1>2. PICK s \in Slaves : s = cnt + 1 /\ ~IsBusy(s)
  <2>1. cnt + 1 \in Slaves
    BY <1>0, <1>1 DEF Slaves
  <2>2. cnt + 1 \notin Busy
    BY <1>0, <1>1 DEF Account
  <2> QED BY <2>1, <2>2 DEF Busy
<1>3. slaveSem[s] = 0 /\ pc[s] \in {"sleep", "check"}
  BY <1>0, <1>2 DEF SlavesInOrder, IsBusy
<1>4. /\ slaveSem' = [slaveSem EXCEPT ![s] = slaveSem[s] + 1]
      /\ masterSem' = masterSem /\ num' = num
      /\ \A u \in Slaves : pc'[u] = pc[u] /\ cur'[u] = cur[u]
  BY <1>0, <1>2 DEF WakeSlave, Goto, thread
<1>5. slaveSem'[s] = 1 /\ \A u \in Slaves \ {s} : slaveSem'[u] = slaveSem[u]
  BY <1>0, <1>2, <1>3, <1>4
<1>6. /\ \/ pc'[0] = "post" /\ cnt' = cnt + 1 /\ cnt + 1 < num
         \/ pc'[0] = "spin" /\ cnt' = 0 /\ cnt + 1 = num
  BY <1>0, <1>1 DEF WakeSlave, Goto, thread
<1>7. SlavesInOrder'
  BY <1>3, <1>4, <1>5 DEF SlavesInOrder, Working
<1>8. AtHand'
  BY <1>0, <1>4, <1>6 DEF AtHand
<1>9. InPeriod' /\ MasterInOrder'
  BY <1>0, <1>1, <1>4, <1>6 DEF MasterInOrder, InPeriod, Working
<1>10. Busy' = Busy \union {s} /\ s \notin Busy
  <2>1. \A u \in Slaves \ {s} : IsBusy(u)' <=> IsBusy(u)
    BY <1>4, <1>5 DEF IsBusy, Working
  <2>2. IsBusy(s)'
    BY <1>5 DEF IsBusy
  <2>3. \A u : u \in Busy' <=> u \in Busy \union {s}
    BY <1>2, <2>1, <2>2 DEF Busy
  <2> QED BY <1>2, <2>3 DEF Busy
<1>11. Cardinality(Busy') = Cardinality(Busy) + 1
  BY <1>10, BusyFinite, FS_AddElement
<1>12. masterSem' + Cardinality(Busy') = Owed'
  BY <1>0, <1>1, <1>4, <1>6, <1>9, <1>11, BusyFinite DEF Account, Owed
<1>13. pc'[0] = "post" => \A u \in Busy' : u <= cnt'
  <2>1. \A u \in Busy : u \in Nat
    BY DEF Busy, Slaves
  <2> QED BY <1>0, <1>1, <1>6, <1>2, <1>10, <2>1 DEF Account
<1>14. Account'
  BY <1>12, <1>13 DEF Account
<1> QED BY <1>7, <1>8, <1>9, <1>14

LEMMA ExclusiveWait ==
  ASSUME TypeOK, AtHand, SlavesInOrder, MasterInOrder, Account, WaitOne
  PROVE  AtHand' /\ SlavesInOrder' /\ MasterInOrder' /\ Account'
<1>0. /\ pc \in [Threads -> Steps] /\ cur \in [Threads -> Mods \union {None}]
      /\ masterSem \in Nat /\ num \in Nat /\ cnt \in Nat
      /\ Threads = Slaves \union {0} /\ 0 \notin Slaves
  BY DEF TypeOK, Slaves, Threads
<1>1. pc[0] = "wait" /\ InPeriod /\ cnt < num /\ masterSem > 0
  BY DEF WaitOne, At, InPeriod, MasterInOrder
<1>2. /\ masterSem' = masterSem - 1 /\ slaveSem' = slaveSem
      /\ \A u \in Slaves : pc'[u] = pc[u] /\ cur'[u] = cur[u]
  BY <1>0 DEF WaitOne, Goto, thread
<1>3. \/ pc'[0] = "wait" /\ cnt' = cnt + 1 /\ num' = num /\ cnt + 1 < num
      \/ pc'[0] = "end" /\ cur'[0] = None /\ cnt + 1 = num
  BY <1>0, <1>1 DEF WaitOne, Goto, thread
<1>4. SlavesInOrder'
  BY <1>2 DEF SlavesInOrder, Working
<1>5. Busy' = Busy
  BY <1>2, BusySame DEF IsBusy, Working
<1>6. AtHand'
  BY <1>0, <1>2, <1>3 DEF AtHand
<1>7. MasterInOrder' /\ Account'
  <2>1. CASE pc'[0] = "wait"
    BY <1>0, <1>1, <1>2, <1>3, <1>5, <2>1, BusyFinite
    DEF MasterInOrder, Account, Owed, InPeriod
  <2>2. CASE pc'[0] = "end"
    BY <1>0, <1>1, <1>2, <1>3, <1>5, <2>2, BusyFinite
    DEF MasterInOrder, Account, Owed, InPeriod
  <2> QED BY <1>3, <2>1, <2>2
<1> QED BY <1>4, <1>6, <1>7

LEMMA ExclusiveStart ==
  ASSUME TypeOK, AtHand, SlavesInOrder, MasterInOrder, Account, ParallelStart
  PROVE  AtHand' /\ SlavesInOrder' /\ MasterInOrder' /\ Account'
<1>0. /\ pc \in [Threads -> Steps] /\ cur \in [Threads -> Mods \union {None}]
      /\ masterSem \in Nat /\ concurrent \in Nat
      /\ Threads = Slaves \union {0} /\ 0 \notin Slaves
  BY DEF TypeOK, Slaves, Threads
<1>1. /\ pc[0] = "idle" /\ pc'[0] = "post" /\ UNCHANGED <<masterSem, slaveSem, cur>>
      /\ \A u \in Slaves : pc'[u] = pc[u]
  BY <1>0 DEF ParallelStart, Step, At, Goto
<1>2. cnt' = 0 /\ num' > 0
  BY <1>0 DEF ParallelStart, MinOf
<1>3. ~InPeriod
  BY <1>1 DEF InPeriod
<1>4. Busy' = Busy
  BY <1>1, BusySame DEF IsBusy, Working
<1>5. Cardinality(Busy) = 0 /\ masterSem = 0
  BY <1>0, <1>1, <1>3, BusyFinite DEF Account, Owed
<1>6. Busy = {}
  BY <1>5, BusyFinite, FS_EmptySet
<1>7. Account'
  BY <1>1, <1>2, <1>4, <1>5, <1>6 DEF Account, Owed
<1>8. AtHand' /\ SlavesInOrder' /\ MasterInOrder'
  BY <1>0, <1>1, <1>2 DEF AtHand, SlavesInOrder, MasterInOrder, Working
<1> QED BY <1>7, <1>8

LEMMA ExclusiveStep ==
  ASSUME TypeOK, ExclusiveInv, [Next]_vars
  PROVE  ExclusiveInv'
<1> SUFFICES ASSUME ~kill'
             PROVE  AtHand' /\ SlavesInOrder' /\ MasterInOrder' /\ Account'
  BY DEF ExclusiveInv
<1>0. /\ pc \in [Threads -> Steps] /\ cur \in [Threads -> Mods \union {None}]
      /\ Threads = Slaves \union {0} /\ 0 \notin Slaves
  BY DEF TypeOK, Slaves, Threads
<1>a. ~FreeKill
  BY DEF FreeKill
<1>b. ~kill
  <2>1. kill' = kill
    BY <1>a DEF Next, Patch, ModAdd, ModEject, PortConnect, PortDisconnect, Dirty,
      BetweenPeriods, ParallelStart, SerialPeriod, Master, WakeSlave, WaitOne,
      EndReset, EndPlain, EndReweight, FreePost, FreeWait, FreeJoin, WaitTimeout,
      XrunReport, Work, ReorderClear, ReorderAdd, ReorderReturn, Spin, Claim,
      SkipClaimed, SkipLater, RampCut, RunEnd, SubSink, SubReturn, Slave, SlaveWake,
      SlavePost, SlaveCheck, Freed, vars, flags
  <2> QED BY <2>1
<1>c. AtHand /\ SlavesInOrder /\ MasterInOrder /\ Account
  BY <1>b DEF ExclusiveInv
<1>1. ASSUME NEW from \in {"idle", "end"}, NEW to \in {"idle", "clear", "end"},
             Step(0, from, to), UNCHANGED <<masterSem, slaveSem>>
      PROVE  AtHand' /\ SlavesInOrder' /\ MasterInOrder' /\ Account'
  <2>1. /\ pc[0] = from /\ pc'[0] = to /\ cur'[0] = cur[0]
        /\ \A u \in Slaves : pc'[u] = pc[u] /\ cur'[u] = cur[u]
    BY <1>0, <1>1 DEF Step, At, Goto
  <2>2. cur[0] = None /\ ~InPeriod
    BY <1>c, <2>1 DEF MasterInOrder, InPeriod, Working
  <2>3. Owed = 0 /\ pc[0] # "post"
    BY <2>1, <2>2 DEF Owed
  <2> QED BY <1>1, <1>c, <2>1, <2>2, <2>3, ExclusiveQuiet
<1>2. ASSUME UNCHANGED <<sems, pc, cur>>
      PROVE  AtHand' /\ SlavesInOrder' /\ MasterInOrder' /\ Account'
  <2>1. Busy' = Busy
    BY <1>2, BusySame DEF IsBusy, Working, sems
  <2> QED BY <1>2, <1>c, <2>1 DEF AtHand, SlavesInOrder, MasterInOrder, Account,
                                  Owed, InPeriod, Working, sems
<1>3. CASE Patch
  BY <1>1, <1>3 DEF Patch, ModAdd, ModEject, PortConnect, PortDisconnect, Dirty,
                    BetweenPeriods, sems
<1>4. CASE ParallelStart
  BY <1>4, <1>c, ExclusiveStart
<1>5. CASE SerialPeriod
  BY <1>1, <1>5 DEF SerialPeriod, sems
<1>6. CASE Master
  <2>1. CASE WakeSlave
    BY <1>c, <2>1, ExclusivePost
  <2>2. CASE WaitOne
    BY <1>c, <2>2, ExclusiveWait
  <2>3. CASE EndReset \/ EndPlain \/ EndReweight
    BY <1>1, <2>3 DEF EndReset, EndPlain, EndReweight, sems
  <2>4. ~FreePost /\ ~FreeWait /\ ~FreeJoin
    BY <1>c DEF FreePost, FreeWait, FreeJoin, At, Step, MasterInOrder, Working
  <2> QED BY <1>6, <2>1, <2>2, <2>3, <2>4 DEF Master
<1>7. CASE WaitTimeout \/ XrunReport
  BY <1>2, <1>7 DEF WaitTimeout, XrunReport, thread
<1>8. ASSUME NEW t \in Threads, Work(t)
      PROVE  AtHand' /\ SlavesInOrder' /\ MasterInOrder' /\ Account'
  BY <1>8, <1>c, ExclusiveWork
<1>9. ASSUME NEW s \in Slaves, Slave(s)
      PROVE  AtHand' /\ SlavesInOrder' /\ MasterInOrder' /\ Account'
  BY <1>9, <1>b, <1>c, ExclusiveSlave
<1>10. CASE Freed \/ UNCHANGED vars
  BY <1>2, <1>10 DEF Freed, vars, thread
<1> QED BY <1>3, <1>4, <1>5, <1>6, <1>7, <1>8, <1>9, <1>10, <1>a DEF Next

LEMMA ExclusiveInvariant == Spec => []ExclusiveInv
<1>1. Init => ExclusiveInv
  BY ExclusiveInit
<1>2. TypeOK /\ ExclusiveInv /\ [Next]_vars => ExclusiveInv'
  BY ExclusiveStep
<1> QED BY <1>1, <1>2, TypeCorrect, PTL DEF Spec

LEMMA ExclusiveGives == TypeOK /\ ExclusiveInv => GraphExclusive
<1> SUFFICES ASSUME TypeOK, ExclusiveInv, ~kill, ~InPeriod PROVE GraphExclusive
  BY DEF GraphExclusive
<1>1. masterSem + Cardinality(Busy) = 0 /\ SlavesInOrder
  BY DEF ExclusiveInv, Account, Owed, InPeriod
<1>2. masterSem = 0 /\ Cardinality(Busy) = 0
  BY <1>1, BusyFinite DEF TypeOK
<1>3. \A s \in Slaves : ~IsBusy(s)
  BY <1>2, BusyFinite, FS_EmptySet DEF Busy
<1>4. \A s \in Slaves : slaveSem[s] = 0 /\ pc[s] \in {"sleep", "check"}
  BY <1>1, <1>3 DEF SlavesInOrder, IsBusy
<1> QED BY <1>2, <1>4 DEF GraphExclusive

(* _dsp_master_wait: until the engine is freed, no slave touches the patch *)
(* while the realtime thread changes it, and no post is left over for the  *)
(* next period, whatever the threads' order and however late a slave is.   *)
THEOREM Exclusive == Spec => []GraphExclusive
BY ExclusiveGives, TypeCorrect, ExclusiveInvariant, PTL
===============================================================================
