---------------------------- MODULE DspOrderProofs ----------------------------
(***************************************************************************)
(* The order of a period: a module runs only after the modules that feed   *)
(* it, the period ends only when every module has run, and it does not get *)
(* stuck.  The proof says of each module which of its sources still owe it *)
(* a decrement of its reference count.                                     *)
(***************************************************************************)
EXTENDS DspGraphProofs

USE NumModsAssumption, NumSlavesAssumption

(* Only connections that follow the rank order are faded out.  A cut of    *)
(* any other leaves the order of the graph as it is, but makes a thread    *)
(* that is decrementing counts lose its place in the list.                 *)
RampsInOrder == \A e \in RampEdges : e[1] < e[2]

(* The thread has claimed its module and not yet given it up. *)
Holding == {"run", "clear", "add", "sub"}

(* The lists lead nowhere the plan of the period does not. *)
Planned ==
  /\ \A e \in plan : e[1] \in mods /\ e[2] \in mods /\ e[1] < e[2]
  /\ \A n \in Mods : \A m \in Links(n) : <<n, m>> \in plan
  /\ Clearing => \A n \in Mods : Connected(n) \subseteq Listed(n)
  /\ RampsInOrder /\ (Clearing \/ Adding) => ForwardEdges # plan

(* A module is in the hands of one thread at most, which has claimed it. *)
Held ==
  /\ \A t \in Threads : pc[t] \in Holding => cur[t] \in mods /\ refCount[cur[t]] < 0
  /\ \A t \in Threads : pc[t] = "cas" => cur[t] \in mods
  /\ \A t \in Threads : pc[t] = "sub" => idx[t] >= 1
  /\ \A t, u \in Threads :
       pc[t] \in Holding /\ pc[u] \in Holding /\ cur[t] = cur[u] => t = u

(* A thread has run module n and is on its way to decrement m's count. *)
WillTell(t, n, m) ==
  pc[t] = "sub" /\ cur[t] = n /\ m \in Links(n) /\ idx[t] <= Place(n, m)

(* Module n has not run yet, or m has not been told. *)
Owes(n, m) ==
  /\ <<n, m>> \in plan
  /\ \/ refCount[n] >= 0
     \/ \E t \in Threads : RunsModule(t, n) \/ WillTell(t, n, m)

Owers(m) == {n \in mods : Owes(n, m)}

(* A count is at least the number of modules that still owe a decrement;   *)
(* it falls short of it never, and exceeds it only when a cut has taken    *)
(* the module from a list before its turn.                                 *)
Counted ==
  \A m \in mods :
    IF refCount[m] < 0 THEN refCount[m] = -1 /\ Owers(m) = {}
                       ELSE refCount[m] >= Cardinality(Owers(m))

Exact ==
  RampsInOrder /\ ForwardEdges = plan =>
    \A m \in mods : refCount[m] <= Cardinality(Owers(m))

Started == \A m \in Mods : runs[m] = IF m \in mods /\ refCount[m] < 0 THEN 1 ELSE 0

PeriodOrder == Planned /\ Held /\ Counted /\ Exact /\ Started

PeriodInv == InPeriod => PeriodOrder

-------------------------------------------------------------------------------
(* Facts about the definitions. *)

LEMMA OwersFinite ==
  ASSUME mods \subseteq Mods, NEW m
  PROVE  /\ Owers(m) \subseteq Mods /\ IsFiniteSet(Owers(m))
         /\ Cardinality(Owers(m)) \in Nat
<1>1. Owers(m) \in SUBSET Mods
  BY DEF Owers
<1> QED BY <1>1, ModsFinite

(* Two modules of a list have different places. *)
LEMMA PlaceApart ==
  ASSUME NEW n, NEW m \in Links(n), NEW k \in Links(n), m # k
  PROVE  Place(n, m) # Place(n, k)
<1>0. Links(n) \subseteq Mods /\ IsFiniteSet(Links(n)) /\ \A j \in Mods : j \in Nat
  BY LinksFinite DEF Mods
<1>1. ASSUME NEW a \in Links(n), NEW b \in Links(n), a < b
      PROVE  Place(n, a) # Place(n, b)
  <2> DEFINE A == {j \in Links(n) : j <= a}
             B == {j \in Links(n) : j <= b}
  <2>1. A \in SUBSET B /\ b \in B /\ b \notin A
    BY <1>0, <1>1
  <2>2. IsFiniteSet(B)
    <3>1. B \in SUBSET Links(n)
      OBVIOUS
    <3> HIDE DEF B
    <3> QED BY <1>0, <3>1, FS_Subset
  <2>3. Cardinality(A) # Cardinality(B)
    <3> HIDE DEF A, B
    <3> QED BY <2>1, <2>2, FS_Subset
  <2> QED BY <2>3 DEF Place
<1>2. m < k \/ k < m
  BY <1>0
<1> QED BY <1>1, <1>2

(* A place is at least 1, and at most the number of the links. *)
LEMMA PlaceBounds ==
  ASSUME NEW n, NEW m \in Links(n)
  PROVE  1 <= Place(n, m) /\ Place(n, m) <= Cardinality(Links(n))
<1> DEFINE P == {j \in Links(n) : j <= m}
<1>0. Links(n) \subseteq Mods /\ IsFiniteSet(Links(n)) /\ \A j \in Mods : j \in Nat
  BY LinksFinite DEF Mods
<1>1. P \in SUBSET Links(n) /\ m \in P
  BY <1>0
<1>2. IsFiniteSet(P) /\ Cardinality(P) <= Cardinality(Links(n)) /\ P # {}
  <2> HIDE DEF P
  <2> QED BY <1>0, <1>1, FS_Subset
<1>3. Cardinality(P) # 0 /\ Cardinality(P) \in Nat
  <2> HIDE DEF P
  <2> QED BY <1>2, FS_EmptySet, FS_CardinalityType
<1>4. 1 <= Cardinality(P)
  <2> HIDE DEF P
  <2> QED BY <1>3
<1> QED BY <1>2, <1>4 DEF Place

(* With the thread that reorders, everything is as the patch has it. *)
LEMMA QuietLinks ==
  ASSUME TypeOK, GraphInv, ~Clearing, ~Adding
  PROVE  \A n \in Mods : Links(n) = Connected(n) /\ Listed(n) = Connected(n)
<1>1. BuiltTo(PastEnd)
  BY DEF GraphInv, Built
<1>2. \A n : \A m \in Connected(n) : m < PastEnd
  BY DEF Connected, Mods, PastEnd
<1>3. \A n \in Mods : Listed(n) = Connected(n)
  BY <1>1, <1>2 DEF BuiltTo
<1> QED BY <1>3 DEF Links

LEMMA ListedLinks ==
  ASSUME TypeOK, GraphInv
  PROVE  \A n \in Mods : Listed(n) \subseteq Links(n)
<1>1. CASE Adding
  <2>1. PICK t \in Threads : pc[t] = "add"
    BY <1>1 DEF Adding
  <2>2. BuiltTo(idx[t])
    BY <2>1 DEF GraphInv, Built
  <2> QED BY <1>1, <2>2 DEF BuiltTo, Links
<1>2. CASE ~Adding
  BY <1>2 DEF Links
<1> QED BY <1>1, <1>2

(* A thread that decrements a count has been owing it. *)
LEMMA Telling ==
  ASSUME TypeOK, GraphInv, PeriodOrder, NEW t \in Threads, pc[t] = "sub",
         idx[t] <= Len(sinks[cur[t]])
  PROVE  \E m \in mods :
           /\ m = sinks[cur[t]][idx[t]]
           /\ m \in Links(cur[t]) /\ Place(cur[t], m) = idx[t]
           /\ <<cur[t], m>> \in plan /\ cur[t] \in Owers(m)
           /\ refCount[m] >= 1 /\ refCount[m] >= Cardinality(Owers(m))
<1>0. /\ cur[t] \in mods /\ mods \subseteq Mods /\ idx[t] \in Nat /\ idx[t] >= 1
      /\ sinks \in [Mods -> Seq(Mods)] /\ refCount \in [Mods -> Int]
  BY DEF TypeOK, PeriodOrder, Held, Holding
<1>1. PICK n \in Mods : n = cur[t]
  BY <1>0
<1>2. PICK i \in 1 .. Len(sinks[n]) : i = idx[t]
  BY <1>0, <1>1
<1>3. PICK m \in Mods : m = sinks[n][i]
  BY <1>0, <1>1, <1>2
<1>4. m \in Links(n) /\ Place(n, m) = i
  <2>1. m \in Listed(n)
    BY <1>2, <1>3 DEF Listed
  <2> QED BY <1>1, <1>2, <1>3, <2>1, ListedLinks DEF GraphInv, Ordered
<1>5. <<n, m>> \in plan
  BY <1>1, <1>4 DEF PeriodOrder, Planned
<1>6. m \in mods
  BY <1>5 DEF PeriodOrder, Planned
<1>7. n \in Owers(m)
  <2>1. WillTell(t, n, m)
    BY <1>1, <1>2, <1>4 DEF WillTell
  <2> QED BY <1>0, <1>1, <1>5, <2>1 DEF Owers, Owes
<1>8. refCount[m] >= Cardinality(Owers(m))
  BY <1>0, <1>6, <1>7 DEF PeriodOrder, Counted
<1>9. Cardinality(Owers(m)) # 0
  BY <1>0, <1>7, OwersFinite, FS_EmptySet
<1>10. refCount[m] >= 1
  BY <1>0, <1>3, <1>8, <1>9, OwersFinite
<1> QED BY <1>1, <1>2, <1>3, <1>4, <1>5, <1>6, <1>7, <1>8, <1>10
(* Counts that stay where they are, when no module owes more than before;  *)
(* and counts that do not go up, when no module owes less.                 *)
LEMMA CountedKept ==
  ASSUME TypeOK, Counted, mods' = mods,
         \A m \in mods : refCount'[m] = refCount[m],
         \A n, m \in Mods : Owes(n, m)' => Owes(n, m)
  PROVE  Counted'
<1>0. mods \subseteq Mods /\ refCount \in [Mods -> Int]
  BY DEF TypeOK
<1>1. ASSUME NEW m \in mods
      PROVE  Owers(m)' \subseteq Owers(m) /\ Cardinality(Owers(m)') <= Cardinality(Owers(m))
  <2>1. Owers(m)' \in SUBSET Owers(m)
    BY <1>0 DEF Owers
  <2>2. IsFiniteSet(Owers(m))
    BY <1>0, OwersFinite
  <2> QED BY <2>1, <2>2, FS_Subset
<1>2. \A m \in mods : Cardinality(Owers(m)) \in Nat /\ Cardinality(Owers(m)') \in Nat
  <2>1. \A m \in mods : Owers(m)' \in SUBSET Mods /\ Owers(m) \in SUBSET Mods
    BY <1>0, <1>1, OwersFinite
  <2> QED BY <2>1, ModsFinite
<1> QED BY <1>0, <1>1, <1>2 DEF Counted

LEMMA ExactKept ==
  ASSUME TypeOK, mods' = mods, NEW m \in mods, refCount'[m] \in Int,
         refCount'[m] <= refCount[m], refCount[m] <= Cardinality(Owers(m)),
         \A n \in Mods : Owes(n, m) => Owes(n, m)'
  PROVE  refCount'[m] <= Cardinality(Owers(m)')
<1>0. mods \subseteq Mods /\ refCount \in [Mods -> Int]
  BY DEF TypeOK
<1>1. Owers(m) \in SUBSET (Owers(m)') /\ Owers(m)' \in SUBSET Mods
  BY <1>0 DEF Owers
<1>2. IsFiniteSet(Owers(m)') /\ Cardinality(Owers(m)') \in Nat
  BY <1>1, ModsFinite
<1>3. Cardinality(Owers(m)) <= Cardinality(Owers(m)')
  BY <1>1, <1>2, FS_Subset
<1> QED BY <1>0, <1>2, <1>3, OwersFinite

-------------------------------------------------------------------------------
(* One step after the other. *)

(* Threads that hold no module come and go. *)
LEMMA PeriodSame ==
  ASSUME TypeOK, PeriodOrder, UNCHANGED <<graph, refCount, plan, runs>>,
         \A u \in Threads :
           \/ pc'[u] = pc[u] /\ cur'[u] = cur[u] /\ idx'[u] = idx[u]
           \/ pc[u] \notin Holding /\ pc'[u] \notin Holding
                /\ (pc'[u] = "cas" => cur'[u] \in mods)
  PROVE  PeriodOrder'
<1>1. (Clearing' <=> Clearing) /\ (Adding' <=> Adding)
  BY DEF Clearing, Adding, Holding
<1>2. \A n : /\ Connected(n)' = Connected(n) /\ Listed(n)' = Listed(n)
             /\ Links(n)' = Links(n) /\ \A m : Place(n, m)' = Place(n, m)
  BY <1>1, LinksSame DEF graph
<1>3. ForwardEdges' = ForwardEdges /\ mods' = mods
  BY DEF ForwardEdges, graph
<1>4. Planned'
  BY <1>1, <1>2, <1>3 DEF PeriodOrder, Planned
<1>5. Held'
  BY <1>3 DEF PeriodOrder, Held, Holding
<1>6. \A n, m : Owes(n, m)' <=> Owes(n, m)
  <2>1. \A u \in Threads : \A n : RunsModule(u, n)' <=> RunsModule(u, n)
    BY DEF RunsModule, Holding
  <2>2. \A u \in Threads : \A n, m : WillTell(u, n, m)' <=> WillTell(u, n, m)
    BY <1>2 DEF WillTell, Holding
  <2> QED BY <2>1, <2>2 DEF Owes
<1>7. \A m : Owers(m)' = Owers(m)
  BY <1>3, <1>6 DEF Owers
<1>8. Counted' /\ Exact'
  BY <1>3, <1>7 DEF PeriodOrder, Counted, Exact
<1>9. Started'
  BY <1>3 DEF PeriodOrder, Started
<1> QED BY <1>4, <1>5, <1>8, <1>9 DEF PeriodOrder

(* A module goes from those that have not run to those that run. *)
LEMMA PeriodClaim ==
  ASSUME TypeOK, PeriodOrder, NEW t \in Threads, Claim(t)
  PROVE  PeriodOrder'
<1>0. /\ mods \subseteq Mods /\ refCount \in [Mods -> Int] /\ runs \in [Mods -> Nat]
      /\ pc \in [Threads -> Steps] /\ cur \in [Threads -> Mods \union {None}]
  BY DEF TypeOK
<1>1. PICK c \in mods : c = cur[t]
  BY DEF PeriodOrder, Held, Claim, Step, At
<1>2. /\ pc[t] = "cas" /\ pc'[t] = "run" /\ cur'[t] = c
      /\ \A u \in Threads \ {t} : pc'[u] = pc[u] /\ cur'[u] = cur[u]
      /\ UNCHANGED <<graph, idx, plan>>
  BY <1>0, <1>1 DEF Claim, Step, At, Goto
<1>3. /\ refCount[c] = 0 /\ refCount'[c] = -1 /\ runs'[c] = runs[c] + 1
      /\ \A m \in Mods \ {c} : refCount'[m] = refCount[m] /\ runs'[m] = runs[m]
  BY <1>0, <1>1 DEF Claim
<1>4. (Clearing' <=> Clearing) /\ (Adding' <=> Adding)
  BY <1>2 DEF Clearing, Adding
<1>5. \A n : /\ Connected(n)' = Connected(n) /\ Listed(n)' = Listed(n)
             /\ Links(n)' = Links(n) /\ \A m : Place(n, m)' = Place(n, m)
  BY <1>2, <1>4, LinksSame DEF graph
<1>6. ForwardEdges' = ForwardEdges /\ mods' = mods
  BY <1>2 DEF ForwardEdges, graph
<1>7. Planned'
  BY <1>2, <1>4, <1>5, <1>6 DEF PeriodOrder, Planned
<1>8. \A u \in Threads : pc[u] \in Holding => cur[u] # c
  BY <1>3 DEF PeriodOrder, Held
<1>9. Held'
  <2>1. \A u \in Threads : pc'[u] \in Holding => cur'[u] \in mods /\ refCount'[cur'[u]] < 0
    BY <1>0, <1>1, <1>2, <1>3 DEF PeriodOrder, Held
  <2>2. \A u \in Threads : pc'[u] = "cas" => cur'[u] \in mods
    BY <1>2 DEF PeriodOrder, Held
  <2>3. \A u, w \in Threads :
          pc'[u] \in Holding /\ pc'[w] \in Holding /\ cur'[u] = cur'[w] => u = w
    BY <1>2, <1>8 DEF PeriodOrder, Held
  <2>4. \A u \in Threads : pc'[u] = "sub" => idx'[u] >= 1
    BY <1>2 DEF PeriodOrder, Held
  <2> QED BY <1>6, <2>1, <2>2, <2>3, <2>4 DEF Held
<1>10. \A n, m \in Mods : Owes(n, m)' <=> Owes(n, m)
  <2>1. \A u \in Threads, n \in Mods : RunsModule(u, n)' <=>
                                        (RunsModule(u, n) \/ (u = t /\ n = c))
    BY <1>2 DEF RunsModule
  <2>2. \A u \in Threads, n, m \in Mods : WillTell(u, n, m)' <=> WillTell(u, n, m)
    BY <1>2, <1>5 DEF WillTell
  <2>3. \A n \in Mods : (refCount'[n] >= 0 \/ n = c) <=> refCount[n] >= 0
    BY <1>0, <1>1, <1>3
  <2> QED BY <1>2, <2>1, <2>2, <2>3 DEF Owes
<1>11. \A m \in mods : Owers(m)' = Owers(m)
  BY <1>0, <1>6, <1>10 DEF Owers
<1>12. Owers(c) = {}
  <2>1. Cardinality(Owers(c)) <= 0
    BY <1>1, <1>3 DEF PeriodOrder, Counted
  <2>2. Cardinality(Owers(c)) = 0 /\ IsFiniteSet(Owers(c))
    BY <1>0, <2>1, OwersFinite
  <2> QED BY <2>2, FS_EmptySet
<1>13. Counted'
  BY <1>0, <1>1, <1>3, <1>6, <1>11, <1>12 DEF PeriodOrder, Counted
<1>14. Exact'
  <2>1. \A m \in mods : refCount'[m] <= refCount[m] /\ refCount'[m] \in Int
    BY <1>0, <1>1, <1>3
  <2>2. \A m \in mods : Cardinality(Owers(m)) \in Nat
    BY <1>0, OwersFinite
  <2> QED BY <1>0, <1>2, <1>6, <1>11, <2>1, <2>2 DEF PeriodOrder, Exact
<1>15. Started'
  BY <1>0, <1>1, <1>3, <1>6 DEF PeriodOrder, Started
<1> QED BY <1>7, <1>9, <1>13, <1>14, <1>15 DEF PeriodOrder

(* A module's run function returns: its sinks are to be told. *)
LEMMA PeriodRunEnd ==
  ASSUME TypeOK, GraphInv, PeriodOrder, NEW t \in Threads, RunEnd(t)
  PROVE  PeriodOrder'
<1>0. /\ mods \subseteq Mods /\ refCount \in [Mods -> Int] /\ runs \in [Mods -> Nat]
      /\ pc \in [Threads -> Steps] /\ cur \in [Threads -> Mods \union {None}]
      /\ idx \in [Threads -> Nat]
  BY DEF TypeOK
<1>1. PICK c \in mods : c = cur[t]
  BY DEF PeriodOrder, Held, Holding, RunEnd, At
<1>2. /\ pc[t] = "run" /\ pc'[t] = "sub" /\ cur' = cur /\ idx'[t] = 1
      /\ \A u \in Threads \ {t} : pc'[u] = pc[u] /\ idx'[u] = idx[u]
      /\ UNCHANGED <<graph, plan, refCount, runs>>
  BY <1>0 DEF RunEnd, At, Goto, ghosts
<1>4. (Clearing' <=> Clearing) /\ (Adding' <=> Adding)
  BY <1>2 DEF Clearing, Adding
<1>5. \A n : /\ Connected(n)' = Connected(n) /\ Listed(n)' = Listed(n)
             /\ Links(n)' = Links(n) /\ \A m : Place(n, m)' = Place(n, m)
  BY <1>2, <1>4, LinksSame DEF graph
<1>6. ForwardEdges' = ForwardEdges /\ mods' = mods
  BY <1>2 DEF ForwardEdges, graph
<1>7. Planned'
  BY <1>2, <1>4, <1>5, <1>6 DEF PeriodOrder, Planned
<1>8. Held'
  BY <1>2, <1>6 DEF PeriodOrder, Held, Holding
<1>9. \A u \in Threads : \A n : RunsModule(u, n)' <=> (RunsModule(u, n) /\ u # t)
  BY <1>2 DEF RunsModule
<1>10. \A u \in Threads \ {t} : \A n, m : WillTell(u, n, m)' <=> WillTell(u, n, m)
  BY <1>2, <1>5 DEF WillTell
<1>11. RunsModule(t, c)
  BY <1>1, <1>2 DEF RunsModule
<1>12. \A n, m : WillTell(t, n, m)' => n = c
  BY <1>1, <1>2 DEF WillTell
<1>13. \A n, m \in Mods : Owes(n, m)' => Owes(n, m)
  BY <1>2, <1>9, <1>10, <1>11, <1>12 DEF Owes
<1>14. Counted'
  BY <1>2, <1>6, <1>13, CountedKept DEF PeriodOrder
<1>15. Exact'
  <2> SUFFICES ASSUME RampsInOrder, ForwardEdges = plan, NEW m \in mods
               PROVE  refCount'[m] <= Cardinality(Owers(m)')
    BY <1>2, <1>6 DEF Exact
  <2>1. ~Clearing /\ ~Adding
    BY DEF PeriodOrder, Planned
  <2>2. \A n \in Mods : <<n, m>> \in plan => m \in Links(n)
    BY <1>0, <2>1, QuietLinks DEF ForwardEdges, Connected
  <2>3. \A n \in Mods : <<n, m>> \in plan => 1 <= Place(n, m)
    BY <2>2, PlaceBounds
  <2>4. <<c, m>> \in plan => WillTell(t, c, m)'
    BY <1>0, <1>1, <1>2, <1>5, <2>2, <2>3 DEF WillTell
  <2>5. \A n : RunsModule(t, n) => n = c
    BY <1>1 DEF RunsModule
  <2>6. \A n, k : ~WillTell(t, n, k)
    BY <1>2 DEF WillTell
  <2>7. \A n \in Mods : Owes(n, m) => Owes(n, m)'
    BY <1>2, <1>9, <1>10, <2>4, <2>5, <2>6 DEF Owes
  <2>8. refCount[m] <= Cardinality(Owers(m))
    BY DEF PeriodOrder, Exact
  <2>9. refCount'[m] \in Int /\ refCount'[m] <= refCount[m]
    BY <1>0, <1>2
  <2> QED BY <1>6, <2>7, <2>8, <2>9, ExactKept
<1>16. Started'
  BY <1>2, <1>6 DEF PeriodOrder, Started
<1> QED BY <1>7, <1>8, <1>14, <1>15, <1>16 DEF PeriodOrder
(* One sink is told: it is owed one decrement less. *)
LEMMA PeriodSubSink ==
  ASSUME TypeOK, GraphInv, PeriodOrder, NEW t \in Threads, SubSink(t)
  PROVE  PeriodOrder'
<1>0. /\ mods \subseteq Mods /\ refCount \in [Mods -> Int] /\ runs \in [Mods -> Nat]
      /\ pc \in [Threads -> Steps] /\ cur \in [Threads -> Mods \union {None}]
      /\ idx \in [Threads -> Nat]
  BY DEF TypeOK
<1>a. pc[t] = "sub" /\ idx[t] <= Len(sinks[cur[t]])
  BY DEF SubSink, At
<1>1. PICK c \in mods : c = cur[t]
  BY <1>a DEF PeriodOrder, Held, Holding
<1>b. PICK i \in Nat : i = idx[t]
  BY <1>0
<1>2. PICK k \in mods : /\ k = sinks[c][i]
                        /\ k \in Links(c) /\ Place(c, k) = i
                        /\ <<c, k>> \in plan /\ c \in Owers(k)
                        /\ refCount[k] >= 1 /\ refCount[k] >= Cardinality(Owers(k))
  BY <1>a, <1>1, <1>b, Telling
<1>3. /\ pc' = pc /\ cur' = cur /\ idx'[t] = i + 1
      /\ \A u \in Threads \ {t} : idx'[u] = idx[u]
      /\ UNCHANGED <<graph, plan, runs>>
  BY <1>0, <1>b DEF SubSink, ghosts
<1>4. /\ refCount'[k] = refCount[k] - 1
      /\ \A m \in Mods \ {k} : refCount'[m] = refCount[m]
  BY <1>0, <1>1, <1>b, <1>2 DEF SubSink
<1>5. (Clearing' <=> Clearing) /\ (Adding' <=> Adding)
  BY <1>3 DEF Clearing, Adding
<1>6. \A n : /\ Connected(n)' = Connected(n) /\ Listed(n)' = Listed(n)
             /\ Links(n)' = Links(n) /\ \A m : Place(n, m)' = Place(n, m)
  BY <1>3, <1>5, LinksSame DEF graph
<1>7. ForwardEdges' = ForwardEdges /\ mods' = mods
  BY <1>3 DEF ForwardEdges, graph
<1>8. Planned'
  BY <1>3, <1>5, <1>6, <1>7 DEF PeriodOrder, Planned
<1>9. \A m \in mods : /\ refCount'[m] <= refCount[m] /\ refCount'[m] \in Int
                      /\ refCount'[m] >= 0 <=> refCount[m] >= 0
  BY <1>0, <1>2, <1>4
<1>10. Held'
  <2>1. \A u \in Threads : pc'[u] \in Holding => cur'[u] \in mods /\ refCount'[cur'[u]] < 0
    BY <1>0, <1>3, <1>9 DEF PeriodOrder, Held
  <2>2. \A u \in Threads : pc'[u] = "sub" => idx'[u] >= 1
    BY <1>3, <1>b DEF PeriodOrder, Held
  <2> QED BY <1>3, <1>7, <2>1, <2>2 DEF PeriodOrder, Held
<1>11. \A u \in Threads : \A n : RunsModule(u, n)' <=> RunsModule(u, n)
  BY <1>3 DEF RunsModule
<1>12. \A u \in Threads \ {t} : \A n, m : WillTell(u, n, m)' <=> WillTell(u, n, m)
  BY <1>3, <1>6 DEF WillTell
<1>p. \A n, m : Place(n, m) \in Nat
  BY PlaceType
<1>13. \A n, m : WillTell(t, n, m)' <=> n = c /\ m \in Links(n) /\ i + 1 <= Place(n, m)
  BY <1>1, <1>3, <1>6, <1>a DEF WillTell
<1>14. \A n, m : WillTell(t, n, m) <=> n = c /\ m \in Links(n) /\ i <= Place(n, m)
  BY <1>1, <1>b, <1>a DEF WillTell
<1>15. \A n, m : WillTell(t, n, m)' => WillTell(t, n, m)
  BY <1>13, <1>14, <1>p
<1>16. \A n \in mods : \A m : Owes(n, m)' => Owes(n, m)
  BY <1>3, <1>9, <1>11, <1>12, <1>15 DEF Owes
<1>17. ~Owes(c, k)'
  <2>1. refCount'[c] < 0
    BY <1>1, <1>3, <1>10, <1>a DEF Held, Holding
  <2>2. \A u \in Threads : pc[u] \in Holding /\ cur[u] = c => u = t
    BY <1>1, <1>a DEF PeriodOrder, Held, Holding
  <2>3. \A u \in Threads : ~RunsModule(u, c)'
    BY <1>3, <1>a, <2>2 DEF RunsModule, Holding
  <2>4. \A u \in Threads \ {t} : ~WillTell(u, c, k)
    BY <2>2 DEF WillTell, Holding
  <2>5. ~WillTell(t, c, k)'
    BY <1>2, <1>13
  <2>6. ~(refCount'[c] >= 0)
    BY <1>0, <1>1, <1>9, <2>1
  <2> QED BY <1>12, <2>3, <2>4, <2>5, <2>6 DEF Owes
<1>18. \A m \in mods : /\ Owers(m) \in SUBSET Mods /\ Owers(m)' \in SUBSET Mods
                       /\ Owers(m)' \in SUBSET Owers(m)
                       /\ Cardinality(Owers(m)) \in Nat /\ Cardinality(Owers(m)') \in Nat
  <2>1. \A m \in mods : Owers(m)' \in SUBSET Owers(m)
    BY <1>7, <1>16 DEF Owers
  <2>2. \A m \in mods : Owers(m) \in SUBSET Mods /\ Owers(m)' \in SUBSET Mods
    BY <1>0, <2>1, OwersFinite
  <2> QED BY <2>1, <2>2, ModsFinite
<1>19. /\ Owers(k)' \in SUBSET (Owers(k) \ {c})
       /\ IsFiniteSet(Owers(k) \ {c})
       /\ Cardinality(Owers(k) \ {c}) = Cardinality(Owers(k)) - 1
  <2>1. c \notin Owers(k)'
    BY <1>17 DEF Owers
  <2>2. IsFiniteSet(Owers(k))
    BY <1>0, OwersFinite
  <2> QED BY <1>2, <1>18, <2>1, <2>2, FS_RemoveElement
<1>20. Counted'
  <2>1. Cardinality(Owers(k)') <= Cardinality(Owers(k)) - 1
    BY <1>19, FS_Subset
  <2>2. refCount'[k] >= 0 /\ refCount'[k] >= Cardinality(Owers(k)')
    BY <1>0, <1>2, <1>4, <1>18, <2>1
  <2>3. ASSUME NEW m \in mods, m # k
        PROVE  /\ refCount'[m] = refCount[m]
               /\ Owers(m)' \in SUBSET Owers(m)
               /\ Cardinality(Owers(m)') <= Cardinality(Owers(m))
    <3>1. IsFiniteSet(Owers(m))
      BY <1>0, OwersFinite
    <3> QED BY <1>0, <1>4, <1>18, <2>3, <3>1, FS_Subset
  <2>4. ASSUME NEW m \in mods
        PROVE  IF refCount'[m] < 0 THEN refCount'[m] = -1 /\ Owers(m)' = {}
                                   ELSE refCount'[m] >= Cardinality(Owers(m)')
    <3>1. CASE m = k
      BY <1>9, <2>2, <3>1
    <3>2. CASE m # k
      BY <1>0, <1>18, <2>3, <3>2 DEF PeriodOrder, Counted
    <3> QED BY <3>1, <3>2
  <2> QED BY <1>7, <2>4 DEF Counted
<1>21. Exact'
  <2> SUFFICES ASSUME RampsInOrder, ForwardEdges = plan, NEW m \in mods
               PROVE  refCount'[m] <= Cardinality(Owers(m)')
    BY <1>3, <1>7 DEF Exact
  <2>1. refCount[m] <= Cardinality(Owers(m))
    BY DEF PeriodOrder, Exact
  <2>2. ASSUME NEW n \in Mods, Owes(n, m), ~(n = c /\ m = k)
        PROVE  Owes(n, m)'
    <3>1. CASE n = c /\ WillTell(t, n, m)
      <4>1. m \in Links(c) /\ m # k /\ i <= Place(c, m)
        BY <1>14, <2>2, <3>1
      <4>2. Place(c, m) # i
        BY <1>2, <4>1, PlaceApart
      <4>3. WillTell(t, n, m)'
        BY <1>13, <1>p, <3>1, <4>1, <4>2
      <4> QED BY <1>3, <2>2, <4>3 DEF Owes
    <3>2. CASE ~WillTell(t, n, m) /\ n \in mods
      BY <1>3, <1>9, <1>11, <1>12, <2>2, <3>2 DEF Owes
    <3>3. WillTell(t, n, m) => n = c
      BY <1>14
    <3>4. n \in mods
      BY <2>2 DEF Owes, PeriodOrder, Planned
    <3> QED BY <3>1, <3>2, <3>3, <3>4
  <2>3. CASE m # k
    BY <1>7, <1>9, <2>1, <2>2, <2>3, ExactKept
  <2>4. CASE m = k
    <3>1. (Owers(k) \ {c}) \in SUBSET (Owers(k)')
      BY <1>0, <1>7, <2>2, <2>4 DEF Owers
    <3>2. IsFiniteSet(Owers(k)')
      BY <1>18, ModsFinite
    <3>3. Cardinality(Owers(k) \ {c}) <= Cardinality(Owers(k)')
      BY <3>1, <3>2, FS_Subset
    <3> QED BY <1>0, <1>4, <1>18, <1>19, <2>1, <2>4, <3>3
  <2> QED BY <2>3, <2>4
<1>22. Started'
  <2>1. \A m \in mods : refCount'[m] < 0 <=> refCount[m] < 0
    BY <1>0, <1>9
  <2> QED BY <1>3, <1>7, <2>1 DEF PeriodOrder, Started
<1> QED BY <1>8, <1>10, <1>20, <1>21, <1>22 DEF PeriodOrder

(* All sinks have been told: the thread lets go of its module. *)
LEMMA PeriodSubReturn ==
  ASSUME TypeOK, GraphInv, PeriodOrder, NEW t \in Threads, SubReturn(t)
  PROVE  PeriodOrder'
<1>0. /\ mods \subseteq Mods /\ refCount \in [Mods -> Int] /\ runs \in [Mods -> Nat]
      /\ pc \in [Threads -> Steps] /\ idx \in [Threads -> Nat]
      /\ sinks \in [Mods -> Seq(Mods)]
  BY DEF TypeOK
<1>1. PICK c \in mods : c = cur[t]
  BY DEF PeriodOrder, Held, Holding, SubReturn, At
<1>2. /\ \A u \in Threads \ {t} : pc'[u] = pc[u] /\ cur'[u] = cur[u] /\ idx'[u] = idx[u]
      /\ pc'[t] \notin Holding /\ (pc'[t] = "cas" => cur'[t] \in mods)
      /\ UNCHANGED <<graph, refCount, plan, runs>>
  <2>1. Advance(t, head[t])
    BY DEF SubReturn
  <2>2. UNCHANGED <<graph, refCount, ghosts>> /\ \A u \in Threads \ {t} : idx'[u] = idx[u]
    BY <1>0 DEF SubReturn
  <2> QED BY <2>1, <2>2, AdvanceGoes DEF Holding, ghosts
<1>3. pc[t] = "sub" /\ idx[t] > Len(sinks[c])
  BY <1>1 DEF SubReturn, At
<1>4. (Clearing' <=> Clearing) /\ (Adding' <=> Adding)
  BY <1>2, <1>3 DEF Clearing, Adding, Holding
<1>5. \A n : /\ Connected(n)' = Connected(n) /\ Listed(n)' = Listed(n)
             /\ Links(n)' = Links(n) /\ \A m : Place(n, m)' = Place(n, m)
  BY <1>2, <1>4, LinksSame DEF graph
<1>6. ForwardEdges' = ForwardEdges /\ mods' = mods
  BY <1>2 DEF ForwardEdges, graph
<1>7. Planned'
  BY <1>2, <1>4, <1>5, <1>6 DEF PeriodOrder, Planned
<1>8. Held'
  BY <1>2, <1>6 DEF PeriodOrder, Held, Holding
<1>9. \A u \in Threads : \A n : RunsModule(u, n)' <=> RunsModule(u, n)
  BY <1>2, <1>3 DEF RunsModule, Holding
<1>10. \A u \in Threads \ {t} : \A n, m : WillTell(u, n, m)' <=> WillTell(u, n, m)
  BY <1>2, <1>5 DEF WillTell
<1>11. \A n, m : ~WillTell(t, n, m)'
  BY <1>2 DEF WillTell, Holding
<1>12. \A n, m \in Mods : Owes(n, m)' => Owes(n, m)
  BY <1>2, <1>9, <1>10, <1>11 DEF Owes
<1>13. Counted'
  BY <1>2, <1>6, <1>12, CountedKept DEF PeriodOrder
<1>14. Exact'
  <2> SUFFICES ASSUME RampsInOrder, ForwardEdges = plan, NEW m \in mods
               PROVE  refCount'[m] <= Cardinality(Owers(m)')
    BY <1>2, <1>6 DEF Exact
  <2>1. ~Adding
    BY DEF PeriodOrder, Planned
  <2>2. Cardinality(Links(c)) = Len(sinks[c])
    BY <1>0, <1>1, <2>1 DEF GraphInv, Ordered, Links
  <2>3. ~WillTell(t, c, m)
    <3>1. SUFFICES ASSUME m \in Links(c), idx[t] <= Place(c, m)
                   PROVE  FALSE
      BY DEF WillTell
    <3>2. Place(c, m) <= Cardinality(Links(c))
      BY <3>1, PlaceBounds
    <3>3. Place(c, m) \in Nat /\ Len(sinks[c]) \in Nat /\ idx[t] \in Nat
      BY <1>0, PlaceType
    <3> QED BY <1>3, <2>2, <3>1, <3>2, <3>3
  <2>4. \A n : ~WillTell(t, n, m)
    BY <1>1, <2>3 DEF WillTell
  <2>5. \A n \in Mods : Owes(n, m) => Owes(n, m)'
    BY <1>2, <1>9, <1>10, <2>4 DEF Owes
  <2>6. refCount[m] <= Cardinality(Owers(m)) /\ refCount'[m] \in Int /\ refCount'[m] <= refCount[m]
    BY <1>0, <1>2 DEF PeriodOrder, Exact
  <2> QED BY <1>6, <2>5, <2>6, ExactKept
<1>15. Started'
  BY <1>2, <1>6 DEF PeriodOrder, Started
<1> QED BY <1>7, <1>8, <1>13, <1>14, <1>15 DEF PeriodOrder
(* A thread moves on in the reordering, or into it or out of it: no module *)
(* is told or told off, but some may leave a list.                         *)
LEMMA PeriodReorder ==
  ASSUME TypeOK, PeriodOrder, NEW t \in Threads,
         pc[t] \in {"run", "clear", "add"}, pc'[t] \in {"run", "clear", "add"},
         \A u \in Threads \ {t} : pc'[u] = pc[u] /\ idx'[u] = idx[u],
         UNCHANGED <<mods, refCount, cur, plan, runs>>,
         \A n \in Mods : Links(n)' \subseteq Links(n),
         Planned', RampsInOrder => ForwardEdges' # plan
  PROVE  PeriodOrder'
<1>0. mods \subseteq Mods
  BY DEF TypeOK
<1>1. Held'
  BY DEF PeriodOrder, Held, Holding
<1>2. \A u \in Threads : \A n : RunsModule(u, n)' <=> RunsModule(u, n)
  BY DEF RunsModule
<1>3. \A n \in Mods : \A m : Place(n, m)' <= Place(n, m)
  <2> SUFFICES ASSUME NEW n \in Mods, NEW m
               PROVE  Place(n, m)' <= Place(n, m)
    OBVIOUS
  <2> DEFINE A == {j \in Links(n)' : j <= m}
             B == {j \in Links(n) : j <= m}
  <2>1. A \in SUBSET B /\ B \in SUBSET Mods
    BY LinksFinite
  <2>2. Cardinality(A) <= Cardinality(B)
    <3> HIDE DEF A, B
    <3> QED BY <2>1, ModsFinite, FS_Subset
  <2> QED BY <2>2 DEF Place
<1>4. \A u \in Threads, n \in Mods : \A m : WillTell(u, n, m)' => WillTell(u, n, m)
  <2> SUFFICES ASSUME NEW u \in Threads, NEW n \in Mods, NEW m, WillTell(u, n, m)'
               PROVE  WillTell(u, n, m)
    OBVIOUS
  <2>1. /\ pc'[u] = "sub" /\ cur'[u] = n /\ m \in Links(n)' /\ idx'[u] <= Place(n, m)'
        /\ u # t
    BY DEF WillTell
  <2>2. Links(n)' \subseteq Mods
    BY LinksFinite
  <2>3. Place(n, m) \in Nat /\ Place(n, m)' \in Nat /\ idx[u] \in Nat
    <3>1. {j \in Links(n)' : j <= m} \in SUBSET Mods
      BY <2>2
    <3>2. Place(n, m)' \in Nat
      BY <3>1, ModsFinite DEF Place
    <3> QED BY <3>2, PlaceType DEF TypeOK
  <2>4. idx[u] <= Place(n, m)
    BY <1>3, <2>1, <2>3
  <2> QED BY <2>1, <2>4 DEF WillTell
<1>5. \A n, m \in Mods : Owes(n, m)' => Owes(n, m)
  BY <1>2, <1>4 DEF Owes
<1>6. Counted'
  BY <1>5, CountedKept DEF PeriodOrder
<1>7. Exact'
  BY DEF Exact
<1>8. Started'
  BY DEF PeriodOrder, Started
<1> QED BY <1>1, <1>6, <1>7, <1>8 DEF PeriodOrder

LEMMA PeriodCut ==
  ASSUME TypeOK, GraphInv, PeriodOrder, OneReorder', NEW t \in Threads, RampCut(t)
  PROVE  PeriodOrder'
<1>0. pc \in [Threads -> Steps]
  BY DEF TypeOK
<1>1. PICK e \in RampEdges \intersect conn : conn' = conn \ {e}
  BY DEF RampCut
<1>2. /\ pc[t] = "run" /\ pc'[t] = "clear"
      /\ UNCHANGED <<mods, sinks, refCount, cur, idx, plan, runs>>
      /\ \A u \in Threads \ {t} : pc'[u] = pc[u]
  BY <1>0 DEF RampCut, Step, At, Goto, ghosts, TypeOK
<1>3. \A u \in Threads : ~Reorders(u) /\ pc'[u] # "add"
  BY <1>2 DEF OneReorder, Reorders
<1>4. ~Adding /\ ~Adding' /\ ~Clearing /\ Clearing'
  BY <1>2, <1>3 DEF Adding, Clearing, Reorders
<1>5. \A n \in Mods : Links(n) = Connected(n) /\ Listed(n) = Connected(n)
  BY <1>4, QuietLinks
<1>6. \A n \in Mods : /\ Listed(n)' = Listed(n) /\ Links(n)' = Links(n)
                      /\ Connected(n)' \subseteq Connected(n)
  BY <1>1, <1>2, <1>4, <1>5 DEF Listed, Links, Connected
<1>7. RampsInOrder => ForwardEdges' # plan
  <2> SUFFICES ASSUME RampsInOrder PROVE ForwardEdges' # plan
    OBVIOUS
  <2>1. e[1] < e[2] /\ e \in Edges /\ e = <<e[1], e[2]>> /\ e[1] \in Mods /\ e[2] \in Mods
    <3>1. e \in Mods \X Mods
      BY RampEdgesAssumption, EdgesAssumption DEF Mods
    <3> QED BY <3>1, RampEdgesAssumption DEF RampsInOrder
  <2>2. e[2] \in Connected(e[1])
    BY <2>1 DEF Connected
  <2>3. e \in plan
    BY <1>5, <2>1, <2>2 DEF PeriodOrder, Planned
  <2>4. e \notin ForwardEdges'
    BY <1>1 DEF ForwardEdges
  <2> QED BY <2>3, <2>4
<1>8. Planned'
  BY <1>2, <1>5, <1>6, <1>7 DEF PeriodOrder, Planned
<1> QED BY <1>2, <1>6, <1>7, <1>8, PeriodReorder

LEMMA PeriodClear ==
  ASSUME TypeOK, GraphInv, PeriodOrder, OneReorder, NEW t \in Threads, ReorderClear(t)
  PROVE  PeriodOrder'
<1>0. pc \in [Threads -> Steps] /\ idx \in [Threads -> Nat]
  BY DEF TypeOK
<1>1. /\ pc[t] = "clear" /\ pc'[t] = "add"
      /\ UNCHANGED <<mods, conn, refCount, cur, plan, runs>>
      /\ \A u \in Threads \ {t} : pc'[u] = pc[u] /\ idx'[u] = idx[u] /\ ~Reorders(u)
  BY <1>0 DEF ReorderClear, At, OneReorder, Reorders, ghosts
<1>2. Clearing /\ ~Adding /\ Adding' /\ ~Clearing'
  BY <1>1 DEF Adding, Clearing, Reorders
<1>3. \A n \in Mods : /\ Connected(n) \subseteq Listed(n)
                      /\ Links(n) = Listed(n) /\ Links(n)' = Connected(n)
  BY <1>1, <1>2 DEF PeriodOrder, Planned, Links, Connected
<1>4. RampsInOrder => ForwardEdges' # plan
  BY <1>1, <1>2 DEF ForwardEdges, PeriodOrder, Planned
<1>5. Planned'
  BY <1>1, <1>2, <1>3, <1>4 DEF PeriodOrder, Planned
<1> QED BY <1>1, <1>3, <1>4, <1>5, PeriodReorder

LEMMA PeriodAdd ==
  ASSUME TypeOK, GraphInv, PeriodOrder, OneReorder, NEW t \in Threads, ReorderAdd(t)
  PROVE  PeriodOrder'
<1>0. pc \in [Threads -> Steps] /\ idx \in [Threads -> Nat]
  BY DEF TypeOK
<1>1. /\ pc[t] = "add" /\ pc' = pc
      /\ UNCHANGED <<mods, conn, refCount, cur, plan, runs>>
      /\ \A u \in Threads \ {t} : idx'[u] = idx[u] /\ ~Reorders(u)
  BY <1>0 DEF ReorderAdd, At, OneReorder, Reorders, ghosts
<1>2. Adding /\ Adding' /\ ~Clearing'
  BY <1>1 DEF Adding, Clearing, Reorders
<1>3. \A n \in Mods : Links(n)' = Links(n)
  BY <1>1, <1>2 DEF Links, Connected
<1>4. RampsInOrder => ForwardEdges' # plan
  BY <1>1, <1>2 DEF ForwardEdges, PeriodOrder, Planned
<1>5. Planned'
  BY <1>1, <1>2, <1>3, <1>4 DEF PeriodOrder, Planned
<1> QED BY <1>1, <1>3, <1>4, <1>5, PeriodReorder

LEMMA PeriodReturn ==
  ASSUME TypeOK, GraphInv, PeriodOrder, OneReorder, NEW t \in Threads, ReorderReturn(t)
  PROVE  PeriodOrder'
<1>0. pc \in [Threads -> Steps] /\ idx \in [Threads -> Nat] /\ mods \subseteq Mods
  BY DEF TypeOK
<1>1. pc[t] = "add" /\ cur[t] # None
  BY <1>0 DEF ReorderReturn, At, PeriodOrder, Held, Holding, Mods, None
<1>2. /\ pc'[t] = "run"
      /\ UNCHANGED <<graph, refCount, cur, plan, runs>>
      /\ \A u \in Threads \ {t} : pc'[u] = pc[u] /\ idx'[u] = idx[u] /\ ~Reorders(u)
  BY <1>0, <1>1 DEF ReorderReturn, OneReorder, Reorders, ghosts
<1>3. Adding /\ ~Adding' /\ ~Clearing'
  BY <1>1, <1>2 DEF Adding, Clearing, Reorders
<1>4. \A n \in Mods : Links(n)' \subseteq Links(n)
  <2>1. \A n \in Mods : Links(n)' = Listed(n)
    BY <1>2, <1>3 DEF Links, Listed, graph
  <2> QED BY <2>1, ListedLinks
<1>5. RampsInOrder => ForwardEdges' # plan
  BY <1>2, <1>3 DEF ForwardEdges, PeriodOrder, Planned, graph
<1>6. Planned'
  BY <1>2, <1>3, <1>4, <1>5 DEF PeriodOrder, Planned, graph
<1> QED BY <1>1, <1>2, <1>4, <1>5, <1>6, PeriodReorder DEF graph

(* When a period starts, every source of a module owes it a decrement. *)
LEMMA PeriodStart ==
  ASSUME TypeOK, GraphInv, ParallelStart, \A s \in Slaves : pc[s] \in {"sleep", "check"}
  PROVE  PeriodOrder'
<1>0. /\ mods \subseteq Mods /\ pc \in [Threads -> Steps]
      /\ Threads = Slaves \union {0} /\ 0 \notin Slaves
      /\ numSources \in [Mods -> Nat] /\ conn \subseteq Edges
  BY DEF TypeOK, Threads, Slaves
<1>1. /\ pc[0] = "idle" /\ pc'[0] = "post"
      /\ \A s \in Slaves : pc'[s] = pc[s]
      /\ UNCHANGED graph /\ plan' = ForwardEdges /\ runs' = [m \in Mods |-> 0]
      /\ refCount' = [m \in Mods |-> IF m \in mods THEN numSources[m] ELSE refCount[m]]
  BY <1>0 DEF ParallelStart, Step, At, Goto
<1>2. \A u \in Threads : /\ pc'[u] \notin Holding \union {"cas"}
                         /\ pc[u] \notin Holding
  BY <1>0, <1>1 DEF Holding
<1>3. ~Clearing /\ ~Adding /\ ~Clearing' /\ ~Adding'
  BY <1>2 DEF Clearing, Adding, Holding
<1>4. /\ \A n \in Mods : Links(n) = Connected(n)
      /\ \A n : Links(n)' = Links(n)
      /\ ForwardEdges' = ForwardEdges /\ mods' = mods
  BY <1>1, <1>3, QuietLinks, LinksSame DEF graph, ForwardEdges
<1>5. Planned'
  <2>1. \A e \in ForwardEdges : e[1] \in mods /\ e[2] \in mods /\ e[1] < e[2]
    BY DEF ForwardEdges, GraphInv, Endpoints
  <2>2. \A n \in Mods : \A m \in Connected(n) : <<n, m>> \in ForwardEdges
    BY DEF Connected, ForwardEdges
  <2> QED BY <1>1, <1>3, <1>4, <2>1, <2>2 DEF Planned
<1>6. Held'
  BY <1>2 DEF Held, Holding
<1>7. \A m \in mods : refCount'[m] = numSources[m] /\ refCount'[m] \in Nat
  BY <1>0, <1>1
<1>8. \A m \in mods : refCount'[m] = Cardinality(SourcesOf(m))
  <2>1. BuiltTo(PastEnd)
    BY <1>3 DEF GraphInv, Built
  <2>2. \A m \in mods : m < PastEnd
    BY <1>0 DEF Mods, PastEnd
  <2> QED BY <1>7, <2>1, <2>2 DEF BuiltTo
<1>9. \A m \in mods : Owers(m)' = SourcesOf(m)
  <2> SUFFICES ASSUME NEW m \in mods, NEW n \in mods
               PROVE  Owes(n, m)' <=> n < m /\ <<n, m>> \in conn
    BY <1>4 DEF Owers, SourcesOf
  <2>1. <<n, m>> \in plan' <=> n < m /\ <<n, m>> \in conn
    BY <1>1 DEF ForwardEdges
  <2>2. refCount'[n] >= 0
    BY <1>7
  <2> QED BY <2>1, <2>2 DEF Owes
<1>10. Counted' /\ Exact'
  <2>1. \A m \in mods : refCount'[m] = Cardinality(Owers(m)') /\ refCount'[m] \in Nat
    BY <1>7, <1>8, <1>9
  <2> QED BY <1>4, <2>1 DEF Counted, Exact
<1>11. Started'
  <2>1. \A m \in mods : ~(refCount'[m] < 0)
    BY <1>7
  <2>2. \A m \in Mods : runs'[m] = 0
    BY <1>1
  <2> QED BY <1>4, <2>1, <2>2 DEF Started
<1> QED BY <1>5, <1>6, <1>10, <1>11 DEF PeriodOrder

LEMMA PeriodWork ==
  ASSUME TypeOK, GraphInv, PeriodOrder, OneReorder, OneReorder',
         NEW t \in Threads, Work(t)
  PROVE  PeriodOrder'
<1>0. pc \in [Threads -> Steps] /\ cur \in [Threads -> Mods \union {None}]
      /\ mods \subseteq Mods /\ head \in [Threads -> Mods \union {None, 1}]
  BY DEF TypeOK
<1>1. CASE Spin(t)
  <2>1. head[t] \in Nat
    BY <1>0 DEF Mods, None
  <2>2. FirstFrom(head[t]) # PastEnd => FirstFrom(head[t]) \in mods
    BY <1>0, <2>1, FirstFromFact
  <2>3. /\ pc[t] \notin Holding /\ pc'[t] \notin Holding
        /\ pc'[t] = "cas" => cur'[t] \in mods
        /\ \A u \in Threads \ {t} : pc'[u] = pc[u] /\ cur'[u] = cur[u]
    BY <1>0, <1>1, <2>2 DEF Spin, At, Leave, Goto, Holding
  <2> QED BY <1>1, <2>3, PeriodSame DEF Spin, ghosts
<1>2. CASE SkipClaimed(t) \/ SkipLater(t)
  <2>1. PICK h : Advance(t, h)
    BY <1>2 DEF SkipClaimed, SkipLater
  <2>2. /\ pc'[t] \notin Holding /\ (pc'[t] = "cas" => cur'[t] \in mods)
        /\ \A u \in Threads \ {t} : pc'[u] = pc[u] /\ cur'[u] = cur[u]
    BY <2>1, AdvanceGoes DEF Holding
  <2>3. pc[t] \notin Holding /\ UNCHANGED <<graph, refCount, idx, plan, runs>>
    BY <1>2 DEF SkipClaimed, SkipLater, At, Holding, ghosts
  <2> QED BY <2>2, <2>3, PeriodSame
<1>3. CASE RampCut(t)
  BY <1>3, PeriodCut
<1> QED BY <1>1, <1>2, <1>3, PeriodClear, PeriodAdd, PeriodReturn, PeriodClaim,
           PeriodRunEnd, PeriodSubSink, PeriodSubReturn DEF Work

(* Every step keeps the order, as long as the engine is not being freed. *)
LEMMA PeriodStep ==
  ASSUME TypeOK, ExclusiveInv, GraphInv, PeriodInv, OneReorder, OneReorder',
         ~kill, ~kill', [Next]_vars
  PROVE  PeriodInv'
<1> SUFFICES ASSUME InPeriod' PROVE PeriodOrder'
  BY DEF PeriodInv
<1>0. /\ pc \in [Threads -> Steps] /\ idx \in [Threads -> Nat]
      /\ cur \in [Threads -> Mods \union {None}]
      /\ Threads = Slaves \union {0} /\ 0 \notin Slaves
      /\ AtHand /\ SlavesInOrder /\ MasterInOrder
  BY DEF TypeOK, Threads, Slaves, ExclusiveInv
<1>1. CASE ParallelStart
  <2>1. pc[0] = "idle"
    BY <1>1 DEF ParallelStart, Step, At
  <2>2. \A s \in Slaves : pc[s] \in {"sleep", "check"}
    BY <2>1, ExclusiveGives DEF GraphExclusive, InPeriod
  <2> QED BY <1>1, <2>2, PeriodStart
<1>2. CASE Patch \/ SerialPeriod \/ EndReset \/ EndPlain \/ EndReweight
  <2>1. \/ Step(0, "idle", "clear") \/ Step(0, "idle", "end") \/ Step(0, "end", "idle")
    BY <1>2 DEF Patch, ModAdd, ModEject, PortConnect, PortDisconnect, Dirty,
                BetweenPeriods, SerialPeriod, EndReset, EndPlain, EndReweight
  <2>2. /\ pc[0] \in {"idle", "end"} /\ pc'[0] \in {"clear", "end", "idle"}
        /\ cur'[0] = cur[0]
    BY <1>0, <2>1 DEF Step, At, Goto
  <2>3. cur[0] = None
    BY <1>0, <2>2 DEF MasterInOrder, Working
  <2>4. ~InPeriod'
    BY <2>2, <2>3 DEF InPeriod
  <2> QED BY <2>4
<1>3. ASSUME NEW t \in Threads, Work(t) PROVE PeriodOrder'
  <2>1. CASE InPeriod
    BY <1>3, <2>1, PeriodWork DEF PeriodInv
  <2>2. CASE ~InPeriod
    <3>1. /\ \/ /\ Working(t)
                /\ Working(t)' \/ pc'[t] = IF t = 0 THEN "wait" ELSE "done"
             \/ /\ pc[t] \in {"clear", "add"} /\ cur[t] = None
                /\ pc'[t] \in {"add", "idle"} /\ cur'[t] = None
          /\ \A u \in Threads \ {t} : pc'[u] = pc[u] /\ cur'[u] = cur[u]
      BY <1>0, <1>3, WorkEffect DEF AtHand
    <3>2. ~Working(0)
      BY <2>2, InPeriodIs
    <3>3. t = 0
      BY <1>0, <2>2, <3>1, ExclusiveGives DEF GraphExclusive, Working
    <3>4. ~InPeriod'
      BY <3>1, <3>2, <3>3 DEF InPeriod
    <3> QED BY <3>4
  <2> QED BY <2>1, <2>2
<1>4. ASSUME UNCHANGED <<graph, refCount, plan, runs, idx>>,
             NEW t \in Threads, pc[t] \notin Holding, pc'[t] \notin Holding,
             pc'[t] # "cas", InPeriod,
             \A u \in Threads \ {t} : pc'[u] = pc[u] /\ cur'[u] = cur[u]
      PROVE  PeriodOrder'
  BY <1>4, PeriodSame DEF PeriodInv
<1>5. ASSUME NEW s \in Slaves, Slave(s) PROVE PeriodOrder'
  <2>1. /\ UNCHANGED <<graph, refCount, ghosts, idx>> /\ s \in Threads
        /\ pc[s] \notin Holding /\ pc'[s] \notin Holding \union {"cas"}
        /\ \A u \in Threads \ {s} : pc'[u] = pc[u] /\ cur'[u] = cur[u]
    BY <1>0, <1>5 DEF Slave, SlaveWake, SlavePost, SlaveCheck, Step, At, Goto, Holding
  <2>2. InPeriod
    BY <1>0, <2>1 DEF InPeriod
  <2> QED BY <1>4, <2>1, <2>2 DEF ghosts
<1>6. CASE WakeSlave \/ WaitOne
  <2>1. /\ UNCHANGED <<graph, refCount, ghosts, idx>> /\ 0 \in Threads
        /\ pc[0] \notin Holding /\ pc'[0] \notin Holding \union {"cas"}
        /\ \A u \in Threads \ {0} : pc'[u] = pc[u] /\ cur'[u] = cur[u]
        /\ pc[0] \in {"post", "wait"}
    BY <1>0, <1>6 DEF WakeSlave, WaitOne, At, Goto, Holding, thread
  <2>2. InPeriod
    BY <2>1 DEF InPeriod
  <2> QED BY <1>4, <2>1, <2>2 DEF ghosts
<1>7. CASE WaitTimeout \/ XrunReport \/ Freed \/ UNCHANGED vars
  <2>1. UNCHANGED <<graph, refCount, ghosts, thread>>
    BY <1>7 DEF WaitTimeout, XrunReport, Freed, vars
  <2>2. InPeriod
    BY <2>1 DEF InPeriod, thread
  <2> QED BY <2>1, <2>2, PeriodSame DEF PeriodInv, ghosts, thread
<1>8. ~FreePost /\ ~FreeWait /\ ~FreeJoin /\ ~FreeKill
  BY <1>0 DEF FreePost, FreeWait, FreeJoin, FreeKill, At, Step, MasterInOrder, Working
<1> QED BY <1>1, <1>2, <1>3, <1>5, <1>6, <1>7, <1>8 DEF Next, Master

-------------------------------------------------------------------------------
(* Once the engine is being freed the realtime thread runs no period.      *)

KillIsLast == kill => pc[0] \in {"kpost", "kwait", "join", "freed"}

LEMMA KillStep ==
  ASSUME TypeOK, KillIsLast, [Next]_vars
  PROVE  KillIsLast'
<1>0. pc \in [Threads -> Steps] /\ 0 \in Threads /\ 0 \notin Slaves
  BY DEF TypeOK, Threads, Slaves
<1>1. CASE FreeKill
  BY <1>0, <1>1 DEF FreeKill, Step, Goto, KillIsLast
<1>2. ASSUME kill' = kill, kill => pc'[0] \in {"kpost", "kwait", "join", "freed"}
      PROVE  KillIsLast'
  BY <1>2 DEF KillIsLast
<1>3. CASE Patch \/ ParallelStart \/ SerialPeriod \/ EndReset \/ EndPlain \/ EndReweight
           \/ WakeSlave \/ WaitOne
  BY <1>2, <1>3 DEF Patch, ModAdd, ModEject, PortConnect, PortDisconnect, Dirty,
    BetweenPeriods, ParallelStart, SerialPeriod, EndReset, EndPlain, EndReweight,
    WakeSlave, WaitOne, Step, At, KillIsLast, flags
<1>4. CASE FreePost \/ FreeWait \/ FreeJoin
  BY <1>0, <1>2, <1>4 DEF FreePost, FreeWait, FreeJoin, Step, At, Goto, KillIsLast,
    flags, thread
<1>5. ASSUME NEW t \in Threads, Work(t) PROVE KillIsLast'
  <2>1. UNCHANGED kill
    BY <1>5 DEF Work, ReorderClear, ReorderAdd, ReorderReturn, Spin, Claim, SkipClaimed,
         SkipLater, RampCut, RunEnd, SubSink, SubReturn, flags
  <2>2. CASE t = 0
    <3>1. pc[0] \in {"clear", "add", "spin", "cas", "run", "sub"}
      BY <1>5, <2>2 DEF Work, ReorderClear, ReorderAdd, ReorderReturn, Spin, Claim,
           SkipClaimed, SkipLater, RampCut, RunEnd, SubSink, SubReturn, At, Step
    <3> QED BY <1>2, <2>1, <3>1 DEF KillIsLast
  <2>3. CASE t # 0
    <3>1. CASE \E h : Advance(t, h)
      BY <1>0, <1>2, <2>1, <2>3, <3>1, AdvanceGoes DEF KillIsLast
    <3>2. CASE ~ \E h : Advance(t, h)
      <4>1. pc'[0] = pc[0]
        BY <1>0, <1>5, <2>3, <3>2 DEF Work, ReorderClear, ReorderAdd, ReorderReturn, Spin,
           Claim, SkipClaimed, SkipLater, RampCut, RunEnd, SubSink, SubReturn, Step, Goto, Leave
      <4> QED BY <1>2, <2>1, <4>1 DEF KillIsLast
    <3> QED BY <3>1, <3>2
  <2> QED BY <2>2, <2>3
<1>6. ASSUME NEW s \in Slaves, Slave(s) PROVE KillIsLast'
  BY <1>0, <1>2, <1>6 DEF Slave, SlaveWake, SlavePost, SlaveCheck, Step, Goto, KillIsLast, flags
<1>7. CASE WaitTimeout \/ XrunReport \/ Freed \/ UNCHANGED vars
  BY <1>2, <1>7 DEF WaitTimeout, XrunReport, Freed, vars, thread, flags, KillIsLast
<1> QED BY <1>1, <1>3, <1>4, <1>5, <1>6, <1>7 DEF Next, Master

LEMMA KillInvariant == Spec => []KillIsLast
<1>1. Init => KillIsLast
  BY DEF Init, KillIsLast
<1> QED BY <1>1, KillStep, TypeCorrect, PTL DEF Spec

(* The engine that is being freed stays so. *)
LEMMA KillStays == [Next]_vars /\ kill => kill'
BY DEF Next, Patch, ModAdd, ModEject, PortConnect, PortDisconnect, Dirty,
  BetweenPeriods, ParallelStart, SerialPeriod, FreeKill, Master, WakeSlave, WaitOne,
  EndReset, EndPlain, EndReweight, FreePost, FreeWait, FreeJoin, WaitTimeout,
  XrunReport, Work, ReorderClear, ReorderAdd, ReorderReturn, Spin, Claim,
  SkipClaimed, SkipLater, RampCut, RunEnd, SubSink, SubReturn, Slave, SlaveWake,
  SlavePost, SlaveCheck, Freed, vars, flags

(* The inductive invariant of a period's order. *)
OrderInv == ~kill => GraphInv /\ PeriodInv

LEMMA OrderInvariant == Spec /\ []ReordersInTurn => []OrderInv
<1>1. Init => OrderInv
  <2> SUFFICES ASSUME Init PROVE GraphInv /\ PeriodInv
    BY DEF OrderInv
  <2>1. pc[0] = "idle"
    BY ZeroThread DEF Init
  <2> QED BY <2>1, GraphInit DEF PeriodInv, InPeriod
<1>2. /\ TypeOK /\ ExclusiveInv /\ KillIsLast /\ KillIsLast' 
      /\ ReordersInTurn /\ ReordersInTurn' /\ OrderInv /\ [Next]_vars
      => OrderInv'
  <2> SUFFICES ASSUME TypeOK, ExclusiveInv, KillIsLast, ReordersInTurn, ReordersInTurn',
                      OrderInv, [Next]_vars, ~kill'
               PROVE  GraphInv' /\ PeriodInv'
    BY DEF OrderInv
  <2>1. ~kill
    BY KillStays
  <2> QED BY <2>1, GraphStep, PeriodStep DEF OrderInv, ReordersInTurn
<1> QED BY <1>1, <1>2, TypeCorrect, ExclusiveInvariant, KillInvariant, PTL DEF Spec

(* A thread that has a module in its hands is in a period. *)
LEMMA HoldingInPeriod ==
  ASSUME TypeOK, ExclusiveInv, ~kill, NEW t \in Threads, pc[t] \in Holding, cur[t] # None
  PROVE  InPeriod
<1>1. CASE t = 0
  BY <1>1 DEF InPeriod, Holding
<1>2. CASE t # 0
  <2>1. t \in Slaves
    BY <1>2 DEF Threads, Slaves
  <2> QED BY <2>1, ExclusiveGives DEF GraphExclusive, Holding
<1> QED BY <1>1, <1>2

-------------------------------------------------------------------------------
(* Connections into one module only are faded out.                         *)
OneFader == \A e, f \in RampEdges : e[2] = f[2]

(* Who reorders in a period is running a module with such a connection. *)
FaderInv ==
  ~kill => \A t \in Threads : Reorders(t) /\ cur[t] # None =>
             \E e \in RampEdges : e[2] = cur[t]

LEMMA Entering ==
  ASSUME TypeOK, [Next]_vars, NEW u \in Threads, Reorders(u)'
  PROVE  cur'[u] = cur[u] /\ (Reorders(u) \/ RampCut(u) \/ (u = 0 /\ pc[0] = "idle"))
<1>0. /\ pc \in [Threads -> Steps] /\ cur \in [Threads -> Mods \union {None}]
      /\ 0 \in Threads /\ 0 \notin Slaves /\ \A s \in Slaves : s \in Threads
  BY DEF TypeOK, Threads, Slaves
<1>1. CASE Patch
  BY <1>0, <1>1 DEF Patch, ModAdd, ModEject, PortConnect, PortDisconnect, Dirty,
    BetweenPeriods, Step, At, Goto, Reorders
<1>2. CASE ParallelStart \/ SerialPeriod \/ FreeKill
  BY <1>0, <1>2 DEF ParallelStart, SerialPeriod, FreeKill, Step, At, Goto, Reorders
<1>3. CASE Master
  BY <1>0, <1>3 DEF Master, WakeSlave, WaitOne, EndReset, EndPlain, EndReweight,
    FreePost, FreeWait, FreeJoin, Step, At, Goto, Reorders, thread
<1>4. CASE WaitTimeout \/ XrunReport \/ Freed \/ UNCHANGED vars
  BY <1>4 DEF WaitTimeout, XrunReport, Freed, vars, thread, Reorders
<1>5. ASSUME NEW s \in Slaves, Slave(s)
      PROVE  cur'[u] = cur[u] /\ Reorders(u)
  BY <1>0, <1>5 DEF Slave, SlaveWake, SlavePost, SlaveCheck, Step, At, Goto, Reorders
<1>6. ASSUME NEW t \in Threads, Work(t)
      PROVE  cur'[u] = cur[u] /\ (Reorders(u) \/ RampCut(u))
  <2>1. CASE \E h : Advance(t, h)
    BY <1>6, <2>1, AdvanceGoes DEF Reorders
  <2>2. CASE ~ \E h : Advance(t, h)
    BY <1>0, <1>6, <2>2 DEF Work, ReorderClear, ReorderAdd, ReorderReturn, Spin, Claim,
      SkipClaimed, SkipLater, RampCut, RunEnd, SubSink, SubReturn, Step, At, Goto, Leave,
      Reorders
  <2> QED BY <2>1, <2>2
<1> QED BY <1>1, <1>2, <1>3, <1>4, <1>5, <1>6 DEF Next

(* With such a patch no two threads reorder at a time. *)
THEOREM OneFaderReordersInTurn ==
  ASSUME OneFader
  PROVE  Spec => []ReordersInTurn
<1>1. Init => ReordersInTurn /\ FaderInv /\ OrderInv
  <2> SUFFICES ASSUME Init PROVE ReordersInTurn /\ FaderInv /\ OrderInv
    OBVIOUS
  <2>1. pc[0] = "idle" /\ \A t \in Threads : ~Reorders(t)
    BY ZeroThread DEF Init, Reorders
  <2>2. GraphInv /\ PeriodInv
    BY <2>1, GraphInit DEF PeriodInv, InPeriod
  <2> QED BY <2>1, <2>2 DEF ReordersInTurn, OneReorder, FaderInv, OrderInv
<1>2. /\ TypeOK /\ ExclusiveInv /\ KillIsLast /\ KillIsLast'
      /\ ReordersInTurn /\ FaderInv /\ OrderInv /\ [Next]_vars
      => ReordersInTurn' /\ FaderInv' /\ OrderInv'
  <2> SUFFICES ASSUME TypeOK, ExclusiveInv, KillIsLast, KillIsLast', ReordersInTurn,
                      FaderInv, OrderInv, [Next]_vars, ~kill'
               PROVE  OneReorder' /\ FaderInv' /\ OrderInv'
    BY DEF ReordersInTurn, FaderInv, OrderInv
  <2>1. ~kill
    BY KillStays
  <2>2. OneReorder /\ GraphInv /\ PeriodInv /\ MasterInOrder
    BY <2>1 DEF ReordersInTurn, OrderInv, ExclusiveInv
  <2>3. \A e \in RampEdges : e[2] \in Mods /\ e[2] # None
    BY RampEdgesAssumption, EdgesAssumption DEF Mods, None
  <2>4. FaderInv'
    <3> SUFFICES ASSUME NEW u \in Threads, Reorders(u)', cur'[u] # None
                 PROVE  \E e \in RampEdges : e[2] = cur'[u]
      BY DEF FaderInv
    <3>1. cur'[u] = cur[u] /\ (Reorders(u) \/ RampCut(u) \/ (u = 0 /\ pc[0] = "idle"))
      BY Entering
    <3>2. ~(u = 0 /\ pc[0] = "idle")
      BY <2>2, <3>1 DEF MasterInOrder, Working
    <3> QED BY <2>1, <3>1, <3>2 DEF FaderInv, RampCut
  <2>5. ASSUME NEW t \in Threads, NEW u \in Threads, Reorders(t)', Reorders(u)',
               ~Reorders(t)
        PROVE  t = u
    <3>1. RampCut(t) \/ (t = 0 /\ pc[0] = "idle")
      BY <2>5, Entering
    <3>2. Reorders(u) \/ RampCut(u) \/ (u = 0 /\ pc[0] = "idle")
      BY <2>5, Entering
    <3>3. CASE RampCut(t)
      <4>1. PICK e \in RampEdges : e[2] = cur[t]
        BY <3>3 DEF RampCut
      <4>2. pc[t] = "run" /\ pc[t] \in Holding /\ cur[t] # None
        BY <2>3, <3>3, <4>1 DEF RampCut, Step, At, Holding
      <4>3. InPeriod /\ PeriodOrder
        BY <2>1, <2>2, <4>2, HoldingInPeriod DEF PeriodInv
      <4>4. pc[u] \in Holding
        BY <3>2, <4>3 DEF Reorders, RampCut, Step, At, Holding, InPeriod
      <4>5. cur[u] # None
        BY <4>3, <4>4 DEF PeriodOrder, Held, TypeOK, Mods, None
      <4>6. \E f \in RampEdges : f[2] = cur[u]
        BY <2>1, <3>2, <4>3, <4>5 DEF FaderInv, RampCut, InPeriod
      <4>7. cur[u] = cur[t]
        BY <4>1, <4>6 DEF OneFader
      <4> QED BY <4>2, <4>3, <4>4, <4>7 DEF PeriodOrder, Held
    <3>4. CASE t = 0 /\ pc[0] = "idle"
      <4>1. \A s \in Slaves : pc[s] \in {"sleep", "check"}
        BY <2>1, <3>4, ExclusiveGives DEF GraphExclusive, InPeriod
      <4>2. u \notin Slaves
        BY <3>2, <4>1 DEF Reorders, RampCut, Step, At, Slaves
      <4> QED BY <3>4, <4>2 DEF Threads, Slaves
    <3> QED BY <3>1, <3>3, <3>4
  <2>6. OneReorder'
    BY <2>2, <2>5 DEF OneReorder
  <2> QED BY <2>1, <2>2, <2>4, <2>6, GraphStep, PeriodStep DEF OrderInv
<1> QED BY <1>1, <1>2, TypeCorrect, ExclusiveInvariant, KillInvariant, PTL DEF Spec

-------------------------------------------------------------------------------
(* While a module runs, every module that feeds it has ended: whatever the *)
(* threads' order, and with connections cut while the period runs, as long *)
(* as no two cuts are made at a time.                                      *)
THEOREM SourcesAlwaysFirst == Spec /\ []ReordersInTurn => []SourcesFirst
<1>1. TypeOK /\ ExclusiveInv /\ OrderInv => SourcesFirst
  <2> SUFFICES ASSUME TypeOK, ExclusiveInv, OrderInv, ~kill,
                      NEW t \in Threads, NEW e \in plan, RunsModule(t, e[2])
               PROVE  Finished(e[1])
    BY DEF SourcesFirst
  <2>0. mods \subseteq Mods /\ refCount \in [Mods -> Int]
    BY DEF TypeOK
  <2>1. e \in Mods \X Mods
    BY EdgesAssumption DEF TypeOK, Mods
  <2>2. PICK n \in Mods, m \in Mods : e = <<n, m>> /\ e[1] = n /\ e[2] = m
    BY <2>1
  <2>3. pc[t] \in Holding /\ cur[t] = m /\ m # None
    BY <2>2 DEF RunsModule, Holding, Mods, None
  <2>4. PeriodOrder
    BY <2>3, HoldingInPeriod DEF OrderInv, PeriodInv
  <2>5. m \in mods /\ n \in mods /\ refCount[m] < 0
    BY <2>2, <2>3, <2>4 DEF PeriodOrder, Held, Planned
  <2>6. Owers(m) = {}
    BY <2>4, <2>5 DEF PeriodOrder, Counted
  <2>7. ~(refCount[n] >= 0) /\ \A u \in Threads : ~RunsModule(u, n)
    BY <2>2, <2>5, <2>6 DEF Owers, Owes
  <2>8. refCount[n] = -1
    BY <2>0, <2>4, <2>5, <2>7 DEF PeriodOrder, Counted
  <2> QED BY <2>2, <2>7, <2>8 DEF Finished
<1> QED BY <1>1, TypeCorrect, ExclusiveInvariant, OrderInvariant, PTL

(* assert(ref_count >= 0): no count is decremented once more than it was   *)
(* set for, on the same condition.                                         *)
THEOREM CountsSuffice == Spec /\ []ReordersInTurn => []RefCountAssert
<1>1. TypeOK /\ ExclusiveInv /\ OrderInv => RefCountAssert
  <2> SUFFICES ASSUME TypeOK, ExclusiveInv, OrderInv, ~kill, NEW t \in Threads,
                      pc[t] = "sub", idx[t] <= Len(sinks[cur[t]])
               PROVE  refCount[sinks[cur[t]][idx[t]]] >= 0
    BY DEF RefCountAssert, AssertHolds, At
  <2>1. cur[t] # None
    BY DEF ExclusiveInv, AtHand, Mods, None
  <2>2. GraphInv /\ PeriodOrder
    BY <2>1, HoldingInPeriod DEF OrderInv, PeriodInv, Holding
  <2>3. PICK m \in mods : m = sinks[cur[t]][idx[t]] /\ refCount[m] >= 1
    BY <2>2, Telling
  <2> QED BY <2>3 DEF TypeOK
<1> QED BY <1>1, TypeCorrect, ExclusiveInvariant, OrderInvariant, PTL

(* "needs to run later": in a period whose order is not changed by a cut,  *)
(* as long as modules wait, one is ready or a thread is at work that will  *)
(* make one ready.  Of the modules that wait the first has no source that  *)
(* waits, so the counts, which are exact, name a thread.                   *)
THEOREM Unstuck ==
  ASSUME RampsInOrder
  PROVE  Spec /\ []ReordersInTurn => []NeverStuck
<1>1. TypeOK /\ ExclusiveInv /\ KillIsLast /\ OrderInv => NeverStuck
  <2> SUFFICES ASSUME TypeOK, ExclusiveInv, KillIsLast, OrderInv,
                      ForwardEdges = plan, InPeriod, NEW x \in mods, refCount[x] >= 0,
                      \A t \in Threads : pc[t] \notin {"run", "sub"}
               PROVE  \E m \in mods : refCount[m] = 0
    BY DEF NeverStuck, SomeProgress
  <2>0. mods \subseteq Mods /\ refCount \in [Mods -> Int]
    BY DEF TypeOK
  <2>1. PeriodOrder
    BY DEF KillIsLast, InPeriod, OrderInv, PeriodInv
  <2> DEFINE W == {k \in mods : refCount[k] >= 0}
  <2>2. PICK m \in W : \A j \in W : m <= j
    <3>1. \A k \in W : k \in Nat
      BY <2>0 DEF Mods
    <3>2. x \in W
      OBVIOUS
    <3> HIDE DEF W
    <3> QED BY <3>1, <3>2, LeastElement
  <2>3. m \in mods /\ \A n \in mods : n < m => ~(refCount[n] >= 0)
    <3>1. \A n \in mods : n \in Nat
      BY <2>0 DEF Mods
    <3> QED BY <2>2, <3>1
  <2>4. \A t \in Threads : pc[t] \notin {"run", "sub", "clear", "add"}
    BY <2>1 DEF PeriodOrder, Planned, Clearing, Adding
  <2>5. Owers(m) = {}
    <3>1. ASSUME NEW n \in mods, Owes(n, m) PROVE FALSE
      <4>1. n < m
        BY <2>1, <3>1 DEF Owes, PeriodOrder, Planned
      <4> QED BY <2>3, <2>4, <3>1, <4>1 DEF Owes, RunsModule, WillTell
    <3> QED BY <3>1 DEF Owers
  <2>6. refCount[m] <= 0
    BY <2>1, <2>3, <2>5, FS_EmptySet DEF PeriodOrder, Exact
  <2>7. refCount[m] = 0
    BY <2>0, <2>2, <2>3, <2>6
  <2> QED BY <2>3, <2>7
<1> QED BY <1>1, TypeCorrect, ExclusiveInvariant, KillInvariant, OrderInvariant, PTL
===============================================================================
