---------------------------- MODULE DspGraphProofs ----------------------------
(***************************************************************************)
(* What _dsp_master_reorder leaves behind.  As long as no two threads are  *)
(* in it at a time, the list of sinks of each module names the modules its *)
(* connections lead to, in rank order and each once, and the number of     *)
(* sources of each module is the number of lists that name it.  While a    *)
(* thread is in it, this holds of the part that it has built so far.       *)
(***************************************************************************)
EXTENDS DspMasterProofs

USE NumModsAssumption, NumSlavesAssumption

(* Thread t is in _dsp_master_reorder. *)
Reorders(t) == pc[t] \in {"clear", "add"}

(* No two threads are in it at a time: no two fade-outs into two modules   *)
(* that different threads run end in the same moment.                      *)
OneReorder == \A t, u \in Threads : Reorders(t) /\ Reorders(u) => t = u

ReordersInTurn == ~kill => OneReorder

Clearing == \E t \in Threads : pc[t] = "clear"
Adding == \E t \in Threads : pc[t] = "add"

(* The sinks that module n has by its connections, and by its list. *)
Connected(n) == {m \in Mods : n < m /\ <<n, m>> \in conn}
Listed(n) == {m \in Mods : \E i \in 1 .. Len(sinks[n]) : sinks[n][i] = m}

(* Those that its list names or, when it is being built, will name, and    *)
(* the place of one of them in the list.                                   *)
Links(n) == IF Adding THEN Connected(n) ELSE Listed(n)
Place(n, m) == Cardinality({j \in Links(n) : j <= m})

Endpoints ==
  /\ \A e \in conn : e[1] \in mods /\ e[2] \in mods
  /\ \A n \in Mods \ mods : sinks[n] = <<>>

(* The lists and counts are complete for the sinks below rank k. *)
BuiltTo(k) ==
  /\ \A n \in Mods : Listed(n) = {m \in Connected(n) : m < k}
  /\ \A m \in mods : numSources[m] = IF m < k THEN Cardinality(SourcesOf(m)) ELSE 0

Built ==
  /\ ~Clearing /\ ~Adding => BuiltTo(PastEnd)
  /\ \A t \in Threads : pc[t] = "add" =>
       idx[t] \in mods \union {PastEnd} /\ BuiltTo(idx[t])

Ordered ==
  \A n \in Mods :
    /\ Len(sinks[n]) = Cardinality(Listed(n))
    /\ \A i \in 1 .. Len(sinks[n]), m \in Mods : sinks[n][i] = m => Place(n, m) = i

GraphInv == Endpoints /\ Built /\ Ordered

-------------------------------------------------------------------------------
(* Facts about the definitions. *)

LEMMA LinksFinite ==
  ASSUME NEW n
  PROVE  /\ Connected(n) \subseteq Mods /\ Listed(n) \subseteq Mods
         /\ Links(n) \subseteq Mods
         /\ IsFiniteSet(Connected(n)) /\ IsFiniteSet(Listed(n)) /\ IsFiniteSet(Links(n))
<1>1. Connected(n) \subseteq Mods /\ Listed(n) \subseteq Mods
  BY DEF Connected, Listed
<1>2. Links(n) \subseteq Mods
  BY <1>1 DEF Links
<1> QED BY <1>1, <1>2, ModsFinite

LEMMA PlaceType ==
  ASSUME NEW n, NEW m
  PROVE  Place(n, m) \in Nat
<1>1. {j \in Links(n) : j <= m} \in SUBSET Mods
  BY LinksFinite
<1> QED BY <1>1, ModsFinite DEF Place

(* What depends on the patch only, and on who is in the reordering. *)
LEMMA LinksSame ==
  ASSUME UNCHANGED <<conn, sinks>>, Adding' <=> Adding
  PROVE  \A n : /\ Connected(n)' = Connected(n) /\ Listed(n)' = Listed(n)
                /\ Links(n)' = Links(n)
                /\ \A m : Place(n, m)' = Place(n, m)
<1> TAKE n
<1>1. Connected(n)' = Connected(n) /\ Listed(n)' = Listed(n)
  BY DEF Connected, Listed
<1>2. Links(n)' = Links(n)
  BY <1>1 DEF Links
<1> QED BY <1>1, <1>2 DEF Place

LEMMA GraphSame ==
  ASSUME GraphInv, UNCHANGED graph,
         \A u \in Threads : Reorders(u) \/ Reorders(u)' =>
           pc'[u] = pc[u] /\ idx'[u] = idx[u]
  PROVE  GraphInv'
<1>1. (Clearing' <=> Clearing) /\ (Adding' <=> Adding)
  BY DEF Clearing, Adding, Reorders
<1>2. \A n : /\ Connected(n)' = Connected(n) /\ Listed(n)' = Listed(n)
             /\ \A m : Place(n, m)' = Place(n, m)
  BY <1>1, LinksSame DEF graph
<1>3. Endpoints'
  BY DEF GraphInv, Endpoints, graph
<1>4. \A k : BuiltTo(k) => BuiltTo(k)'
  BY <1>2 DEF BuiltTo, graph, SourcesOf
<1>5. Built'
  <2>1. \A u \in Threads : pc'[u] = "add" => pc[u] = "add" /\ idx'[u] = idx[u]
    BY DEF Reorders
  <2> QED BY <1>1, <1>4, <2>1 DEF GraphInv, Built, graph
<1>6. Ordered'
  BY <1>2 DEF GraphInv, Ordered, graph
<1> QED BY <1>3, <1>5, <1>6 DEF GraphInv

(* A thread on its way through a pass: to the next module present, back to *)
(* the head of the pass, or out.                                           *)
LEMMA AdvanceGoes ==
  ASSUME TypeOK, NEW t \in Threads, NEW h, Advance(t, h)
  PROVE  /\ \A u \in Threads \ {t} : pc'[u] = pc[u] /\ cur'[u] = cur[u] /\ head'[u] = head[u]
         /\ \/ /\ pc'[t] = "cas" /\ cur'[t] \in mods /\ head'[t] = h
               /\ \A j \in mods : j > cur[t] => cur'[t] <= j
            \/ /\ pc'[t] = "spin" /\ head'[t] = h /\ h # None
               /\ \A j \in mods : j <= cur[t]
            \/ /\ pc'[t] = (IF t = 0 THEN "wait" ELSE "done") /\ h = None
               /\ \A j \in mods : j <= cur[t]
<1> DEFINE m == FirstFrom(cur[t] + 1)
<1>0. /\ pc \in [Threads -> Steps] /\ cur \in [Threads -> Mods \union {None}]
      /\ head \in [Threads -> Mods \union {None, 1}] /\ mods \subseteq Mods
      /\ \A j \in mods : j \in Nat
  BY DEF TypeOK, Mods
<1>1. cur[t] + 1 \in Nat /\ cur[t] \in Nat
  BY <1>0 DEF Mods, None
<1>2. /\ m # PastEnd => m \in mods /\ \A j \in mods : j >= cur[t] + 1 => m <= j
      /\ m = PastEnd => \A j \in mods : j < cur[t] + 1
  BY <1>0, <1>1, FirstFromFact
<1>3. CASE m # PastEnd
  <2>1. Goto(t, "cas", m, h)
    BY <1>3 DEF Advance
  <2>2. m \in mods /\ \A j \in mods : j > cur[t] => m <= j
    BY <1>0, <1>1, <1>2, <1>3
  <2> HIDE DEF m
  <2> QED BY <1>0, <2>1, <2>2 DEF Goto
<1>4. CASE m = PastEnd /\ h = None
  <2>1. Goto(t, IF t = 0 THEN "wait" ELSE "done", None, None)
    BY <1>4 DEF Advance, Leave
  <2>2. \A j \in mods : j <= cur[t]
    BY <1>0, <1>1, <1>2, <1>4
  <2> HIDE DEF m
  <2> QED BY <1>0, <1>4, <2>1, <2>2 DEF Goto
<1>5. CASE m = PastEnd /\ h # None
  <2>1. Goto(t, "spin", None, h)
    BY <1>5 DEF Advance
  <2>2. \A j \in mods : j <= cur[t]
    BY <1>0, <1>1, <1>2, <1>5
  <2> HIDE DEF m
  <2> QED BY <1>0, <1>5, <2>1, <2>2 DEF Goto
<1> QED BY <1>3, <1>4, <1>5

-------------------------------------------------------------------------------
(* One step of a reordering after the other. *)

LEMMA GraphClear ==
  ASSUME TypeOK, GraphInv, OneReorder, NEW t \in Threads, ReorderClear(t)
  PROVE  GraphInv'
<1>0. /\ mods \subseteq Mods /\ pc \in [Threads -> Steps] /\ idx \in [Threads -> Nat]
      /\ numSources \in [Mods -> Nat] /\ sinks \in [Mods -> Seq(Mods)]
  BY DEF TypeOK
<1>1. /\ pc[t] = "clear" /\ pc'[t] = "add" /\ idx'[t] = FirstFrom(1)
      /\ \A u \in Threads \ {t} : pc'[u] = pc[u] /\ ~Reorders(u)
      /\ mods' = mods /\ conn' = conn
  BY <1>0 DEF ReorderClear, At, OneReorder, Reorders
<1>2. \A n \in Mods : sinks'[n] = <<>>
  BY <1>0 DEF ReorderClear, GraphInv, Endpoints
<1>3. \A n \in Mods : Listed(n)' = {} 
  BY <1>2 DEF Listed
<1>4. Endpoints'
  BY <1>1, <1>2 DEF GraphInv, Endpoints
<1>5. Ordered'
  <2>1. Cardinality({}) = 0
    BY FS_EmptySet
  <2>2. \A n \in Mods : Len(sinks'[n]) = 0 /\ 1 .. Len(sinks'[n]) = {}
    BY <1>2
  <2>3. \A n \in Mods : Cardinality(Listed(n)') = 0
    BY <1>3, <2>1
  <2> QED BY <2>2, <2>3 DEF Ordered
<1>6. PICK f : f = FirstFrom(1)
  OBVIOUS
<1>7. /\ f \in mods \union {PastEnd}
      /\ \A m \in mods : ~(m < f)
  <2>1. \A m \in mods : m \in Nat /\ m >= 1
    BY <1>0 DEF Mods
  <2>2. /\ f # PastEnd => f \in mods /\ \A j \in mods : j >= 1 => f <= j
        /\ f = PastEnd => \A j \in mods : j < 1
    BY <1>0, <1>6, FirstFromFact
  <2> QED BY <2>1, <2>2
<1>8. BuiltTo(f)'
  <2>1. \A n \in Mods : \A m \in Connected(n)' : ~(m < f)
    BY <1>1, <1>7 DEF Connected, GraphInv, Endpoints
  <2>2. \A n \in Mods : Listed(n)' = {m \in Connected(n)' : m < f}
    BY <1>3, <2>1
  <2>3. \A m \in mods : numSources'[m] = 0 /\ ~(m < f)
    BY <1>0, <1>7 DEF ReorderClear
  <2> QED BY <1>1, <2>2, <2>3 DEF BuiltTo
<1>9. Built'
  <2>1. Adding'
    BY <1>1 DEF Adding
  <2>2. \A u \in Threads : pc'[u] = "add" => u = t
    BY <1>1 DEF Reorders
  <2>3. BuiltTo(idx[t])'
    BY <1>1, <1>6, <1>8
  <2> QED BY <1>1, <1>6, <1>7, <2>1, <2>2, <2>3 DEF Built
<1> QED BY <1>4, <1>5, <1>9 DEF GraphInv

LEMMA GraphAdd ==
  ASSUME TypeOK, GraphInv, OneReorder, NEW t \in Threads, ReorderAdd(t)
  PROVE  GraphInv'
<1>0. /\ mods \subseteq Mods /\ pc \in [Threads -> Steps] /\ idx \in [Threads -> Nat]
      /\ numSources \in [Mods -> Nat] /\ sinks \in [Mods -> Seq(Mods)]
      /\ \A m \in Mods : m \in Nat /\ m < PastEnd
  BY DEF TypeOK, Mods, PastEnd
<1>1. PICK k \in mods : k = idx[t] /\ k \in Mods /\ BuiltTo(k)
  BY <1>0 DEF ReorderAdd, At, GraphInv, Built
<1>2. PICK f : f = FirstFrom(k + 1)
  OBVIOUS
<1>3. /\ pc[t] = "add" /\ pc' = pc /\ idx'[t] = f
      /\ \A u \in Threads \ {t} : idx'[u] = idx[u] /\ ~Reorders(u)
      /\ mods' = mods /\ conn' = conn
  BY <1>0, <1>1, <1>2 DEF ReorderAdd, At, OneReorder, Reorders
<1>4. Adding /\ Adding'
  BY <1>3 DEF Adding
<1>5. \A n \in Mods : n \in SourcesOf(k) <=> k \in Connected(n)
  BY <1>1 DEF SourcesOf, Connected, GraphInv, Endpoints
<1>6. \A n \in Mods : sinks'[n] = IF k \in Connected(n) THEN Append(sinks[n], k) ELSE sinks[n]
  BY <1>0, <1>1, <1>5 DEF ReorderAdd
<1>7. \A n : /\ Connected(n)' = Connected(n)
             /\ Links(n)' = Connected(n) /\ Links(n) = Connected(n)
  BY <1>3, <1>4 DEF Connected, Links
<1>8. \A n, m : Place(n, m)' = Place(n, m)
  BY <1>7 DEF Place
<1>9. ASSUME NEW n \in Mods, k \in Connected(n)
      PROVE  /\ Len(sinks'[n]) = Len(sinks[n]) + 1 /\ Len(sinks[n]) \in Nat
             /\ \A i \in 1 .. Len(sinks[n]) : sinks'[n][i] = sinks[n][i]
             /\ sinks'[n][Len(sinks[n]) + 1] = k
  <2>1. sinks'[n] = Append(sinks[n], k) /\ sinks[n] \in Seq(Mods)
    BY <1>0, <1>6, <1>9
  <2> QED BY <1>1, <2>1
<1>10. \A n \in Mods : Listed(n)' = IF k \in Connected(n) THEN Listed(n) \union {k} ELSE Listed(n)
  <2> SUFFICES ASSUME NEW n \in Mods
               PROVE  Listed(n)' = IF k \in Connected(n) THEN Listed(n) \union {k} ELSE Listed(n)
    OBVIOUS
  <2>1. CASE k \in Connected(n)
    <3>1. \A i : i \in 1 .. Len(sinks'[n]) <=>
                   i \in 1 .. Len(sinks[n]) \/ i = Len(sinks[n]) + 1
      BY <1>9, <2>1
    <3>2. \A m \in Mods : (\E i \in 1 .. Len(sinks'[n]) : sinks'[n][i] = m)
                            <=> m = k \/ \E i \in 1 .. Len(sinks[n]) : sinks[n][i] = m
      BY <1>9, <2>1, <3>1
    <3>3. \A m : m \in Listed(n)' <=> m \in Listed(n) \/ m = k
      BY <1>1, <3>2 DEF Listed
    <3> QED BY <2>1, <3>3
  <2>2. CASE k \notin Connected(n)
    BY <1>6, <2>2 DEF Listed
  <2> QED BY <2>1, <2>2
<1>11. Endpoints'
  BY <1>0, <1>1, <1>3, <1>6 DEF GraphInv, Endpoints, Connected
<1>12. /\ f \in mods \union {PastEnd}
       /\ \A m \in mods : m < f <=> m <= k
  <2>1. /\ f # PastEnd =>
             /\ f \in mods /\ f >= k + 1
             /\ \A j \in mods : j >= k + 1 => f <= j
        /\ f = PastEnd => \A j \in mods : j < k + 1
    BY <1>0, <1>1, <1>2, FirstFromFact
  <2>2. k \in Nat /\ \A m \in mods : m \in Nat /\ m < PastEnd
    BY <1>0, <1>1
  <2>3. CASE f = PastEnd
    BY <2>1, <2>2, <2>3
  <2>4. CASE f # PastEnd
    <3>1. f \in Nat
      BY <2>1, <2>2, <2>4
    <3> QED BY <2>1, <2>2, <2>4, <3>1
  <2> QED BY <2>3, <2>4
<1>13. BuiltTo(f)'
  <2>1. \A n \in Mods : Listed(n)' = {m \in Connected(n)' : m < f}
    <3> SUFFICES ASSUME NEW n \in Mods
                 PROVE  Listed(n)' = {m \in Connected(n) : m < f}
      BY <1>7
    <3>1. Listed(n) = {m \in Connected(n) : m < k}
      BY <1>1 DEF BuiltTo
    <3>2. Connected(n) \subseteq mods /\ \A m \in mods : m \in Nat
      BY <1>0 DEF Connected, GraphInv, Endpoints
    <3>3. ASSUME NEW m \in Connected(n)
          PROVE  m < f <=> (m < k \/ m = k)
      <4>1. m \in mods /\ m \in Nat /\ k \in Nat
        BY <1>0, <1>1, <3>2
      <4> QED BY <1>12, <4>1
    <3> QED BY <1>10, <3>1, <3>3
  <2>2. \A m \in mods : numSources'[m] = IF m < f THEN Cardinality(SourcesOf(m)) ELSE 0
    <3>1. numSources' = [numSources EXCEPT ![k] = @ + Cardinality(SourcesOf(k))]
      BY <1>1 DEF ReorderAdd
    <3>2. numSources[k] = 0 /\ Cardinality(SourcesOf(k)) \in Nat
      <4>1. SourcesOf(k) \in SUBSET Mods
        BY <1>0 DEF SourcesOf
      <4>2. ~(k < k)
        BY <1>0, <1>1
      <4> QED BY <1>1, <4>1, <4>2, ModsFinite DEF BuiltTo
    <3>3. numSources'[k] = Cardinality(SourcesOf(k)) /\ k < f
      BY <1>0, <1>1, <1>12, <3>1, <3>2
    <3>4. ASSUME NEW m \in mods, m # k
          PROVE  numSources'[m] = IF m < f THEN Cardinality(SourcesOf(m)) ELSE 0
      <4>1. numSources'[m] = IF m < k THEN Cardinality(SourcesOf(m)) ELSE 0
        BY <1>0, <1>1, <3>1, <3>4 DEF BuiltTo
      <4>2. m < f <=> m < k
        BY <1>0, <1>1, <1>12, <3>4
      <4> QED BY <4>1, <4>2
    <3> QED BY <3>3, <3>4
  <2>3. \A m : SourcesOf(m)' = SourcesOf(m)
    BY <1>3 DEF SourcesOf
  <2> QED BY <1>3, <2>1, <2>2, <2>3 DEF BuiltTo
<1>14. Built'
  <2>1. \A u \in Threads : pc'[u] = "add" => u = t
    BY <1>3 DEF Reorders
  <2>2. BuiltTo(idx[t])'
    BY <1>3, <1>13
  <2> QED BY <1>3, <1>4, <1>12, <2>1, <2>2 DEF Built
<1>15. Ordered'
  <2> SUFFICES ASSUME NEW n \in Mods
               PROVE  /\ Len(sinks'[n]) = Cardinality(Listed(n)')
                      /\ \A i \in 1 .. Len(sinks'[n]), m \in Mods :
                           sinks'[n][i] = m => Place(n, m)' = i
    BY DEF Ordered
  <2>1. /\ Len(sinks[n]) = Cardinality(Listed(n))
        /\ \A i \in 1 .. Len(sinks[n]), m \in Mods : sinks[n][i] = m => Place(n, m) = i
    BY DEF GraphInv, Ordered
  <2>2. CASE k \in Connected(n)
    <3>1. Listed(n) = {m \in Connected(n) : m < k} /\ k \notin Listed(n)
      BY <1>0, <1>1 DEF BuiltTo
    <3>2. Cardinality(Listed(n)') = Len(sinks[n]) + 1
      <4>1. Listed(n)' = Listed(n) \union {k} /\ IsFiniteSet(Listed(n))
        BY <1>10, <2>2, LinksFinite
      <4>2. Cardinality(Listed(n) \union {k}) = Cardinality(Listed(n)) + 1
        BY <3>1, <4>1, FS_AddElement
      <4> QED BY <2>1, <4>1, <4>2
    <3>3. {j \in Links(n) : j <= k} = Listed(n)'
      <4>1. \A j \in Connected(n) : j <= k <=> (j < k \/ j = k)
        <5>1. \A j \in Connected(n) : j \in Nat
          BY <1>0, LinksFinite
        <5> QED BY <1>0, <1>1, <5>1
      <4> QED BY <1>7, <1>10, <2>2, <3>1, <4>1
    <3>4. Place(n, k)' = Len(sinks[n]) + 1
      BY <1>8, <3>2, <3>3 DEF Place
    <3>5. ASSUME NEW i \in 1 .. Len(sinks'[n]), NEW m \in Mods, sinks'[n][i] = m
          PROVE  Place(n, m)' = i
      <4>1. CASE i \in 1 .. Len(sinks[n])
        BY <1>8, <1>9, <2>1, <2>2, <3>5, <4>1
      <4>2. CASE i = Len(sinks[n]) + 1
        BY <1>9, <2>2, <3>4, <3>5, <4>2
      <4> QED BY <1>9, <2>2, <4>1, <4>2
    <3> QED BY <1>9, <2>2, <3>2, <3>5
  <2>3. CASE k \notin Connected(n)
    <3>1. sinks'[n] = sinks[n] /\ Listed(n)' = Listed(n)
      BY <1>6, <1>10, <2>3
    <3> QED BY <1>8, <2>1, <3>1
  <2> QED BY <2>2, <2>3
<1> QED BY <1>11, <1>14, <1>15 DEF GraphInv

LEMMA GraphReturn ==
  ASSUME TypeOK, GraphInv, OneReorder, NEW t \in Threads, ReorderReturn(t)
  PROVE  GraphInv'
<1>0. /\ mods \subseteq Mods /\ pc \in [Threads -> Steps] /\ idx \in [Threads -> Nat]
      /\ \A m \in Mods : m < PastEnd
  BY DEF TypeOK, Mods, PastEnd
<1>1. /\ pc[t] = "add" /\ pc'[t] \in {"idle", "run"}
      /\ \A u \in Threads \ {t} : pc'[u] = pc[u] /\ ~Reorders(u)
      /\ UNCHANGED graph
  BY <1>0 DEF ReorderReturn, At, OneReorder, Reorders
<1>2. idx[t] = PastEnd /\ BuiltTo(PastEnd)
  BY <1>0, <1>1 DEF ReorderReturn, GraphInv, Built
<1>3. Adding /\ ~Adding' /\ ~Clearing'
  BY <1>1 DEF Adding, Clearing, Reorders
<1>4. \A n : Connected(n)' = Connected(n) /\ Listed(n)' = Listed(n)
  BY <1>1 DEF Connected, Listed, graph
<1>5. \A n \in Mods : Listed(n) = Connected(n)
  <2>1. \A n : \A m \in Connected(n) : m < PastEnd
    BY <1>0 DEF Connected
  <2> QED BY <1>2, <2>1 DEF BuiltTo
<1>6. \A n \in Mods : \A m : Place(n, m)' = Place(n, m)
  BY <1>3, <1>4, <1>5 DEF Place, Links
<1>7. Endpoints'
  BY <1>1 DEF GraphInv, Endpoints, graph
<1>8. BuiltTo(PastEnd)'
  BY <1>1, <1>2, <1>4 DEF BuiltTo, graph, SourcesOf, PastEnd
<1>9. Built'
  BY <1>3, <1>8 DEF Built, Adding, PastEnd
<1>10. Ordered'
  BY <1>1, <1>4, <1>6 DEF GraphInv, Ordered, graph
<1> QED BY <1>7, <1>9, <1>10 DEF GraphInv

(* The thread that runs a module finds one of its fade-outs at its end. *)
LEMMA GraphCut ==
  ASSUME TypeOK, GraphInv, OneReorder', NEW t \in Threads, RampCut(t)
  PROVE  GraphInv'
<1>0. pc \in [Threads -> Steps]
  BY DEF TypeOK
<1>1. /\ pc[t] = "run" /\ pc'[t] = "clear" /\ conn' \subseteq conn
      /\ UNCHANGED <<mods, sinks>>
      /\ \A u \in Threads \ {t} : pc'[u] = pc[u]
  BY <1>0 DEF RampCut, Step, At, Goto
<1>2. \A u \in Threads : ~Reorders(u) /\ pc'[u] # "add"
  BY <1>1 DEF OneReorder, Reorders
<1>3. ~Adding /\ ~Adding' /\ Clearing'
  BY <1>1, <1>2 DEF Adding, Clearing, Reorders
<1>4. \A n : Listed(n)' = Listed(n)
  BY <1>1 DEF Listed
<1>5. \A n, m : Place(n, m)' = Place(n, m)
  BY <1>3, <1>4 DEF Place, Links
<1>6. Endpoints'
  BY <1>1 DEF GraphInv, Endpoints
<1>7. Built'
  BY <1>2, <1>3 DEF Built
<1>8. Ordered'
  BY <1>1, <1>4, <1>5 DEF GraphInv, Ordered
<1> QED BY <1>6, <1>7, <1>8 DEF GraphInv

(* The realtime thread changes the patch between two periods. *)
LEMMA GraphPatch ==
  ASSUME TypeOK, GraphInv, Patch, \A s \in Slaves : ~Reorders(s)
  PROVE  GraphInv'
<1>0. /\ pc \in [Threads -> Steps] /\ Threads = Slaves \union {0} /\ 0 \notin Slaves
      /\ sinks \in [Mods -> Seq(Mods)]
  BY DEF TypeOK, Threads, Slaves
<1>1. Step(0, "idle", "clear")
  BY DEF Patch, ModAdd, ModEject, PortConnect, PortDisconnect, Dirty, BetweenPeriods
<1>2. /\ pc[0] = "idle" /\ pc'[0] = "clear"
      /\ \A s \in Slaves : pc'[s] = pc[s]
  BY <1>0, <1>1 DEF Step, At, Goto
<1>3. ~Adding /\ ~Adding' /\ Clearing'
  BY <1>0, <1>2 DEF Adding, Clearing, Reorders
<1>4. Built'
  BY <1>0, <1>2, <1>3 DEF Built, Adding
<1>5. ASSUME UNCHANGED sinks, mods \subseteq mods',
             \A e \in conn' : e[1] \in mods' /\ e[2] \in mods'
      PROVE  GraphInv'
  <2>1. Endpoints'
    BY <1>5 DEF GraphInv, Endpoints
  <2>2. \A n : Listed(n)' = Listed(n)
    BY <1>5 DEF Listed
  <2>3. \A n, m : Place(n, m)' = Place(n, m)
    BY <1>3, <2>2 DEF Place, Links
  <2>4. Ordered'
    BY <1>5, <2>2, <2>3 DEF GraphInv, Ordered
  <2> QED BY <1>4, <2>1, <2>4 DEF GraphInv
<1>6. ASSUME NEW m \in Mods, ModAdd(m) PROVE GraphInv'
  BY <1>5, <1>6 DEF ModAdd, BetweenPeriods, GraphInv, Endpoints
<1>7. ASSUME NEW m \in Mods, ModEject(m) PROVE GraphInv'
  <2>1. /\ mods' = mods \ {m} /\ conn' = conn \ Touching(m)
        /\ sinks'[m] = <<>> /\ \A n \in Mods \ {m} : sinks'[n] = sinks[n]
    BY <1>0, <1>7 DEF ModEject
  <2>2. Endpoints'
    BY <2>1 DEF GraphInv, Endpoints, Touching
  <2>3. Len(sinks'[m]) = 0 /\ 1 .. Len(sinks'[m]) = {} /\ Listed(m)' = {}
    BY <2>1 DEF Listed
  <2>4. \A n \in Mods \ {m} : Listed(n)' = Listed(n)
    BY <2>1 DEF Listed
  <2>5. \A n \in Mods \ {m} : \A k : Place(n, k)' = Place(n, k)
    BY <1>3, <2>4 DEF Place, Links
  <2>6. Cardinality({}) = 0
    BY FS_EmptySet
  <2>7. \A n \in Mods \ {m} :
          /\ Len(sinks'[n]) = Cardinality(Listed(n)')
          /\ \A i \in 1 .. Len(sinks'[n]), k \in Mods :
               sinks'[n][i] = k => Place(n, k)' = i
    BY <2>1, <2>4, <2>5 DEF GraphInv, Ordered
  <2>8. Ordered'
    BY <2>3, <2>6, <2>7 DEF Ordered
  <2> QED BY <1>4, <2>2, <2>8 DEF GraphInv
<1>8. ASSUME NEW e \in Edges, PortConnect(e) PROVE GraphInv'
  BY <1>5, <1>8 DEF PortConnect, BetweenPeriods, GraphInv, Endpoints
<1>9. ASSUME NEW e \in Edges, PortDisconnect(e) PROVE GraphInv'
  BY <1>5, <1>9 DEF PortDisconnect, BetweenPeriods, GraphInv, Endpoints
<1>10. CASE Dirty
  BY <1>5, <1>10 DEF Dirty, BetweenPeriods, GraphInv, Endpoints
<1> QED BY <1>6, <1>7, <1>8, <1>9, <1>10 DEF Patch

-------------------------------------------------------------------------------
LEMMA GraphInit == Init => GraphInv
<1> SUFFICES ASSUME Init PROVE GraphInv
  OBVIOUS
<1>1. \A n \in Mods : sinks[n] = <<>>
  BY DEF Init
<1>2. /\ mods = {} /\ conn = {} /\ \A n \in Mods : Len(sinks[n]) = 0
      /\ \A n \in Mods : 1 .. Len(sinks[n]) = {} /\ Listed(n) = {} /\ Connected(n) = {}
  BY <1>1 DEF Init, Listed, Connected
<1>3. \A t \in Threads : pc[t] # "add"
  BY DEF Init
<1>4. Cardinality({}) = 0
  BY FS_EmptySet
<1>5. Endpoints
  BY <1>1, <1>2 DEF Endpoints
<1>6. Built
  BY <1>2, <1>3 DEF Built, BuiltTo
<1>7. Ordered
  BY <1>2, <1>4 DEF Ordered
<1> QED BY <1>5, <1>6, <1>7 DEF GraphInv

(* Every step keeps it, as long as the engine is not being freed. *)
LEMMA GraphStep ==
  ASSUME TypeOK, ExclusiveInv, GraphInv, OneReorder, OneReorder', ~kill, ~kill',
         [Next]_vars
  PROVE  GraphInv'
<1>0. /\ pc \in [Threads -> Steps] /\ idx \in [Threads -> Nat]
      /\ Threads = Slaves \union {0} /\ 0 \notin Slaves
      /\ AtHand /\ SlavesInOrder /\ MasterInOrder /\ Account
  BY DEF TypeOK, Threads, Slaves, ExclusiveInv
<1>1. CASE Patch
  <2>1. pc[0] = "idle"
    BY <1>1 DEF Patch, ModAdd, ModEject, PortConnect, PortDisconnect, Dirty,
                BetweenPeriods, Step, At
  <2>2. \A s \in Slaves : ~Reorders(s)
    BY <2>1, ExclusiveGives DEF GraphExclusive, InPeriod, Reorders
  <2> QED BY <1>1, <2>2, GraphPatch
<1>2. ASSUME NEW t \in Threads, UNCHANGED <<graph, idx>>, ~Reorders(t), ~Reorders(t)',
             \A u \in Threads \ {t} : pc'[u] = pc[u]
      PROVE  GraphInv'
  BY <1>2, GraphSame
<1>3. ASSUME NEW t \in Threads, UNCHANGED graph, ~Reorders(t), ~Reorders(t)',
             \A u \in Threads \ {t} : pc'[u] = pc[u] /\ idx'[u] = idx[u]
      PROVE  GraphInv'
  BY <1>3, GraphSame
<1>4. ASSUME UNCHANGED <<graph, pc, idx>>
      PROVE  GraphInv'
  BY <1>4, GraphSame
<1>5. ASSUME NEW t \in Threads, NEW from, NEW to, Step(t, from, to), UNCHANGED graph,
             from \notin {"clear", "add"}, to \notin {"clear", "add"}
      PROVE  GraphInv'
  <2>1. ~Reorders(t) /\ ~Reorders(t)' /\ \A u \in Threads \ {t} : pc'[u] = pc[u]
    BY <1>0, <1>5 DEF Step, At, Goto, Reorders
  <2> QED BY <1>2, <1>5, <2>1 DEF Step
<1>6. ASSUME NEW t \in Threads, Work(t) PROVE GraphInv'
  <2>1. CASE ReorderClear(t)
    BY <2>1, GraphClear
  <2>2. CASE ReorderAdd(t)
    BY <2>2, GraphAdd
  <2>3. CASE ReorderReturn(t)
    BY <2>3, GraphReturn
  <2>4. CASE RampCut(t)
    BY <2>4, GraphCut
  <2>5. CASE Spin(t)
    <3>1. ~Reorders(t) /\ ~Reorders(t)' /\ \A u \in Threads \ {t} : pc'[u] = pc[u]
      BY <1>0, <2>5 DEF Spin, At, Leave, Goto, Reorders
    <3> QED BY <1>2, <2>5, <3>1 DEF Spin
  <2>6. CASE Claim(t)
    BY <1>5, <2>6 DEF Claim
  <2>7. CASE RunEnd(t)
    <3>1. /\ ~Reorders(t) /\ ~Reorders(t)'
          /\ \A u \in Threads \ {t} : pc'[u] = pc[u] /\ idx'[u] = idx[u]
      BY <1>0, <2>7 DEF RunEnd, At, Goto, Reorders
    <3> QED BY <1>3, <2>7, <3>1 DEF RunEnd
  <2>8. CASE SubSink(t)
    <3>1. /\ ~Reorders(t) /\ ~Reorders(t)'
          /\ \A u \in Threads \ {t} : pc'[u] = pc[u] /\ idx'[u] = idx[u]
      BY <1>0, <2>8 DEF SubSink, At, Reorders
    <3> QED BY <1>3, <2>8, <3>1 DEF SubSink
  <2>9. CASE SkipClaimed(t) \/ SkipLater(t) \/ SubReturn(t)
    <3>1. PICK h : Advance(t, h)
      BY <2>9 DEF SkipClaimed, SkipLater, SubReturn
    <3>2. ~Reorders(t)' /\ \A u \in Threads \ {t} : pc'[u] = pc[u]
      BY <3>1, AdvanceGoes DEF Reorders
    <3>3. /\ ~Reorders(t) /\ UNCHANGED graph
          /\ \A u \in Threads \ {t} : idx'[u] = idx[u]
      BY <1>0, <2>9 DEF SkipClaimed, SkipLater, SubReturn, At, Reorders
    <3> QED BY <1>3, <3>2, <3>3
  <2> QED BY <1>6, <2>1, <2>2, <2>3, <2>4, <2>5, <2>6, <2>7, <2>8, <2>9 DEF Work
<1>7. ASSUME NEW s \in Slaves, Slave(s) PROVE GraphInv'
  <2>0. s \in Threads
    BY <1>0
  <2>1. CASE SlaveWake(s)
    <3>1. ~Reorders(s) /\ ~Reorders(s)' /\ \A u \in Threads \ {s} : pc'[u] = pc[u]
      BY <1>0, <2>1 DEF SlaveWake, At, Goto, Reorders
    <3> QED BY <1>2, <2>0, <2>1, <3>1 DEF SlaveWake
  <2>2. CASE SlavePost(s)
    BY <1>5, <2>0, <2>2 DEF SlavePost
  <2>3. CASE SlaveCheck(s)
    BY <1>5, <2>0, <2>3 DEF SlaveCheck
  <2> QED BY <1>7, <2>1, <2>2, <2>3 DEF Slave
<1>8. CASE Master
  <2>0. 0 \in Threads
    BY <1>0
  <2>1. CASE WakeSlave \/ WaitOne
    <3>1. UNCHANGED graph /\ UNCHANGED idx
      BY <2>1 DEF WakeSlave, WaitOne, thread
    <3>2. CASE UNCHANGED pc
      BY <1>4, <3>1, <3>2
    <3>3. CASE pc[0] \in {"post", "wait"} /\ (Goto(0, "spin", None, 1) \/ Goto(0, "end", None, None))
      <4>1. ~Reorders(0) /\ ~Reorders(0)' /\ \A u \in Threads \ {0} : pc'[u] = pc[u]
        BY <1>0, <3>3 DEF Goto, Reorders
      <4> QED BY <1>2, <2>0, <3>1, <4>1
    <3> QED BY <2>1, <3>2, <3>3 DEF WakeSlave, WaitOne, At, thread
  <2>2. CASE EndReset \/ EndPlain \/ EndReweight
    BY <1>5, <2>0, <2>2 DEF EndReset, EndPlain, EndReweight
  <2>3. ~FreePost /\ ~FreeWait /\ ~FreeJoin
    BY <1>0 DEF FreePost, FreeWait, FreeJoin, At, Step, MasterInOrder, Working
  <2> QED BY <1>8, <2>1, <2>2, <2>3 DEF Master
<1>9. CASE ParallelStart \/ SerialPeriod
  BY <1>0, <1>5, <1>9 DEF ParallelStart, SerialPeriod
<1>10. CASE WaitTimeout \/ XrunReport
  BY <1>4, <1>10 DEF WaitTimeout, XrunReport, thread
<1>11. CASE Freed \/ UNCHANGED vars
  BY <1>4, <1>11 DEF Freed, vars, thread
<1>12. ~FreeKill
  BY DEF FreeKill
<1> QED BY <1>1, <1>6, <1>7, <1>8, <1>9, <1>10, <1>11, <1>12 DEF Next
===============================================================================
