----------------------------- MODULE PortsProofs -----------------------------
(***************************************************************************)
(* Theorems about the connections of the patch, for any modules, ports,    *)
(* links, ramps and sizes of arrays.  A loop over an array is a recursive  *)
(* function of the pass; what it does is found by induction on the pass,   *)
(* with the set of passes at which it holds.                               *)
(***************************************************************************)
EXTENDS Ports, WellFoundedInduction, FiniteSetTheorems, TLAPS

USE PortAssumption

----------------------------------------------------------------------------
(* Induction up to a bound. *)

LEMMA LeastElement ==
  ASSUME NEW S, \A k \in S : k \in Nat, NEW x \in S
  PROVE  \E k \in S : \A j \in S : k <= j
<1>1. IsWellFoundedOn(OpToRel(<, Nat), Nat)
  BY NatLessThanWellFounded
<1>2. S \subseteq Nat /\ S # {}
  OBVIOUS
<1>3. \E k \in S : \A j \in S : ~(<<j, k>> \in OpToRel(<, Nat))
  BY <1>1, <1>2, WFMin
<1>4. \A j, k \in Nat : ~(<<j, k>> \in OpToRel(<, Nat)) => k <= j
  BY DEF OpToRel
<1> QED BY <1>3, <1>4

LEMMA UpTo ==
  ASSUME NEW n \in Nat, NEW S, 0 \in S, \A k \in 0..n - 1 : k \in S => k + 1 \in S
  PROVE  \A k \in 0..n : k \in S
<1> DEFINE T == {k \in 0..n : k \notin S}
<1> SUFFICES ASSUME NEW y \in T PROVE FALSE
  OBVIOUS
<1>1. \A k \in T : k \in Nat
  OBVIOUS
<1>2. PICK x \in T : \A j \in T : x <= j
  <2> HIDE DEF T
  <2> QED BY <1>1, LeastElement
<1>3. x # 0 /\ x \in 0..n /\ x \notin S
  BY <1>2
<1>4. x - 1 \in 0..n - 1 /\ x - 1 + 1 = x /\ ~(x <= x - 1)
  BY <1>3
<1>5. x - 1 \notin T
  BY <1>2, <1>4
<1>6. x - 1 \in S
  BY <1>4, <1>5
<1> QED BY <1>3, <1>4, <1>6

(* The loops: there is a first state, and each pass follows from the one   *)
(* before.                                                                 *)
LEMMA DropAllPasses ==
  ASSUME NEW conn, Len(conn) \in Nat
  PROVE  \E after : /\ DropAll(conn) = after[Len(conn)]
                    /\ after[0] = conn
                    /\ \A k \in 0..Len(conn) - 1 : after[k + 1] = DropAt(after[k], k + 1)
<1> DEFINE start == conn
           Pass(f, s) == IF s = 0 THEN start ELSE DropAt(f[s - 1], s)
           Upto(m) == \E f : f = [s \in 0..m |-> Pass(f, s)]
           S == {m \in 0..Len(conn) : Upto(m)}
<1>1. Upto(0)
  <2> DEFINE f == [s \in 0..0 |-> start]
  <2> HIDE DEF start
  <2>1. f = [s \in 0..0 |-> Pass(f, s)]
    OBVIOUS
  <2> HIDE DEF f
  <2> QED BY <2>1
<1>2. ASSUME NEW m \in 0..Len(conn) - 1, Upto(m)
      PROVE  Upto(m + 1)
  <2>1. PICK f : f = [s \in 0..m |-> Pass(f, s)]
    BY <1>2
  <2> DEFINE g == [s \in 0..m + 1 |-> IF s = m + 1 THEN Pass(f, s) ELSE f[s]]
  <2>2. \A s \in 0..m + 1 : g[s] = Pass(g, s)
    <3>1. \A s \in 0..m : g[s] = f[s] /\ f[s] = Pass(f, s)
      <4>1. \A s \in 0..m : g[s] = f[s]
        <5> HIDE DEF Pass
        <5> QED OBVIOUS
      <4>2. \A s \in 0..m : f[s] = Pass(f, s)
        <5> HIDE DEF Pass, g
        <5> QED BY <2>1
      <4> HIDE DEF Pass, g
      <4> QED BY <4>1, <4>2
    <3>2. g[m + 1] = Pass(f, m + 1)
      <4> HIDE DEF Pass
      <4> QED OBVIOUS
    <3> HIDE DEF g, start
    <3> QED BY <3>1, <3>2
  <2>3. g = [s \in 0..m + 1 |-> g[s]]
    <3> HIDE DEF Pass
    <3> QED OBVIOUS
  <2> HIDE DEF g, Pass
  <2>4. g = [s \in 0..m + 1 |-> Pass(g, s)]
    BY <2>2, <2>3
  <2> QED BY <2>4
<1>3. \A m \in 0..Len(conn) : m \in S
  <2> HIDE DEF Upto
  <2>1. 0 \in S
    BY <1>1
  <2>2. \A k \in 0..Len(conn) - 1 : k \in S => k + 1 \in S
    BY <1>2
  <2> HIDE DEF S
  <2> QED BY <2>1, <2>2, UpTo
<1> DEFINE after == CHOOSE f : f = [s \in 0..Len(conn) |-> Pass(f, s)]
<1>4. after = [s \in 0..Len(conn) |-> Pass(after, s)]
  <2>1. Upto(Len(conn))
    <3> HIDE DEF Upto
    <3> QED BY <1>3
  <2> HIDE DEF Pass
  <2> QED BY <2>1
<1>5. DropAll(conn) = after[Len(conn)]
  BY DEF DropAll
<1>6. /\ after[0] = conn
      /\ \A k \in 0..Len(conn) - 1 : after[k + 1] = DropAt(after[k], k + 1)
  <2>1. \A s \in 0..Len(conn) : after[s] = Pass(after, s)
    <3> HIDE DEF after, Pass
    <3> QED BY <1>4
  <2> HIDE DEF after, start
  <2>2. after[0] = start
    BY <2>1
  <2>3. \A k \in 0..Len(conn) - 1 : k + 1 \in 0..Len(conn) /\ k + 1 # 0 /\ k + 1 - 1 = k
    OBVIOUS
  <2>4. \A k \in 0..Len(conn) - 1 : after[k + 1] = DropAt(after[k], k + 1)
    BY <2>1, <2>3
  <2> QED BY <2>2, <2>4 DEF start
<1> HIDE DEF after
<1> QED BY <1>5, <1>6

LEMMA CutAllPasses ==
  ASSUME NEW conn, Len(conn) \in Nat
  PROVE  \E after : /\ CutAll(conn) = after[Len(conn)]
                    /\ after[0] = conn
                    /\ \A k \in 0..Len(conn) - 1 : after[k + 1] = CutAt(after[k], k + 1)
<1> DEFINE start == conn
           Pass(f, s) == IF s = 0 THEN start ELSE CutAt(f[s - 1], s)
           Upto(m) == \E f : f = [s \in 0..m |-> Pass(f, s)]
           S == {m \in 0..Len(conn) : Upto(m)}
<1>1. Upto(0)
  <2> DEFINE f == [s \in 0..0 |-> start]
  <2> HIDE DEF start
  <2>1. f = [s \in 0..0 |-> Pass(f, s)]
    OBVIOUS
  <2> HIDE DEF f
  <2> QED BY <2>1
<1>2. ASSUME NEW m \in 0..Len(conn) - 1, Upto(m)
      PROVE  Upto(m + 1)
  <2>1. PICK f : f = [s \in 0..m |-> Pass(f, s)]
    BY <1>2
  <2> DEFINE g == [s \in 0..m + 1 |-> IF s = m + 1 THEN Pass(f, s) ELSE f[s]]
  <2>2. \A s \in 0..m + 1 : g[s] = Pass(g, s)
    <3>1. \A s \in 0..m : g[s] = f[s] /\ f[s] = Pass(f, s)
      <4>1. \A s \in 0..m : g[s] = f[s]
        <5> HIDE DEF Pass
        <5> QED OBVIOUS
      <4>2. \A s \in 0..m : f[s] = Pass(f, s)
        <5> HIDE DEF Pass, g
        <5> QED BY <2>1
      <4> HIDE DEF Pass, g
      <4> QED BY <4>1, <4>2
    <3>2. g[m + 1] = Pass(f, m + 1)
      <4> HIDE DEF Pass
      <4> QED OBVIOUS
    <3> HIDE DEF g, start
    <3> QED BY <3>1, <3>2
  <2>3. g = [s \in 0..m + 1 |-> g[s]]
    <3> HIDE DEF Pass
    <3> QED OBVIOUS
  <2> HIDE DEF g, Pass
  <2>4. g = [s \in 0..m + 1 |-> Pass(g, s)]
    BY <2>2, <2>3
  <2> QED BY <2>4
<1>3. \A m \in 0..Len(conn) : m \in S
  <2> HIDE DEF Upto
  <2>1. 0 \in S
    BY <1>1
  <2>2. \A k \in 0..Len(conn) - 1 : k \in S => k + 1 \in S
    BY <1>2
  <2> HIDE DEF S
  <2> QED BY <2>1, <2>2, UpTo
<1> DEFINE after == CHOOSE f : f = [s \in 0..Len(conn) |-> Pass(f, s)]
<1>4. after = [s \in 0..Len(conn) |-> Pass(after, s)]
  <2>1. Upto(Len(conn))
    <3> HIDE DEF Upto
    <3> QED BY <1>3
  <2> HIDE DEF Pass
  <2> QED BY <2>1
<1>5. CutAll(conn) = after[Len(conn)]
  BY DEF CutAll
<1>6. /\ after[0] = conn
      /\ \A k \in 0..Len(conn) - 1 : after[k + 1] = CutAt(after[k], k + 1)
  <2>1. \A s \in 0..Len(conn) : after[s] = Pass(after, s)
    <3> HIDE DEF after, Pass
    <3> QED BY <1>4
  <2> HIDE DEF after, start
  <2>2. after[0] = start
    BY <2>1
  <2>3. \A k \in 0..Len(conn) - 1 : k + 1 \in 0..Len(conn) /\ k + 1 # 0 /\ k + 1 - 1 = k
    OBVIOUS
  <2>4. \A k \in 0..Len(conn) - 1 : after[k + 1] = CutAt(after[k], k + 1)
    BY <2>1, <2>3
  <2> QED BY <2>2, <2>4 DEF start
<1> HIDE DEF after
<1> QED BY <1>5, <1>6

LEMMA MultiplexPasses ==
  ASSUME NEW conn, Len(conn) \in Nat
  PROVE  \E after : /\ Multiplex(conn) = after[Len(conn)]
                    /\ after[0] = [conn |-> conn, dels |-> {}, wait |-> FALSE]
                    /\ \A k \in 0..Len(conn) - 1 : after[k + 1] = UpdateRamp(after[k], k + 1)
<1> DEFINE start == [conn |-> conn, dels |-> {}, wait |-> FALSE]
           Pass(f, s) == IF s = 0 THEN start ELSE UpdateRamp(f[s - 1], s)
           Upto(m) == \E f : f = [s \in 0..m |-> Pass(f, s)]
           S == {m \in 0..Len(conn) : Upto(m)}
<1>1. Upto(0)
  <2> DEFINE f == [s \in 0..0 |-> start]
  <2> HIDE DEF start
  <2>1. f = [s \in 0..0 |-> Pass(f, s)]
    OBVIOUS
  <2> HIDE DEF f
  <2> QED BY <2>1
<1>2. ASSUME NEW m \in 0..Len(conn) - 1, Upto(m)
      PROVE  Upto(m + 1)
  <2>1. PICK f : f = [s \in 0..m |-> Pass(f, s)]
    BY <1>2
  <2> DEFINE g == [s \in 0..m + 1 |-> IF s = m + 1 THEN Pass(f, s) ELSE f[s]]
  <2>2. \A s \in 0..m + 1 : g[s] = Pass(g, s)
    <3>1. \A s \in 0..m : g[s] = f[s] /\ f[s] = Pass(f, s)
      <4>1. \A s \in 0..m : g[s] = f[s]
        <5> HIDE DEF Pass
        <5> QED OBVIOUS
      <4>2. \A s \in 0..m : f[s] = Pass(f, s)
        <5> HIDE DEF Pass, g
        <5> QED BY <2>1
      <4> HIDE DEF Pass, g
      <4> QED BY <4>1, <4>2
    <3>2. g[m + 1] = Pass(f, m + 1)
      <4> HIDE DEF Pass
      <4> QED OBVIOUS
    <3> HIDE DEF g, start
    <3> QED BY <3>1, <3>2
  <2>3. g = [s \in 0..m + 1 |-> g[s]]
    <3> HIDE DEF Pass
    <3> QED OBVIOUS
  <2> HIDE DEF g, Pass
  <2>4. g = [s \in 0..m + 1 |-> Pass(g, s)]
    BY <2>2, <2>3
  <2> QED BY <2>4
<1>3. \A m \in 0..Len(conn) : m \in S
  <2> HIDE DEF Upto
  <2>1. 0 \in S
    BY <1>1
  <2>2. \A k \in 0..Len(conn) - 1 : k \in S => k + 1 \in S
    BY <1>2
  <2> HIDE DEF S
  <2> QED BY <2>1, <2>2, UpTo
<1> DEFINE after == CHOOSE f : f = [s \in 0..Len(conn) |-> Pass(f, s)]
<1>4. after = [s \in 0..Len(conn) |-> Pass(after, s)]
  <2>1. Upto(Len(conn))
    <3> HIDE DEF Upto
    <3> QED BY <1>3
  <2> HIDE DEF Pass
  <2> QED BY <2>1
<1>5. Multiplex(conn) = after[Len(conn)]
  BY DEF Multiplex
<1>6. /\ after[0] = [conn |-> conn, dels |-> {}, wait |-> FALSE]
      /\ \A k \in 0..Len(conn) - 1 : after[k + 1] = UpdateRamp(after[k], k + 1)
  <2>1. \A s \in 0..Len(conn) : after[s] = Pass(after, s)
    <3> HIDE DEF after, Pass
    <3> QED BY <1>4
  <2> HIDE DEF after, start
  <2>2. after[0] = start
    BY <2>1
  <2>3. \A k \in 0..Len(conn) - 1 : k + 1 \in 0..Len(conn) /\ k + 1 # 0 /\ k + 1 - 1 = k
    OBVIOUS
  <2>4. \A k \in 0..Len(conn) - 1 : after[k + 1] = UpdateRamp(after[k], k + 1)
    BY <2>1, <2>3
  <2> QED BY <2>2, <2>4 DEF start
<1> HIDE DEF after
<1> QED BY <1>5, <1>6

----------------------------------------------------------------------------
(* Places.  The s-th of the places kept has s of them up to it. *)

Rank(kept, k) == Cardinality({j \in kept : j <= k})

LEMMA PlaceExists ==
  ASSUME NEW n \in Nat
  PROVE  \A kept \in SUBSET (1..n) : /\ IsFiniteSet(kept) /\ Cardinality(kept) \in 0..n
                                     /\ \A s \in 1..Cardinality(kept) : \E k \in kept : Rank(kept, k) = s
<1> DEFINE Ranked(kept) == \A s \in 1..Cardinality(kept) : \E k \in kept : Rank(kept, k) = s
           S == {m \in 0..n : \A kept \in SUBSET (1..m) : Ranked(kept)}
<1>1. ASSUME NEW m \in Nat, NEW kept \in SUBSET (1..m)
      PROVE  IsFiniteSet(kept) /\ Cardinality(kept) \in 0..m
  <2>1. IsFiniteSet(1..m) /\ Cardinality(1..m) = m
    BY FS_Interval
  <2>2. IsFiniteSet(kept) /\ Cardinality(kept) <= m
    <3> DEFINE U == 1..m
    <3>1. kept \in SUBSET U /\ IsFiniteSet(U) /\ Cardinality(U) = m
      BY <2>1
    <3> HIDE DEF U
    <3> QED BY <3>1, FS_Subset
  <2>3. Cardinality(kept) \in Nat
    BY <2>2, FS_CardinalityType
  <2> QED BY <2>2, <2>3
<1>2. 0 \in S
  <2>1. ASSUME NEW kept \in SUBSET (1..0) PROVE Ranked(kept)
    <3>1. Cardinality(kept) = 0
      BY <1>1, 0 \in Nat
    <3> QED BY <3>1
  <2> HIDE DEF Ranked
  <2> QED BY <2>1
<1>3. ASSUME NEW m \in 0..n - 1, \A kept \in SUBSET (1..m) : Ranked(kept)
      PROVE  \A kept \in SUBSET (1..m + 1) : Ranked(kept)
  <2> SUFFICES ASSUME NEW kept \in SUBSET (1..m + 1), NEW s \in 1..Cardinality(kept)
               PROVE  \E k \in kept : Rank(kept, k) = s
    OBVIOUS
  <2>1. IsFiniteSet(kept) /\ Cardinality(kept) \in Nat
    BY <1>1, m + 1 \in Nat
  <2>2. CASE m + 1 \notin kept
    <3>1. kept \in SUBSET (1..m)
      BY <2>2
    <3> QED BY <1>3, <3>1
  <2>3. CASE m + 1 \in kept
    <3> DEFINE less == kept \ {m + 1}
    <3>1. less \in SUBSET (1..m)
      OBVIOUS
    <3>2. Cardinality(less) = Cardinality(kept) - 1
      BY <2>1, <2>3, FS_RemoveElement
    <3>3. CASE s = Cardinality(kept)
      <4>1. {j \in kept : j <= m + 1} = kept
        <5>1. \A j \in kept : j <= m + 1
          OBVIOUS
        <5> QED BY <5>1
      <4> QED BY <2>3, <3>3, <4>1 DEF Rank
    <3>4. CASE s # Cardinality(kept)
      <4>1. s \in 1..Cardinality(less)
        BY <2>1, <3>2, <3>4
      <4>2. PICK k \in less : Rank(less, k) = s
        <5> HIDE DEF less
        <5> QED BY <1>3, <3>1, <4>1
      <4>3. {j \in kept : j <= k} = {j \in less : j <= k}
        OBVIOUS
      <4> QED BY <4>2, <4>3 DEF Rank
    <3> QED BY <3>3, <3>4
  <2> QED BY <2>2, <2>3
<1>4. \A m \in 0..n : m \in S
  <2> HIDE DEF Ranked
  <2>1. \A k \in 0..n - 1 : k \in S => k + 1 \in S
    BY <1>3
  <2> HIDE DEF S
  <2> QED BY <1>2, <2>1, UpTo
<1>5. \A kept \in SUBSET (1..n) : Ranked(kept)
  <2> HIDE DEF Ranked
  <2>1. n \in S
    BY <1>4
  <2> QED BY <2>1
<1> QED BY <1>1, <1>5

(* So Place numbers the places kept, each once.                            *)
LEMMA PlaceFact ==
  ASSUME NEW n \in Nat, NEW kept \in SUBSET (1..n)
  PROVE  /\ Cardinality(kept) \in 0..n
         /\ \A s \in 1..Cardinality(kept) : Place(kept, s) \in kept
         /\ \A s, r \in 1..Cardinality(kept) : Place(kept, s) = Place(kept, r) => s = r
         /\ \A k \in kept : \E s \in 1..Cardinality(kept) : Place(kept, s) = k
         /\ kept = 1..n => Cardinality(kept) = n /\ \A s \in 1..n : Place(kept, s) = s
<1>1. IsFiniteSet(kept) /\ Cardinality(kept) \in 0..n
  BY PlaceExists
<1>2. \A s \in 1..Cardinality(kept) : Place(kept, s) \in kept /\ Rank(kept, Place(kept, s)) = s
  <2> SUFFICES ASSUME NEW s \in 1..Cardinality(kept)
               PROVE  Place(kept, s) \in kept /\ Rank(kept, Place(kept, s)) = s
    OBVIOUS
  <2>1. \E k \in kept : Rank(kept, k) = s
    BY PlaceExists
  <2> QED BY <2>1 DEF Place, Rank
<1>3. ASSUME NEW k \in kept
      PROVE  Rank(kept, k) \in 1..Cardinality(kept)
  <2> DEFINE A == {j \in kept : j <= k}
  <2>1. A \subseteq kept /\ k \in A
    OBVIOUS
  <2>2. IsFiniteSet(A) /\ Cardinality(A) \in Nat /\ Cardinality(A) <= Cardinality(kept)
    <3> HIDE DEF A
    <3> QED BY <1>1, <2>1, FS_Subset, FS_CardinalityType
  <2>3. Cardinality(A) # 0
    <3> HIDE DEF A
    <3> QED BY <2>1, <2>2, FS_EmptySet
  <2> QED BY <2>2, <2>3, <1>1 DEF Rank
<1>4. ASSUME NEW k \in kept, NEW l \in kept, k < l
      PROVE  Rank(kept, k) # Rank(kept, l)
  <2> DEFINE A == {j \in kept : j <= k}
             B == {j \in kept : j <= l}
  <2>1. A \subseteq B /\ l \in B /\ l \notin A /\ B \subseteq kept
    <3>1. k \in Int /\ l \in Int /\ \A j \in kept : j \in Int
      OBVIOUS
    <3>2. \A j \in kept : j <= k => j <= l
      BY <1>4, <3>1
    <3>3. ~(l <= k) /\ l <= l
      BY <1>4, <3>1
    <3> QED BY <3>2, <3>3
  <2>2. IsFiniteSet(B)
    <3> HIDE DEF A, B
    <3> QED BY <1>1, <2>1, FS_Subset
  <2>3. Cardinality(A) # Cardinality(B)
    <3> HIDE DEF A, B
    <3> QED BY <2>1, <2>2, FS_Subset
  <2> QED BY <2>3 DEF Rank
<1>5. ASSUME NEW k \in kept
      PROVE  \E s \in 1..Cardinality(kept) : Place(kept, s) = k
  <2>1. Rank(kept, k) \in 1..Cardinality(kept)
    BY <1>3
  <2>2. /\ Place(kept, Rank(kept, k)) \in kept
        /\ Rank(kept, Place(kept, Rank(kept, k))) = Rank(kept, k)
    BY <1>2, <2>1
  <2>3. \A j \in kept : Rank(kept, j) = Rank(kept, k) => j = k
    <3>1. \A j \in kept : j \in Int
      OBVIOUS
    <3> QED BY <1>4, <3>1
  <2> QED BY <2>1, <2>2, <2>3
<1>6. ASSUME kept = 1..n
      PROVE  Cardinality(kept) = n /\ \A s \in 1..n : Place(kept, s) = s
  <2>1. Cardinality(kept) = n
    BY <1>6, FS_Interval
  <2>2. ASSUME NEW k \in 1..n PROVE Rank(kept, k) = k
    <3>1. {j \in kept : j <= k} = 1..k
      BY <1>6
    <3>2. Cardinality(1..k) = k
      BY FS_Interval
    <3> QED BY <3>1, <3>2 DEF Rank
  <2> QED BY <1>2, <1>6, <2>1, <2>2
<1>7. \A s, r \in 1..Cardinality(kept) : Place(kept, s) = Place(kept, r) => s = r
  BY <1>2
<1> QED BY <1>1, <1>2, <1>5, <1>6, <1>7

----------------------------------------------------------------------------
(* One array.  Whatever happens to it, it keeps its type, grows by nothing *)
(* and holds no port twice that it did not hold twice before.              *)

Feeds(conn) == {conn[s].port : s \in DOMAIN conn}
Uniq(conn) == \A s, r \in DOMAIN conn : conn[s].port = conn[r].port => s = r
States == {"none", "up", "down", "del", "drain"}

Within(new, old) == /\ new \in Seq(Source) /\ Len(new) <= Len(old)
                    /\ Feeds(new) \subseteq Feeds(old)
                    /\ Uniq(old) => Uniq(new)

LEMMA SeqFact ==
  ASSUME NEW conn \in Seq(Source)
  PROVE  /\ Len(conn) \in Nat /\ DOMAIN conn = 1..Len(conn)
         /\ \A s \in DOMAIN conn : /\ conn[s] \in Source /\ conn[s].port \in Outs
                                   /\ conn[s].state \in States /\ conn[s].left \in 0..RampPeriods
<1>1. Len(conn) \in Nat /\ DOMAIN conn = 1..Len(conn) /\ \A s \in DOMAIN conn : conn[s] \in Source
  OBVIOUS
<1>2. \A src \in Source : /\ src.port \in Outs /\ src.state \in States
                          /\ src.left \in 0..RampPeriods
  BY DEF Source, States
<1> QED BY <1>1, <1>2

LEMMA WithinTrans ==
  ASSUME NEW a \in Seq(Source), NEW b \in Seq(Source), NEW c, Within(c, b), Within(b, a)
  PROVE  Within(c, a)
<1>1. Len(a) \in Nat /\ Len(b) \in Nat /\ Len(c) \in Nat
  BY SeqFact DEF Within
<1> QED BY <1>1 DEF Within

LEMMA WithinSelf ==
  ASSUME NEW conn \in Seq(Source)
  PROVE  Within(conn, conn)
  BY SeqFact DEF Within

LEMMA CutFact ==
  ASSUME NEW conn \in Seq(Source), NEW ports
  PROVE  /\ Within(Cut(conn, ports), conn)
         /\ Feeds(Cut(conn, ports)) = Feeds(conn) \ ports
         /\ \A s \in DOMAIN Cut(conn, ports) :
              /\ s \in DOMAIN conn
              /\ Cut(conn, ports)[s].state = conn[s].state /\ Cut(conn, ports)[s].left = conn[s].left
         /\ Feeds(conn) \cap ports = {} => Cut(conn, ports) = conn
<1> DEFINE kept == Kept(conn, ports)
           cut == Cut(conn, ports)
           n == Cardinality(kept)
<1>0. Len(conn) \in Nat /\ DOMAIN conn = 1..Len(conn)
  BY SeqFact
<1>1. kept \in SUBSET (1..Len(conn)) /\ \A k \in 1..Len(conn) : k \in kept <=> conn[k].port \notin ports
  BY <1>0 DEF Kept
<1>2. cut = [s \in 1..n |-> [conn[s] EXCEPT !.port = conn[Place(kept, s)].port]]
  BY DEF Cut
<1>3. /\ n \in 0..Len(conn)
      /\ \A s \in 1..n : Place(kept, s) \in kept
      /\ \A s, r \in 1..n : Place(kept, s) = Place(kept, r) => s = r
      /\ \A k \in kept : \E s \in 1..n : Place(kept, s) = k
      /\ kept = 1..Len(conn) => n = Len(conn) /\ \A s \in 1..n : Place(kept, s) = s
  <2> HIDE DEF kept
  <2> QED BY <1>0, <1>1, PlaceFact
<1> HIDE DEF kept, cut, n
<1>a. n \in Nat /\ n <= Len(conn) /\ \A s \in 1..n : s \in 1..Len(conn)
  <2>1. \A L \in Nat : \A c \in 0..L : c \in Nat /\ c <= L /\ \A s \in 1..c : s \in 1..L
    OBVIOUS
  <2> QED BY <1>0, <1>3, <2>1
<1>4. ASSUME NEW s \in 1..n
      PROVE  /\ s \in 1..Len(conn) /\ Place(kept, s) \in 1..Len(conn)
             /\ conn[Place(kept, s)].port \notin ports
             /\ cut[s] \in Source /\ cut[s].port = conn[Place(kept, s)].port
             /\ cut[s].state = conn[s].state /\ cut[s].left = conn[s].left
  <2>1. s \in 1..Len(conn) /\ Place(kept, s) \in kept
    BY <1>3, <1>a
  <2>2. Place(kept, s) \in 1..Len(conn) /\ conn[Place(kept, s)].port \notin ports
    BY <1>1, <2>1
  <2>3. conn[s] \in Source /\ conn[Place(kept, s)].port \in Outs
    BY <1>0, <2>1, <2>2, SeqFact
  <2>4. cut[s] = [conn[s] EXCEPT !.port = conn[Place(kept, s)].port]
    BY <1>2
  <2> QED BY <2>1, <2>2, <2>3, <2>4 DEF Source
<1>5. cut \in Seq(Source) /\ Len(cut) = n /\ DOMAIN cut = 1..n
  <2>1. DOMAIN cut = 1..n /\ n \in Nat
    BY <1>2, <1>3, <1>0
  <2>2. cut \in [1..n -> Source]
    BY <1>2, <1>4
  <2> QED BY <2>1, <2>2
<1>6. Feeds(cut) = Feeds(conn) \ ports
  <2>1. ASSUME NEW o \in Feeds(cut) PROVE o \in Feeds(conn) \ ports
    <3>1. PICK s \in 1..n : cut[s].port = o
      BY <1>5 DEF Feeds
    <3> QED BY <1>0, <1>4, <3>1 DEF Feeds
  <2>2. ASSUME NEW o \in Feeds(conn) \ ports PROVE o \in Feeds(cut)
    <3>1. PICK k \in 1..Len(conn) : conn[k].port = o
      BY <1>0 DEF Feeds
    <3>2. PICK s \in 1..n : Place(kept, s) = k
      BY <1>1, <1>3, <3>1
    <3> QED BY <1>4, <1>5, <3>1, <3>2 DEF Feeds
  <2> QED BY <2>1, <2>2
<1>7. ASSUME Uniq(conn) PROVE Uniq(cut)
  <2> SUFFICES ASSUME NEW s \in 1..n, NEW r \in 1..n, cut[s].port = cut[r].port
               PROVE  s = r
    BY <1>5 DEF Uniq
  <2>1. Place(kept, s) = Place(kept, r)
    BY <1>0, <1>4, <1>7 DEF Uniq
  <2> QED BY <1>3, <2>1
<1>8. ASSUME Feeds(conn) \cap ports = {} PROVE cut = conn
  <2>1. kept = 1..Len(conn)
    <3>1. \A k \in 1..Len(conn) : conn[k].port \in Feeds(conn)
      BY <1>0 DEF Feeds
    <3> QED BY <1>1, <1>8, <3>1
  <2>2. n = Len(conn) /\ \A s \in 1..n : Place(kept, s) = s
    BY <1>3, <2>1
  <2>3. \A s \in 1..n : [conn[s] EXCEPT !.port = conn[s].port] = conn[s]
    <3>1. \A s \in 1..n : conn[s] \in Source
      BY <1>0, <2>2, SeqFact
    <3> QED BY <3>1 DEF Source
  <2>4. \A s \in 1..n : cut[s] = conn[s]
    BY <1>2, <2>2, <2>3
  <2> QED BY <1>0, <1>5, <2>2, <2>4
<1>9. Within(cut, conn)
  <2>1. Len(cut) <= Len(conn)
    BY <1>a, <1>5
  <2> QED BY <1>5, <1>6, <1>7, <2>1 DEF Within
<1>10. \A s \in DOMAIN cut : s \in DOMAIN conn /\ cut[s].state = conn[s].state /\ cut[s].left = conn[s].left
  BY <1>0, <1>4, <1>5
<1> QED BY <1>6, <1>8, <1>9, <1>10 DEF cut

LEMMA StartFact ==
  ASSUME NEW conn \in Seq(Source), NEW at, NEW state \in States
  PROVE  /\ Within(Start(conn, at, state), conn)
         /\ Feeds(Start(conn, at, state)) = Feeds(conn)
         /\ DOMAIN Start(conn, at, state) = DOMAIN conn
         /\ \A s \in DOMAIN conn :
              /\ Start(conn, at, state)[s].port = conn[s].port
              /\ s \in at => /\ Start(conn, at, state)[s].state = state
                             /\ Start(conn, at, state)[s].left = RampPeriods
              /\ s \notin at => Start(conn, at, state)[s] = conn[s]
         /\ at = {} => Start(conn, at, state) = conn
<1> DEFINE new == Start(conn, at, state)
<1>0. Len(conn) \in Nat /\ DOMAIN conn = 1..Len(conn) /\ \A s \in DOMAIN conn : conn[s] \in Source
  BY SeqFact
<1>1. ASSUME NEW src \in Source
      PROVE  LET on == [src EXCEPT !.state = state, !.left = RampPeriods]
             IN  on \in Source /\ on.port = src.port /\ on.state = state /\ on.left = RampPeriods
  <2>1. RampPeriods \in 0..RampPeriods
    OBVIOUS
  <2> HIDE PortAssumption
  <2> QED BY <2>1 DEF Source, States
<1>2. new = [s \in DOMAIN conn |-> IF s \in at THEN [conn[s] EXCEPT !.state = state, !.left = RampPeriods]
                                               ELSE conn[s]]
  BY DEF Start
<1> HIDE DEF new
<1>3. \A s \in DOMAIN conn :
        /\ new[s] \in Source /\ new[s].port = conn[s].port
        /\ s \in at => new[s].state = state /\ new[s].left = RampPeriods
        /\ s \notin at => new[s] = conn[s]
  BY <1>0, <1>1, <1>2
<1>4. DOMAIN new = DOMAIN conn /\ new \in [1..Len(conn) -> Source]
  BY <1>0, <1>2, <1>3
<1>5. new \in Seq(Source) /\ Len(new) = Len(conn)
  BY <1>0, <1>4
<1>6. Feeds(new) = Feeds(conn) /\ (Uniq(conn) => Uniq(new))
  BY <1>3, <1>4 DEF Feeds, Uniq
<1>7. at = {} => new = conn
  BY <1>0, <1>2
<1>8. Within(new, conn)
  BY <1>0, <1>5, <1>6 DEF Within
<1> QED BY <1>3, <1>4, <1>6, <1>7, <1>8 DEF new

(* What is asked to go: audio that is not ramped starts to fade, what is   *)
(* no audio is cut.                                                        *)
LEMMA DropFact ==
  ASSUME NEW conn \in Seq(Source), NEW ports, NEW state \in States
  PROVE  /\ Within(DropRequest(conn, ports, state), conn)
         /\ Feeds(conn) \ (ports \ Audio) = Feeds(DropRequest(conn, ports, state))
         /\ Feeds(conn) \subseteq Audio =>
              DropRequest(conn, ports, state) =
                Start(conn, {s \in DOMAIN conn : conn[s].port \in ports /\ conn[s].state = "none"}, state)
         /\ Feeds(conn) \cap Audio = {} => DropRequest(conn, ports, state) = Cut(conn, ports)
<1> DEFINE at == {s \in DOMAIN conn : conn[s].port \in ports \cap Audio /\ conn[s].state = "none"}
           mid == Start(conn, at, state)
<1>1. DropRequest(conn, ports, state) = Cut(mid, ports \ Audio)
  BY DEF DropRequest
<1> HIDE DEF at
<1>2. /\ Within(mid, conn) /\ mid \in Seq(Source) /\ Feeds(mid) = Feeds(conn)
      /\ at = {} => mid = conn
  BY StartFact DEF Within
<1> HIDE DEF mid
<1>3. /\ Within(Cut(mid, ports \ Audio), mid)
      /\ Feeds(Cut(mid, ports \ Audio)) = Feeds(mid) \ (ports \ Audio)
      /\ Feeds(mid) \cap (ports \ Audio) = {} => Cut(mid, ports \ Audio) = mid
  BY <1>2, CutFact
<1>4. Within(Cut(mid, ports \ Audio), conn)
  BY <1>2, <1>3, WithinTrans
<1>5. ASSUME Feeds(conn) \subseteq Audio
      PROVE  DropRequest(conn, ports, state) =
               Start(conn, {s \in DOMAIN conn : conn[s].port \in ports /\ conn[s].state = "none"}, state)
  <2>1. at = {s \in DOMAIN conn : conn[s].port \in ports /\ conn[s].state = "none"}
    BY <1>5 DEF at, Feeds
  <2>2. Feeds(mid) \cap (ports \ Audio) = {}
    BY <1>2, <1>5
  <2> QED BY <1>1, <1>3, <2>1, <2>2 DEF mid
<1>6. ASSUME Feeds(conn) \cap Audio = {}
      PROVE  DropRequest(conn, ports, state) = Cut(conn, ports)
  <2>1. at = {}
    BY <1>6 DEF at, Feeds
  <2>2. \A s \in DOMAIN conn : conn[s].port \notin Audio
    BY <1>6 DEF Feeds
  <2>3. Kept(conn, ports \ Audio) = Kept(conn, ports)
    BY <2>2 DEF Kept
  <2> QED BY <1>1, <1>2, <2>1, <2>3 DEF Cut
<1> QED BY <1>1, <1>2, <1>3, <1>4, <1>5, <1>6

(* The loops that drop or cut only take sources away.                      *)
LEMMA DropAllFact ==
  ASSUME NEW conn \in Seq(Source)
  PROVE  Within(DropAll(conn), conn)
<1>1. PICK after : /\ DropAll(conn) = after[Len(conn)]
                   /\ after[0] = conn
                   /\ \A k \in 0..Len(conn) - 1 : after[k + 1] = DropAt(after[k], k + 1)
  BY SeqFact, DropAllPasses
<1> DEFINE S == {k \in 0..Len(conn) : Within(after[k], conn)}
<1>0. Len(conn) \in Nat
  BY SeqFact
<1>2. 0 \in S
  BY <1>0, <1>1, WithinSelf
<1>3. ASSUME NEW k \in 0..Len(conn) - 1, k \in S PROVE k + 1 \in S
  <2>1. Within(after[k], conn) /\ after[k] \in Seq(Source)
    BY <1>3 DEF Within
  <2>2. Within(DropAt(after[k], k + 1), after[k])
    <3> "down" \in States
      BY DEF States
    <3> QED BY <2>1, WithinSelf, DropFact DEF DropAt
  <2>3. Within(after[k + 1], conn)
    BY <1>1, <2>1, <2>2, WithinTrans
  <2> QED BY <1>0, <2>3
<1> HIDE DEF S
<1>4. \A k \in 0..Len(conn) : k \in S
  BY <1>0, <1>2, <1>3, UpTo
<1>5. Len(conn) \in S
  BY <1>0, <1>4
<1> QED BY <1>1, <1>5 DEF S

LEMMA CutAllFact ==
  ASSUME NEW conn \in Seq(Source)
  PROVE  Within(CutAll(conn), conn)
<1>1. PICK after : /\ CutAll(conn) = after[Len(conn)]
                   /\ after[0] = conn
                   /\ \A k \in 0..Len(conn) - 1 : after[k + 1] = CutAt(after[k], k + 1)
  BY SeqFact, CutAllPasses
<1> DEFINE S == {k \in 0..Len(conn) : Within(after[k], conn)}
<1>0. Len(conn) \in Nat
  BY SeqFact
<1>2. 0 \in S
  BY <1>0, <1>1, WithinSelf
<1>3. ASSUME NEW k \in 0..Len(conn) - 1, k \in S PROVE k + 1 \in S
  <2>1. Within(after[k], conn) /\ after[k] \in Seq(Source)
    BY <1>3 DEF Within
  <2>2. Within(CutAt(after[k], k + 1), after[k])
    BY <2>1, WithinSelf, CutFact DEF CutAt
  <2>3. Within(after[k + 1], conn)
    BY <1>1, <2>1, <2>2, WithinTrans
  <2> QED BY <1>0, <2>3
<1> HIDE DEF S
<1>4. \A k \in 0..Len(conn) : k \in S
  BY <1>0, <1>2, <1>3, UpTo
<1>5. Len(conn) \in S
  BY <1>0, <1>4
<1> QED BY <1>1, <1>5 DEF S

----------------------------------------------------------------------------
(* A ramp, and all ramps of an array, for one period. *)

Runs == [conn : Seq(Source), dels : SUBSET Mods, wait : BOOLEAN]
Falls == {"down", "del"}

\* The ramp of a source that is neither cut nor about to be.
Later(src) == IF src.state = "none" THEN src
              ELSE IF src.left > 1 THEN [src EXCEPT !.left = @ - 1]
              ELSE IF src.state = "drain" THEN [src EXCEPT !.left = 0]
              ELSE [src EXCEPT !.state = "none"]

Ends(src) == src.state \in Falls /\ ~(src.left > 1)
Marks(src) == IF src.state = "del" THEN {Owner[src.port]} ELSE {}
Quiet(src) == src.state = "drain" /\ ~(src.left > 1)

LEMMA LaterFact ==
  ASSUME NEW src \in Source
  PROVE  /\ Later(src) \in Source /\ Later(src).port = src.port
         /\ Later(src).state \in {src.state, "none"}
         /\ src.state = "drain" => /\ Later(src).state = "drain"
                                   /\ Later(src).left = IF src.left > 1 THEN src.left - 1 ELSE 0
         /\ src.state \in Falls /\ ~Ends(src) => Later(src) = [src EXCEPT !.left = @ - 1]
                                              /\ Later(src).state = src.state
<1>1. src.left \in 0..RampPeriods /\ src.state \in States /\ src.port \in Outs
  BY DEF Source, States
<1>2. src.left > 1 => src.left - 1 \in 0..RampPeriods
  BY <1>1
<1>3. 0 \in 0..RampPeriods
  OBVIOUS
<1> HIDE PortAssumption
<1>4. CASE src.state = "none"
  BY <1>4 DEF Later, Falls, Ends
<1>5. CASE src.state # "none" /\ src.left > 1
  <2>1. Later(src) = [src EXCEPT !.left = @ - 1]
    BY <1>5 DEF Later
  <2> QED BY <1>1, <1>2, <1>5, <2>1 DEF Source
<1>6. CASE src.state = "drain" /\ ~(src.left > 1)
  <2>1. Later(src) = [src EXCEPT !.left = 0]
    BY <1>6 DEF Later
  <2> QED BY <1>1, <1>3, <1>6, <2>1 DEF Source, Falls
<1>7. CASE src.state # "none" /\ src.state # "drain" /\ ~(src.left > 1)
  <2>1. Later(src) = [src EXCEPT !.state = "none"]
    BY <1>7 DEF Later
  <2> QED BY <1>1, <1>7, <2>1 DEF Source, Ends
<1> QED BY <1>4, <1>5, <1>6, <1>7

LEMMA UpdateFact ==
  ASSUME NEW run \in Runs, NEW s \in Nat \ {0}
  PROVE  LET new == UpdateRamp(run, s)
         IN
         /\ new \in Runs /\ Within(new.conn, run.conn)
         /\ s \notin DOMAIN run.conn => new = run
         /\ s \in DOMAIN run.conn /\ ~Ends(run.conn[s]) =>
              /\ DOMAIN new.conn = DOMAIN run.conn
              /\ new.conn[s] = Later(run.conn[s])
              /\ \A q \in DOMAIN run.conn : q # s => new.conn[q] = run.conn[q]
              /\ new.dels = run.dels
              /\ new.wait = (run.wait \/ Quiet(run.conn[s]))
         /\ s \in DOMAIN run.conn /\ Ends(run.conn[s]) =>
              /\ Feeds(new.conn) = Feeds(run.conn) \ {run.conn[s].port}
              /\ \A q \in DOMAIN new.conn :
                   /\ q \in DOMAIN run.conn
                   /\ new.conn[q].state = IF q = s THEN "none" ELSE run.conn[q].state
              /\ new.dels = run.dels \cup Marks(run.conn[s])
              /\ new.wait = run.wait
<1> DEFINE conn == run.conn
           src == conn[s]
           new == UpdateRamp(run, s)
<1>0. /\ conn \in Seq(Source) /\ run.dels \in SUBSET Mods /\ run.wait \in BOOLEAN
      /\ Len(conn) \in Nat /\ DOMAIN conn = 1..Len(conn)
      /\ s > Len(conn) <=> s \notin DOMAIN conn
  <2>1. conn \in Seq(Source) /\ run.dels \in SUBSET Mods /\ run.wait \in BOOLEAN
    BY DEF Runs
  <2>2. Len(conn) \in Nat /\ DOMAIN conn = 1..Len(conn)
    BY <2>1, SeqFact
  <2> HIDE DEF conn
  <2> QED BY <2>1, <2>2
<1>1. CASE s \notin DOMAIN conn
  <2>1. new = run
    BY <1>0, <1>1 DEF UpdateRamp
  <2> QED BY <1>0, <1>1, <2>1, WithinSelf
<1>2. CASE s \in DOMAIN conn
  <2>0. src \in Source /\ src.state \in States /\ src.left \in 0..RampPeriods /\ src.port \in Outs
    BY <1>0, <1>2, SeqFact
  <2> DEFINE Replaced(c) == c = [conn EXCEPT ![s] = Later(src)]
  <2>1. ASSUME NEW c, Replaced(c)
        PROVE  /\ c \in Seq(Source) /\ Within(c, conn) /\ DOMAIN c = DOMAIN conn
               /\ c[s] = Later(src) /\ \A q \in DOMAIN conn : q # s => c[q] = conn[q]
    <3> HIDE DEF conn, src
    <3>1. Later(src) \in Source /\ Later(src).port = src.port
      BY <2>0, LaterFact
    <3>2. DOMAIN c = DOMAIN conn /\ c[s] = Later(src) /\ \A q \in DOMAIN conn : q # s => c[q] = conn[q]
      BY <2>1, <1>2
    <3>3. c \in [1..Len(conn) -> Source]
      <4>1. \A q \in DOMAIN conn : conn[q] \in Source
        BY <1>0, SeqFact
      <4> QED BY <1>0, <2>1, <3>1, <4>1
    <3>4. c \in Seq(Source) /\ Len(c) = Len(conn)
      BY <1>0, <3>3
    <3>5. \A q \in DOMAIN conn : c[q].port = conn[q].port
      BY <3>1, <3>2 DEF src
    <3> QED BY <1>0, <3>2, <3>4, <3>5 DEF Within, Feeds, Uniq
  <2>2. CASE src.state = "none"
    <3>1. new = run
      BY <2>2 DEF UpdateRamp
    <3>2. Later(src) = src /\ ~Ends(src) /\ ~Quiet(src)
      BY <2>2 DEF Later, Ends, Quiet, Falls
    <3> QED BY <1>0, <1>2, <3>1, <3>2, WithinSelf
  <2>3. CASE src.state # "none" /\ src.left > 1
    <3>1. new = [run EXCEPT !.conn[s].left = @ - 1]
      BY <1>0, <1>2, <2>3 DEF UpdateRamp
    <3>2. new = [run EXCEPT !.conn = [conn EXCEPT ![s] = [src EXCEPT !.left = @ - 1]]]
      BY <3>1
    <3>3. Later(src) = [src EXCEPT !.left = @ - 1] /\ ~Ends(src) /\ ~Quiet(src)
      BY <2>3 DEF Later, Ends, Quiet
    <3>4. new.conn = [conn EXCEPT ![s] = Later(src)] /\ new.dels = run.dels /\ new.wait = run.wait
      BY <3>2, <3>3 DEF Runs
    <3>5. Replaced(new.conn)
      BY <3>4
    <3>6. new \in Runs
      <4> HIDE DEF conn
      <4>1. new.conn \in Seq(Source)
        BY <3>5, <2>1
      <4> QED BY <3>2, <3>4, <4>1 DEF Runs
    <3>7. new.wait = (run.wait \/ Quiet(src))
      BY <1>0, <3>3, <3>4
    <3>8. /\ Within(new.conn, conn) /\ DOMAIN new.conn = DOMAIN conn
          /\ new.conn[s] = Later(src) /\ \A q \in DOMAIN conn : q # s => new.conn[q] = conn[q]
      <4> HIDE DEF new, conn, src
      <4> QED BY <3>5, <2>1
    <3> HIDE DEF new, conn, src
    <3> QED BY <1>2, <3>3, <3>4, <3>6, <3>7, <3>8 DEF new, conn, src
  <2>4. CASE src.state # "none" /\ ~(src.left > 1)
    <3>1. new = RampEnd(run, s)
      BY <1>0, <1>2, <2>4 DEF UpdateRamp
    <3>2. CASE src.state \notin Falls
      <4>1. ~Ends(src) /\ (Quiet(src) <=> src.state = "drain")
        BY <2>4, <3>2 DEF Ends, Quiet
      <4>2. /\ new.conn = [conn EXCEPT ![s] = Later(src)] /\ new.dels = run.dels
            /\ new.wait = (run.wait \/ Quiet(src))
            /\ new = [conn |-> new.conn, dels |-> new.dels, wait |-> new.wait]
        <5>1. CASE src.state = "drain"
          <6>1. Later(src) = [src EXCEPT !.left = 0]
            BY <2>4, <5>1 DEF Later
          <6>2. new.conn = [conn EXCEPT ![s].left = 0]
            BY <3>1, <5>1 DEF RampEnd
          <6>3. /\ new.dels = run.dels /\ new.wait = (run.wait \/ Quiet(src))
                /\ new = [conn |-> new.conn, dels |-> new.dels, wait |-> new.wait]
            BY <3>1, <4>1, <5>1 DEF RampEnd
          <6> QED BY <6>1, <6>2, <6>3
        <5>2. CASE src.state # "drain"
          <6>1. Later(src) = [src EXCEPT !.state = "none"]
            BY <2>4, <5>2 DEF Later
          <6>2. new.conn = [q \in DOMAIN conn |-> IF q = s THEN [conn[q] EXCEPT !.state = "none"] ELSE conn[q]]
            BY <3>1, <3>2, <5>2 DEF RampEnd, Falls
          <6>3. new.conn = [conn EXCEPT ![s] = Later(src)]
            <7> HIDE DEF conn, new
            <7> QED BY <6>1, <6>2 DEF src
          <6>4. /\ new.dels = run.dels /\ new.wait = (run.wait \/ Quiet(src))
                /\ new = [conn |-> new.conn, dels |-> new.dels, wait |-> new.wait]
            BY <3>1, <3>2, <4>1, <5>2 DEF RampEnd, Falls
          <6> QED BY <6>3, <6>4
        <5> QED BY <5>1, <5>2
      <4> HIDE DEF new
      <4>3. Replaced(new.conn)
        BY <4>2
      <4>4. new \in Runs
        <5>1. new.conn \in Seq(Source)
          <6> HIDE DEF conn
          <6> QED BY <4>3, <2>1
        <5>2. new.wait \in BOOLEAN
          BY <4>2
        <5>3. new.dels \in SUBSET Mods
          BY <1>0, <4>2
        <5>4. new = [conn |-> new.conn, dels |-> new.dels, wait |-> new.wait]
          BY <4>2
        <5>5. \A c \in Seq(Source), d \in SUBSET Mods, w \in BOOLEAN :
                [conn |-> c, dels |-> d, wait |-> w] \in Runs
          BY DEF Runs
        <5> QED BY <5>5, <5>1, <5>2, <5>3, <5>4 DEF Runs
      <4>5. /\ Within(new.conn, conn) /\ DOMAIN new.conn = DOMAIN conn
            /\ new.conn[s] = Later(src) /\ \A q \in DOMAIN conn : q # s => new.conn[q] = conn[q]
        <5> HIDE DEF conn, src
        <5> QED BY <4>3, <2>1
      <4> HIDE DEF conn, src
      <4> QED BY <1>2, <4>1, <4>2, <4>4, <4>5 DEF new, conn, src
    <3>3. CASE src.state \in Falls
      <4> DEFINE cut == Cut(conn, {src.port})
      <4>1. Ends(src)
        BY <2>4, <3>3 DEF Ends
      <4>2. /\ new.conn = [q \in DOMAIN cut |-> IF q = s THEN [cut[q] EXCEPT !.state = "none"] ELSE cut[q]]
            /\ new.dels = run.dels \cup Marks(src)
            /\ new.wait = run.wait
            /\ new = [conn |-> new.conn, dels |-> new.dels, wait |-> new.wait]
        BY <1>0, <3>1, <3>3 DEF RampEnd, Falls, Marks
      <4>3. /\ Within(cut, conn) /\ Feeds(cut) = Feeds(conn) \ {src.port}
            /\ \A q \in DOMAIN cut : q \in DOMAIN conn /\ cut[q].state = conn[q].state
        BY <1>0, CutFact
      <4> HIDE DEF new, cut, conn, src
      <4>4. cut \in Seq(Source)
        BY <4>3 DEF Within
      <4>5. /\ Len(cut) \in Nat /\ DOMAIN cut = 1..Len(cut)
            /\ \A q \in DOMAIN cut : cut[q] \in Source
        BY <4>4, SeqFact
      <4>6. \A r \in Source : LET off == [r EXCEPT !.state = "none"]
                              IN  off \in Source /\ off.port = r.port /\ off.state = "none"
        BY DEF Source
      <4>7. \A q \in DOMAIN cut : /\ new.conn[q] \in Source /\ new.conn[q].port = cut[q].port
                                  /\ new.conn[q].state = IF q = s THEN "none" ELSE cut[q].state
        BY <4>2, <4>5, <4>6
      <4>8. DOMAIN new.conn = DOMAIN cut /\ new.conn \in [1..Len(cut) -> Source]
        BY <4>2, <4>5, <4>7
      <4>9. new.conn \in Seq(Source) /\ Len(new.conn) = Len(cut)
        BY <4>5, <4>8
      <4>10. Feeds(new.conn) = Feeds(cut) /\ (Uniq(cut) => Uniq(new.conn))
        BY <4>7, <4>8 DEF Feeds, Uniq
      <4>11. Within(new.conn, conn)
        BY <4>3, <4>9, <4>10 DEF Within
      <4>12. Marks(src) \subseteq Mods
        BY <2>0 DEF Marks
      <4>13. new \in Runs
        BY <1>0, <4>2, <4>9, <4>12 DEF Runs
      <4>14. /\ Feeds(new.conn) = Feeds(conn) \ {src.port}
             /\ \A q \in DOMAIN new.conn :
                  /\ q \in DOMAIN conn
                  /\ new.conn[q].state = IF q = s THEN "none" ELSE conn[q].state
        BY <4>3, <4>7, <4>8, <4>10
      <4> QED BY <1>2, <4>1, <4>2, <4>11, <4>13, <4>14 DEF new, conn, src
    <3> QED BY <3>2, <3>3
  <2> QED BY <2>2, <2>3, <2>4
<1> QED BY <1>1, <1>2

LEMMA UpdatePast ==
  ASSUME NEW run \in Runs, NEW s \in Nat \ {0}, s \notin DOMAIN run.conn
  PROVE  UpdateRamp(run, s) = run
  BY UpdateFact

LEMMA UpdateEach ==
  ASSUME NEW run \in Runs, NEW s \in Nat \ {0}, s \in DOMAIN run.conn, ~Ends(run.conn[s]),
         NEW new, new = UpdateRamp(run, s)
  PROVE  /\ new \in Runs /\ DOMAIN new.conn = DOMAIN run.conn
         /\ new.conn[s] = Later(run.conn[s])
         /\ \A q \in DOMAIN run.conn : q # s => new.conn[q] = run.conn[q]
         /\ new.dels = run.dels
         /\ new.wait = (run.wait \/ Quiet(run.conn[s]))
  BY UpdateFact

LEMMA UpdateEnd ==
  ASSUME NEW run \in Runs, NEW s \in Nat \ {0}, s \in DOMAIN run.conn, Ends(run.conn[s]),
         NEW new, new = UpdateRamp(run, s)
  PROVE  /\ new \in Runs /\ Feeds(new.conn) = Feeds(run.conn) \ {run.conn[s].port}
         /\ \A q \in DOMAIN new.conn : /\ q \in DOMAIN run.conn
                                       /\ new.conn[q].state = IF q = s THEN "none" ELSE run.conn[q].state
         /\ new.dels = run.dels \cup Marks(run.conn[s])
         /\ new.wait = run.wait
<1>1. new \in Runs /\ Feeds(new.conn) = Feeds(run.conn) \ {run.conn[s].port}
  BY UpdateFact
<1>2. \A q \in DOMAIN new.conn : /\ q \in DOMAIN run.conn
                                 /\ new.conn[q].state = IF q = s THEN "none" ELSE run.conn[q].state
  BY UpdateFact
<1>3. new.dels = run.dels \cup Marks(run.conn[s])
  BY UpdateFact
<1>4. new.wait = run.wait
  BY UpdateFact
<1> QED BY <1>1, <1>2, <1>3, <1>4

LEMMA UpdateCuts ==
  ASSUME NEW run \in Runs, NEW s \in Nat \ {0}, s \in DOMAIN run.conn, Ends(run.conn[s])
  PROVE  Feeds(UpdateRamp(run, s).conn) = Feeds(run.conn) \ {run.conn[s].port}
  BY UpdateFact

LEMMA MultiplexFact ==
  ASSUME NEW conn \in Seq(Source)
  PROVE  Multiplex(conn) \in Runs /\ Within(Multiplex(conn).conn, conn)
<1>0. Len(conn) \in Nat
  BY SeqFact
<1>1. PICK after : /\ Multiplex(conn) = after[Len(conn)]
                   /\ after[0] = [conn |-> conn, dels |-> {}, wait |-> FALSE]
                   /\ \A k \in 0..Len(conn) - 1 : after[k + 1] = UpdateRamp(after[k], k + 1)
  BY <1>0, MultiplexPasses
<1> DEFINE Good(run) == run \in Runs /\ Within(run.conn, conn)
           S == {k \in 0..Len(conn) : Good(after[k])}
<1>2. 0 \in S
  <2>1. after[0] \in Runs /\ after[0].conn = conn
    BY <1>1 DEF Runs
  <2>2. Within(conn, conn)
    BY WithinSelf
  <2> QED BY <1>0, <2>1, <2>2
<1>3. ASSUME NEW k \in 0..Len(conn) - 1, k \in S PROVE k + 1 \in S
  <2>1. Good(after[k]) /\ k + 1 \in Nat \ {0} /\ k + 1 \in 0..Len(conn)
    BY <1>0, <1>3
  <2>2. after[k + 1] \in Runs /\ Within(after[k + 1].conn, after[k].conn)
    BY <1>1, <2>1, UpdateFact
  <2>3. after[k].conn \in Seq(Source)
    BY <2>1 DEF Runs
  <2>4. Good(after[k + 1])
    BY <2>1, <2>2, <2>3, WithinTrans
  <2> QED BY <2>1, <2>4
<1> HIDE DEF S
<1>4. \A k \in 0..Len(conn) : k \in S
  BY <1>0, <1>2, <1>3, UpTo
<1>5. Len(conn) \in S
  BY <1>0, <1>4
<1> QED BY <1>1, <1>5 DEF S

(* With no fade-out at its end, each source goes on by itself.             *)
LEMMA MultiplexEach ==
  ASSUME NEW conn \in Seq(Source), \A s \in DOMAIN conn : ~Ends(conn[s])
  PROVE  /\ DOMAIN Multiplex(conn).conn = DOMAIN conn
         /\ \A s \in DOMAIN conn : Multiplex(conn).conn[s] = Later(conn[s])
         /\ Multiplex(conn).dels = {}
         /\ Multiplex(conn).wait <=> \E s \in DOMAIN conn : Quiet(conn[s])
<1>0. Len(conn) \in Nat /\ DOMAIN conn = 1..Len(conn)
  BY SeqFact
<1>1. PICK after : /\ Multiplex(conn) = after[Len(conn)]
                   /\ after[0] = [conn |-> conn, dels |-> {}, wait |-> FALSE]
                   /\ \A k \in 0..Len(conn) - 1 : after[k + 1] = UpdateRamp(after[k], k + 1)
  BY <1>0, MultiplexPasses
<1> DEFINE Good(run, k) == /\ run \in Runs
                           /\ DOMAIN run.conn = DOMAIN conn
                           /\ \A s \in DOMAIN conn : run.conn[s] = IF s <= k THEN Later(conn[s]) ELSE conn[s]
                           /\ run.dels = {}
                           /\ run.wait <=> \E s \in DOMAIN conn : s <= k /\ Quiet(conn[s])
           S == {k \in 0..Len(conn) : Good(after[k], k)}
<1>2. 0 \in S
  <2>1. /\ after[0] \in Runs /\ after[0].conn = conn /\ after[0].dels = {} /\ ~after[0].wait
    BY <1>1 DEF Runs
  <2>2. \A s \in DOMAIN conn : ~(s <= 0)
    BY <1>0
  <2>3. 0 \in 0..Len(conn)
    BY <1>0
  <2>4. Good(after[0], 0)
    BY <2>1, <2>2
  <2> HIDE DEF Good
  <2> QED BY <2>3, <2>4
<1>3. ASSUME NEW k \in 0..Len(conn) - 1, k \in S PROVE k + 1 \in S
  <2> DEFINE run == after[k]
             new == after[k + 1]
  <2>1. Good(run, k)
    BY <1>3
  <2>2. /\ k + 1 \in Nat \ {0} /\ k + 1 \in 0..Len(conn) /\ k + 1 \in DOMAIN conn /\ ~(k + 1 <= k)
        /\ \A s \in DOMAIN conn : s # k + 1 => (s <= k <=> s <= k + 1)
        /\ k + 1 <= k + 1
    BY <1>0
  <2>3. new = UpdateRamp(run, k + 1)
    BY <1>1
  <2> HIDE DEF run, new
  <2>4. run.conn[k + 1] = conn[k + 1]
    BY <2>1, <2>2
  <2>5. ~Ends(run.conn[k + 1]) /\ k + 1 \in DOMAIN run.conn
    BY <2>1, <2>2, <2>4
  <2>6. /\ new \in Runs
        /\ DOMAIN new.conn = DOMAIN run.conn
        /\ new.conn[k + 1] = Later(run.conn[k + 1])
        /\ \A q \in DOMAIN run.conn : q # k + 1 => new.conn[q] = run.conn[q]
        /\ new.dels = run.dels
    BY <2>1, <2>2, <2>3, <2>5, UpdateEach
  <2>7. new.wait = (run.wait \/ Quiet(run.conn[k + 1]))
    BY <2>1, <2>2, <2>3, <2>5, UpdateEach
  <2>8. \A s \in DOMAIN conn : new.conn[s] = IF s <= k + 1 THEN Later(conn[s]) ELSE conn[s]
    BY <2>1, <2>2, <2>4, <2>6
  <2>9. new.wait <=> \E s \in DOMAIN conn : s <= k + 1 /\ Quiet(conn[s])
    <3>1. new.wait <=> (run.wait \/ Quiet(conn[k + 1]))
      BY <2>4, <2>7
    <3>2. (\E s \in DOMAIN conn : s <= k + 1 /\ Quiet(conn[s]))
            <=> (\E s \in DOMAIN conn : s <= k /\ Quiet(conn[s])) \/ Quiet(conn[k + 1])
      <4>1. \A s \in DOMAIN conn : s <= k + 1 <=> s <= k \/ s = k + 1
        BY <2>2
      <4> QED BY <2>2, <4>1
    <3> QED BY <2>1, <3>1, <3>2
  <2>10. Good(new, k + 1)
    BY <2>1, <2>6, <2>8, <2>9
  <2> HIDE DEF Good
  <2> QED BY <2>2, <2>10 DEF new
<1>4. \A k \in 0..Len(conn) : k \in S
  <2> HIDE DEF S
  <2> QED BY <1>0, <1>2, <1>3, UpTo
<1>5. Good(Multiplex(conn), Len(conn))
  <2>1. Len(conn) \in S
    <3> HIDE DEF S
    <3> QED BY <1>0, <1>4
  <2> HIDE DEF Good
  <2> QED BY <1>1, <2>1
<1>6. \A s \in DOMAIN conn : s <= Len(conn)
  BY <1>0
<1> QED BY <1>5, <1>6

(* One fade-out at its end, and nothing else that falls: its source goes,  *)
(* and nothing falls any more.                                             *)
LEMMA MultiplexOne ==
  ASSUME NEW conn \in Seq(Source), NEW p \in DOMAIN conn, Ends(conn[p]),
         \A s \in DOMAIN conn : conn[s].state # "drain" /\ (s # p => conn[s].state \notin Falls)
  PROVE  /\ Feeds(Multiplex(conn).conn) = Feeds(conn) \ {conn[p].port}
         /\ \A s \in DOMAIN Multiplex(conn).conn : Multiplex(conn).conn[s].state \in {"none", "up"}
         /\ Multiplex(conn).dels = IF conn[p].state = "del" THEN {Owner[conn[p].port]} ELSE {}
         /\ ~Multiplex(conn).wait
<1>0. Len(conn) \in Nat /\ DOMAIN conn = 1..Len(conn) /\ \A s \in DOMAIN conn : conn[s] \in Source
  BY SeqFact
<1>1. PICK after : /\ Multiplex(conn) = after[Len(conn)]
                   /\ after[0] = [conn |-> conn, dels |-> {}, wait |-> FALSE]
                   /\ \A k \in 0..Len(conn) - 1 : after[k + 1] = UpdateRamp(after[k], k + 1)
  BY <1>0, MultiplexPasses
<1> DEFINE Gone == IF conn[p].state = "del" THEN {Owner[conn[p].port]} ELSE {}
           Before(run) == /\ DOMAIN run.conn = DOMAIN conn /\ Feeds(run.conn) = Feeds(conn)
                          /\ run.conn[p] = conn[p]
                          /\ \A s \in DOMAIN conn : s # p => run.conn[s].state \in {"none", "up"}
                          /\ run.dels = {}
           After(run) == /\ Feeds(run.conn) = Feeds(conn) \ {conn[p].port}
                         /\ \A s \in DOMAIN run.conn : run.conn[s].state \in {"none", "up"}
                         /\ run.dels = Gone
           Good(run, k) == /\ run \in Runs /\ ~run.wait
                           /\ k < p => Before(run)
                           /\ ~(k < p) => After(run)
           S == {k \in 0..Len(conn) : Good(after[k], k)}
<1>2. 0 \in S
  <2>1. after[0] \in Runs /\ after[0].conn = conn /\ after[0].dels = {} /\ ~after[0].wait
    BY <1>1 DEF Runs
  <2>2. 0 < p /\ 0 \in 0..Len(conn)
    BY <1>0
  <2>3. \A s \in DOMAIN conn : s # p => conn[s].state \in {"none", "up"}
    BY <1>0, SeqFact DEF States, Falls
  <2>4. Before(after[0])
    BY <2>1, <2>3
  <2> HIDE DEF Before, After
  <2> QED BY <2>1, <2>2, <2>4
<1>3. ASSUME NEW k \in 0..Len(conn) - 1, k \in S PROVE k + 1 \in S
  <2> DEFINE run == after[k]
             new == after[k + 1]
             s == k + 1
  <2>1. Good(run, k)
    BY <1>3
  <2>2. s \in Nat \ {0} /\ s \in 0..Len(conn) /\ s \in DOMAIN conn
    BY <1>0
  <2>3. new = UpdateRamp(run, s)
    BY <1>1
  <2> HIDE DEF run, new
  <2>4. /\ new \in Runs
        /\ s \notin DOMAIN run.conn => new = run
        /\ s \in DOMAIN run.conn /\ ~Ends(run.conn[s]) =>
              /\ DOMAIN new.conn = DOMAIN run.conn
              /\ new.conn[s] = Later(run.conn[s])
              /\ \A q \in DOMAIN run.conn : q # s => new.conn[q] = run.conn[q]
              /\ new.dels = run.dels
        /\ s \in DOMAIN run.conn /\ Ends(run.conn[s]) =>
              /\ Feeds(new.conn) = Feeds(run.conn) \ {run.conn[s].port}
              /\ \A q \in DOMAIN new.conn :
                   /\ q \in DOMAIN run.conn
                   /\ new.conn[q].state = IF q = s THEN "none" ELSE run.conn[q].state
              /\ new.dels = run.dels \cup Marks(run.conn[s])
    <3> HIDE DEF s
    <3>1. new \in Runs
      BY <2>1, <2>2, <2>3, UpdateFact
    <3>2. s \notin DOMAIN run.conn => new = run
      BY <2>1, <2>2, <2>3, UpdatePast
    <3>3. s \in DOMAIN run.conn /\ ~Ends(run.conn[s]) =>
            /\ DOMAIN new.conn = DOMAIN run.conn
            /\ new.conn[s] = Later(run.conn[s])
            /\ \A q \in DOMAIN run.conn : q # s => new.conn[q] = run.conn[q]
            /\ new.dels = run.dels
      BY <2>1, <2>2, <2>3, UpdateEach
    <3>4. ASSUME s \in DOMAIN run.conn, Ends(run.conn[s])
          PROVE  /\ Feeds(new.conn) = Feeds(run.conn) \ {run.conn[s].port}
                 /\ \A q \in DOMAIN new.conn :
                      /\ q \in DOMAIN run.conn
                      /\ new.conn[q].state = IF q = s THEN "none" ELSE run.conn[q].state
                 /\ new.dels = run.dels \cup Marks(run.conn[s])
      <4> HIDE DEF Before, After
      <4>1. Feeds(new.conn) = Feeds(run.conn) \ {run.conn[s].port}
        <5>1. run \in Runs
          BY <2>1
        <5> HIDE DEF Good
        <5>2. Feeds(UpdateRamp(run, s).conn) = Feeds(run.conn) \ {run.conn[s].port}
          BY <5>1, <2>2, <3>4, UpdateCuts
        <5> QED BY <5>2, <2>3
      <4>3. new.dels = run.dels \cup Marks(run.conn[s])
        BY <2>1, <2>2, <2>3, <3>4, UpdateEnd
      <4>2. \A q \in DOMAIN new.conn :
              /\ q \in DOMAIN run.conn
              /\ new.conn[q].state = IF q = s THEN "none" ELSE run.conn[q].state
        BY <2>1, <2>2, <2>3, <3>4, UpdateEnd
      <4> QED BY <4>1, <4>2, <4>3
    <3> QED BY <3>1, <3>2, <3>3, <3>4
  <2>5. s \in DOMAIN run.conn => run.conn[s].state # "drain"
    <3>1. CASE k < p
      <4>1. Before(run)
        BY <2>1, <3>1
      <4> QED BY <2>2, <4>1
    <3>2. CASE ~(k < p)
      <4>1. After(run)
        BY <2>1, <3>2
      <4> QED BY <4>1
    <3> QED BY <3>1, <3>2
  <2>6. ~new.wait
    <3> HIDE DEF s
    <3>1. s \notin DOMAIN run.conn => ~new.wait
      BY <2>1, <2>4
    <3>2. s \in DOMAIN run.conn /\ ~Ends(run.conn[s]) => ~new.wait
      <4>1. s \in DOMAIN run.conn /\ ~Ends(run.conn[s]) => new.wait = (run.wait \/ Quiet(run.conn[s]))
        BY <2>1, <2>2, <2>3, UpdateEach
      <4> QED BY <2>1, <2>5, <4>1 DEF Quiet
    <3>3. s \in DOMAIN run.conn /\ Ends(run.conn[s]) => ~new.wait
      BY <2>1, <2>2, <2>3, UpdateEnd
    <3> QED BY <3>1, <3>2, <3>3
  <2>7. CASE s < p
    <3>1. k < p /\ s # p
      BY <1>0, <2>7
    <3>2. Before(run) /\ s \in DOMAIN run.conn /\ p \in DOMAIN run.conn
      BY <2>1, <2>2, <3>1
    <3>3. run.conn[s].state \in {"none", "up"} /\ ~Ends(run.conn[s]) /\ run.conn[s] \in Source
      <4>1. run.conn \in Seq(Source)
        BY <2>1 DEF Runs
      <4> HIDE DEF s
      <4> QED BY <2>2, <3>1, <3>2, <4>1, SeqFact DEF Ends, Falls
    <3>4. Later(run.conn[s]).state \in {"none", "up"} /\ Later(run.conn[s]).port = run.conn[s].port
      <4> HIDE DEF s
      <4> QED BY <3>3, LaterFact
    <3>5. Before(new)
      <4> HIDE DEF s
      <4>1. Feeds(new.conn) = Feeds(run.conn)
        BY <2>4, <3>2, <3>3, <3>4 DEF Feeds
      <4>2. new.conn[p] = conn[p]
        BY <2>4, <3>1, <3>2, <3>3
      <4>3. \A q \in DOMAIN conn : q # p => new.conn[q].state \in {"none", "up"}
        BY <2>4, <3>2, <3>3, <3>4
      <4> QED BY <2>4, <3>2, <3>3, <4>1, <4>2, <4>3
    <3> HIDE DEF Before, After
    <3> QED BY <2>2, <2>4, <2>6, <2>7, <3>5 DEF new
  <2>8. CASE s = p
    <3>1. k < p /\ ~(s < p)
      BY <1>0, <2>8
    <3>2. Before(run)
      BY <2>1, <3>1
    <3>3. run.conn[s] = conn[p] /\ Ends(run.conn[s]) /\ s \in DOMAIN run.conn
      BY <2>2, <2>8, <3>2
    <3>4. After(new)
      <4> HIDE DEF s
      <4>1. \A q \in DOMAIN new.conn : new.conn[q].state \in {"none", "up"}
        BY <2>4, <2>8, <3>2, <3>3
      <4>2. new.dels = Gone
        BY <2>4, <3>2, <3>3 DEF Marks
      <4> QED BY <2>4, <3>2, <3>3, <4>1, <4>2
    <3> HIDE DEF Before, After
    <3> QED BY <2>2, <2>4, <2>6, <3>1, <3>4 DEF new
  <2>9. CASE p < s
    <3>1. ~(k < p) /\ ~(s < p)
      BY <1>0, <2>9
    <3>2. After(run)
      BY <2>1, <3>1
    <3>3. After(new)
      <4>1. CASE s \notin DOMAIN run.conn
        BY <2>4, <3>2, <4>1
      <4>2. CASE s \in DOMAIN run.conn
        <5>1. run.conn \in Seq(Source)
          BY <2>1 DEF Runs
        <5> HIDE DEF s
        <5>2. run.conn[s].state \in {"none", "up"} /\ ~Ends(run.conn[s]) /\ run.conn[s] \in Source
          BY <3>2, <4>2, <5>1, SeqFact DEF Ends, Falls
        <5>3. Later(run.conn[s]).state \in {"none", "up"} /\ Later(run.conn[s]).port = run.conn[s].port
          BY <5>2, LaterFact
        <5>4. Feeds(new.conn) = Feeds(run.conn)
          BY <2>4, <4>2, <5>2, <5>3 DEF Feeds
        <5>5. \A q \in DOMAIN new.conn : new.conn[q].state \in {"none", "up"}
          BY <2>4, <3>2, <4>2, <5>2, <5>3
        <5> QED BY <2>4, <3>2, <4>2, <5>2, <5>4, <5>5
      <4> QED BY <4>1, <4>2
    <3> HIDE DEF Before, After
    <3> QED BY <2>2, <2>4, <2>6, <3>1, <3>3 DEF new
  <2>10. p \in Int /\ s \in Int
    BY <1>0
  <2> HIDE DEF s, Good
  <2> QED BY <2>7, <2>8, <2>9, <2>10
<1>4. \A k \in 0..Len(conn) : k \in S
  <2> HIDE DEF S
  <2> QED BY <1>0, <1>2, <1>3, UpTo
<1>5. Good(Multiplex(conn), Len(conn))
  <2>1. Len(conn) \in S
    <3> HIDE DEF S
    <3> QED BY <1>0, <1>4
  <2> HIDE DEF Good
  <2> QED BY <1>1, <2>1
<1>6. ~(Len(conn) < p)
  BY <1>0
<1> QED BY <1>5, <1>6

(* Fade-outs that only cut never mark a module.                            *)
LEMMA MultiplexDowns ==
  ASSUME NEW conn \in Seq(Source), \A s \in DOMAIN conn : conn[s].state \in {"none", "up", "down"}
  PROVE  /\ \A s \in DOMAIN Multiplex(conn).conn : Multiplex(conn).conn[s].state \in {"none", "up", "down"}
         /\ Multiplex(conn).dels = {} /\ ~Multiplex(conn).wait
<1>0. Len(conn) \in Nat /\ DOMAIN conn = 1..Len(conn)
  BY SeqFact
<1>1. PICK after : /\ Multiplex(conn) = after[Len(conn)]
                   /\ after[0] = [conn |-> conn, dels |-> {}, wait |-> FALSE]
                   /\ \A k \in 0..Len(conn) - 1 : after[k + 1] = UpdateRamp(after[k], k + 1)
  BY <1>0, MultiplexPasses
<1> DEFINE Good(run) == /\ run \in Runs /\ ~run.wait /\ run.dels = {}
                        /\ \A s \in DOMAIN run.conn : run.conn[s].state \in {"none", "up", "down"}
           S == {k \in 0..Len(conn) : Good(after[k])}
<1>2. 0 \in S
  <2>1. after[0] \in Runs /\ after[0].conn = conn /\ after[0].dels = {} /\ ~after[0].wait
    BY <1>1 DEF Runs
  <2> QED BY <1>0, <2>1
<1>3. ASSUME NEW k \in 0..Len(conn) - 1, k \in S PROVE k + 1 \in S
  <2> DEFINE run == after[k]
             new == after[k + 1]
             s == k + 1
  <2>1. Good(run)
    BY <1>3
  <2>2. s \in Nat \ {0} /\ s \in 0..Len(conn)
    BY <1>0
  <2>3. new = UpdateRamp(run, s)
    BY <1>1
  <2> HIDE DEF run, new, s
  <2>4. Good(new)
    <3>1. CASE s \notin DOMAIN run.conn
      BY <2>1, <2>2, <2>3, <3>1, UpdatePast
    <3>2. CASE s \in DOMAIN run.conn /\ ~Ends(run.conn[s])
      <4>1. /\ new \in Runs /\ new.dels = {}
            /\ DOMAIN new.conn = DOMAIN run.conn
            /\ new.conn[s] = Later(run.conn[s])
            /\ \A q \in DOMAIN run.conn : q # s => new.conn[q] = run.conn[q]
        BY <2>1, <2>2, <2>3, <3>2, UpdateEach
      <4>2. new.wait = (run.wait \/ Quiet(run.conn[s]))
        BY <2>1, <2>2, <2>3, <3>2, UpdateEach
      <4>3. run.conn[s] \in Source
        <5>1. run.conn \in Seq(Source)
          BY <2>1 DEF Runs
        <5> QED BY <3>2, <5>1, SeqFact
      <4>4. Later(run.conn[s]).state \in {"none", "up", "down"}
        BY <2>1, <3>2, <4>3, LaterFact
      <4>5. ~new.wait
        BY <2>1, <3>2, <4>2 DEF Quiet
      <4> QED BY <2>1, <4>1, <4>4, <4>5
    <3>3. CASE s \in DOMAIN run.conn /\ Ends(run.conn[s])
      <4>1. run.conn[s].state = "down"
        BY <2>1, <3>3 DEF Ends, Falls
      <4>2. new \in Runs /\ ~new.wait /\ new.dels = {}
        <5>1. new \in Runs /\ new.wait = run.wait
          BY <2>1, <2>2, <2>3, <3>3, UpdateEnd
        <5>2. new.dels = run.dels \cup Marks(run.conn[s])
          BY <2>1, <2>2, <2>3, <3>3, UpdateEnd
        <5>3. new.dels = {}
          BY <2>1, <4>1, <5>2 DEF Marks
        <5> QED BY <2>1, <5>1, <5>3
      <4>3. \A q \in DOMAIN new.conn :
              /\ q \in DOMAIN run.conn
              /\ new.conn[q].state = IF q = s THEN "none" ELSE run.conn[q].state
        BY <2>1, <2>2, <2>3, <3>3, UpdateEnd
      <4> QED BY <2>1, <4>2, <4>3
    <3> QED BY <3>1, <3>2, <3>3
  <2> HIDE DEF Good
  <2> QED BY <2>2, <2>4 DEF new, s
<1>4. \A k \in 0..Len(conn) : k \in S
  <2> HIDE DEF S
  <2> QED BY <1>0, <1>2, <1>3, UpTo
<1>5. Good(Multiplex(conn))
  <2>1. Len(conn) \in S
    <3> HIDE DEF S
    <3> QED BY <1>0, <1>4
  <2> HIDE DEF Good
  <2> QED BY <1>1, <2>1
<1> QED BY <1>5

----------------------------------------------------------------------------
(* All arrays.  A step shrinks each or adds one new source to one. *)

LEMMA RampFact ==
  ASSUME NEW conn \in Seq(Source), NEW ports, NEW state \in States
  PROVE  Within(Ramp(conn, ports, state), conn)
  BY StartFact DEF Ramp

LEMMA EjectedFact ==
  ASSUME NEW srcs \in [Ins -> Seq(Source)], NEW m
  PROVE  /\ Ejected(srcs, m) \in [Ins -> Seq(Source)]
         /\ \A i \in Ins : Within(Ejected(srcs, m)[i], srcs[i])
<1>1. ASSUME NEW i \in Ins PROVE Within(Ejected(srcs, m)[i], srcs[i])
  <2>1. srcs[i] \in Seq(Source)
    OBVIOUS
  <2>2. Within(CutAll(srcs[i]), srcs[i]) /\ Within(Cut(srcs[i], OutsOf(m)), srcs[i]) /\ Within(srcs[i], srcs[i])
    BY <2>1, CutAllFact, CutFact, WithinSelf
  <2> QED BY <2>2 DEF Ejected
<1>2. \A i \in Ins : Ejected(srcs, m)[i] \in Seq(Source)
  BY <1>1 DEF Within
<1>3. Ejected(srcs, m) = [i \in Ins |-> Ejected(srcs, m)[i]]
  BY DEF Ejected
<1> QED BY <1>1, <1>2, <1>3

LEMMA FadedFact ==
  ASSUME sources \in [Ins -> Seq(Source)], NEW m
  PROVE  /\ Faded(m) \in [Ins -> Seq(Source)]
         /\ \A i \in Ins : Within(Faded(m)[i], sources[i])
<1>1. ASSUME NEW i \in Ins PROVE Within(Faded(m)[i], sources[i])
  <2>1. sources[i] \in Seq(Source) /\ "del" \in States
    BY DEF States
  <2>2. /\ Within(DropAll(sources[i]), sources[i])
        /\ Within(DropRequest(sources[i], OutsOf(m), "del"), sources[i])
        /\ Within(sources[i], sources[i])
    BY <2>1, DropAllFact, DropFact, WithinSelf
  <2> QED BY <2>2 DEF Faded
<1>2. \A i \in Ins : Faded(m)[i] \in Seq(Source)
  BY <1>1 DEF Within
<1>3. Faded(m) = [i \in Ins |-> Faded(m)[i]]
  BY DEF Faded
<1> QED BY <1>1, <1>2, <1>3

LEMMA RampedFact ==
  ASSUME sources \in [Ins -> Seq(Source)], NEW m, NEW state \in States
  PROVE  /\ Ramped(m, state) \in [Ins -> Seq(Source)]
         /\ \A i \in Ins : Within(Ramped(m, state)[i], sources[i])
<1>1. ASSUME NEW i \in Ins PROVE Within(Ramped(m, state)[i], sources[i])
  <2>1. sources[i] \in Seq(Source)
    OBVIOUS
  <2>2. Within(Ramp(sources[i], OutsOf(m), state), sources[i]) /\ Within(sources[i], sources[i])
    BY <2>1, RampFact, WithinSelf
  <2> QED BY <2>2 DEF Ramped
<1>2. \A i \in Ins : Ramped(m, state)[i] \in Seq(Source)
  BY <1>1 DEF Within
<1>3. Ramped(m, state) = [i \in Ins |-> Ramped(m, state)[i]]
  BY DEF Ramped
<1> QED BY <1>1, <1>2, <1>3

Added(l) ==
  LET o == l[1]
      conn == sources[l[2]]
      new == IF o \in Audio THEN [port |-> o, state |-> "up", left |-> RampPeriods]
             ELSE [port |-> o, state |-> "none", left |-> 0]
  IN  IF ~HasSource(conn, o) /\ Len(conn) < MaxSources THEN Append(conn, new) ELSE conn

(* A new connection is the last source of its array, and its only one of   *)
(* that port.                                                              *)
LEMMA AddedFact ==
  ASSUME sources \in [Ins -> Seq(Source)], NEW l \in Links, Len(sources[l[2]]) <= MaxSources
  PROVE  /\ l[1] \in Outs /\ l[2] \in Ins /\ Owner[l[1]] \in Mods
         /\ Added(l) \in Seq(Source) /\ Len(Added(l)) <= MaxSources
         /\ Feeds(Added(l)) \subseteq Feeds(sources[l[2]]) \cup {l[1]}
         /\ Uniq(sources[l[2]]) => Uniq(Added(l))
         /\ HasSource(sources[l[2]], l[1]) \/ Len(sources[l[2]]) < MaxSources => HasSource(Added(l), l[1])
         /\ \A s \in DOMAIN sources[l[2]] : s \in DOMAIN Added(l) /\ Added(l)[s] = sources[l[2]][s]
         /\ \A s \in DOMAIN Added(l) \ DOMAIN sources[l[2]] :
              /\ Added(l)[s].port = l[1]
              /\ Added(l)[s].state = IF l[1] \in Audio THEN "up" ELSE "none"
<1> DEFINE o == l[1]
           conn == sources[l[2]]
           new == IF o \in Audio THEN [port |-> o, state |-> "up", left |-> RampPeriods]
                  ELSE [port |-> o, state |-> "none", left |-> 0]
<1>1. o \in Outs /\ l[2] \in Ins /\ Owner[o] \in Mods
  OBVIOUS
<1>2. conn \in Seq(Source) /\ Len(conn) \in Nat /\ DOMAIN conn = 1..Len(conn) /\ Len(conn) <= MaxSources
  <2>1. conn \in Seq(Source)
    BY <1>1
  <2> HIDE DEF conn
  <2>2. Len(conn) \in Nat /\ DOMAIN conn = 1..Len(conn)
    BY <2>1
  <2> QED BY <2>1, <2>2 DEF conn
<1>3. new \in Source /\ new.port = o /\ new.state = IF o \in Audio THEN "up" ELSE "none"
  <2>1. RampPeriods \in 0..RampPeriods /\ 0 \in 0..RampPeriods
    OBVIOUS
  <2> QED BY <1>1, <2>1 DEF Source
<1>4. Added(l) = IF ~HasSource(conn, o) /\ Len(conn) < MaxSources THEN Append(conn, new) ELSE conn
  BY DEF Added
<1> HIDE DEF new, conn, o
<1>5. CASE ~HasSource(conn, o) /\ Len(conn) < MaxSources
  <2> DEFINE more == Append(conn, new)
             n == Len(conn) + 1
  <2>1. /\ more \in Seq(Source) /\ Len(more) = n /\ DOMAIN more = 1..n
        /\ more[n] = new /\ \A s \in 1..Len(conn) : more[s] = conn[s]
    BY <1>2, <1>3
  <2>2. n \in 1..n /\ n \notin 1..Len(conn) /\ n <= MaxSources /\ \A s \in 1..n : s = n \/ s \in 1..Len(conn)
    BY <1>2, <1>5
  <2> HIDE DEF more, n
  <2>3. \A s \in 1..Len(conn) : s \in 1..n /\ conn[s].port # o
    <3>1. \A s \in 1..Len(conn) : s \in 1..n
      BY <1>2 DEF n
    <3> QED BY <1>2, <1>5, <3>1 DEF HasSource
  <2>4. Feeds(more) \subseteq Feeds(conn) \cup {o}
    BY <1>2, <1>3, <2>1, <2>2 DEF Feeds
  <2>5. Uniq(conn) => Uniq(more)
    <3> SUFFICES ASSUME Uniq(conn), NEW s \in 1..n, NEW r \in 1..n, more[s].port = more[r].port
                 PROVE  s = r
      BY <2>1 DEF Uniq
    <3>1. CASE s \in 1..Len(conn) /\ r \in 1..Len(conn)
      BY <1>2, <2>1, <3>1 DEF Uniq
    <3>2. CASE s = n /\ r \in 1..Len(conn)
      BY <1>3, <2>1, <2>3, <3>2
    <3>3. CASE r = n /\ s \in 1..Len(conn)
      BY <1>3, <2>1, <2>3, <3>3
    <3> QED BY <2>2, <3>1, <3>2, <3>3
  <2>6. HasSource(more, o)
    BY <1>3, <2>1, <2>2 DEF HasSource
  <2>7. Added(l) = more
    BY <1>4, <1>5 DEF more
  <2>8. \A s \in 1..n : s \notin 1..Len(conn) => s = n
    BY <2>2
  <2>9. /\ \A s \in DOMAIN conn : s \in DOMAIN more /\ more[s] = conn[s]
        /\ \A s \in DOMAIN more \ DOMAIN conn : /\ more[s].port = o
                                                /\ more[s].state = IF o \in Audio THEN "up" ELSE "none"
    BY <1>2, <1>3, <2>1, <2>3, <2>8
  <2>10. more \in Seq(Source) /\ Len(more) <= MaxSources
    BY <2>1, <2>2
  <2> QED BY <1>1, <2>4, <2>5, <2>6, <2>7, <2>9, <2>10 DEF o, conn
<1>6. CASE ~(~HasSource(conn, o) /\ Len(conn) < MaxSources)
  <2>1. Added(l) = conn
    BY <1>4, <1>6
  <2> QED BY <1>1, <1>2, <1>6, <2>1 DEF o, conn
<1> QED BY <1>5, <1>6

(* A period multiplexes the inputs of the patch.                           *)
LEMMA RunFact ==
  ASSUME sources \in [Ins -> Seq(Source)], Run
  PROVE  /\ sources' \in [Ins -> Seq(Source)]
         /\ \A i \in Ins : Within(sources'[i], sources[i])
         /\ \A i \in Ins : InPatch(i) => sources'[i] = Multiplex(sources[i]).conn
         /\ \A i \in Ins : ~InPatch(i) => sources'[i] = sources[i]
         /\ deleting' = deleting \cup UNION {Multiplex(sources[i]).dels : i \in {j \in Ins : InPatch(j)}}
         /\ silence' = IF \E i \in Ins : InPatch(i) /\ Multiplex(sources[i]).wait THEN "wait" ELSE silence
<1> DEFINE Arrays == {j \in Ins : InPatch(j)}
           ran == [i \in Arrays |-> Multiplex(sources[i])]
<1>1. /\ sources' = [i \in Ins |-> IF InPatch(i) THEN ran[i].conn ELSE sources[i]]
      /\ deleting' = deleting \cup UNION {ran[i].dels : i \in DOMAIN ran}
      /\ silence' = IF \E i \in DOMAIN ran : ran[i].wait THEN "wait" ELSE silence
  BY DEF Run
<1>2. DOMAIN ran = Arrays /\ \A i \in Arrays : ran[i] = Multiplex(sources[i])
  OBVIOUS
<1> HIDE DEF ran
<1>3. \A i \in Ins : /\ InPatch(i) => sources'[i] = Multiplex(sources[i]).conn
                     /\ ~InPatch(i) => sources'[i] = sources[i]
  BY <1>1, <1>2
<1>4. \A i \in Ins : Within(sources'[i], sources[i])
  <2> SUFFICES ASSUME NEW i \in Ins PROVE Within(sources'[i], sources[i])
    OBVIOUS
  <2>1. sources[i] \in Seq(Source)
    OBVIOUS
  <2>2. Within(Multiplex(sources[i]).conn, sources[i]) /\ Within(sources[i], sources[i])
    BY <2>1, MultiplexFact, WithinSelf
  <2> QED BY <1>3, <2>2
<1>5. \A i \in Ins : sources'[i] \in Seq(Source)
  BY <1>4 DEF Within
<1>6. sources' \in [Ins -> Seq(Source)]
  <2>1. sources' = [i \in Ins |-> sources'[i]]
    BY <1>1
  <2> QED BY <1>5, <2>1
<1>7. {ran[i].dels : i \in DOMAIN ran} = {Multiplex(sources[i]).dels : i \in Arrays}
  BY <1>2
<1>8. (\E i \in DOMAIN ran : ran[i].wait) <=> (\E i \in Ins : InPatch(i) /\ Multiplex(sources[i]).wait)
  BY <1>2
<1> QED BY <1>1, <1>3, <1>4, <1>6, <1>7, <1>8

LEMMA Shrinks ==
  ASSUME TypeOK,
         \/ \E l \in Links : Disconnect(l)
         \/ \E m \in Mods : RemoveModule(m) \/ PresetLoad(m)
         \/ PresetLoaded \/ Pre \/ Run
  PROVE  sources' \in [Ins -> Seq(Source)] /\ \A i \in Ins : Within(sources'[i], sources[i])
<1>0. sources \in [Ins -> Seq(Source)]
  BY DEF TypeOK
<1>a. \A i \in Ins : Within(sources[i], sources[i])
  BY <1>0, WithinSelf
<1>1. ASSUME NEW l \in Links, Disconnect(l)
      PROVE  sources' \in [Ins -> Seq(Source)] /\ \A i \in Ins : Within(sources'[i], sources[i])
  <2>1. l[2] \in Ins /\ sources[l[2]] \in Seq(Source) /\ "down" \in States
    BY <1>0 DEF States
  <2> DEFINE new == DropRequest(sources[l[2]], {l[1]}, "down")
  <2>2. Within(new, sources[l[2]])
    BY <2>1, DropFact
  <2>3. sources' = [sources EXCEPT ![l[2]] = new]
    BY <1>1 DEF Disconnect
  <2> HIDE DEF new
  <2>4. new \in Seq(Source)
    BY <2>2 DEF Within
  <2> QED BY <1>0, <1>a, <2>1, <2>2, <2>3, <2>4
<1>2. ASSUME NEW m \in Mods, RemoveModule(m)
      PROVE  sources' \in [Ins -> Seq(Source)] /\ \A i \in Ins : Within(sources'[i], sources[i])
  <2>1. Faded(m) \in [Ins -> Seq(Source)] /\ \A i \in Ins : Within(Faded(m)[i], sources[i])
    BY <1>0, FadedFact
  <2>2. /\ Ejected(Faded(m), m) \in [Ins -> Seq(Source)]
        /\ \A i \in Ins : Within(Ejected(Faded(m), m)[i], Faded(m)[i])
    BY <2>1, EjectedFact
  <2>3. \A i \in Ins : Within(Ejected(Faded(m), m)[i], sources[i])
    BY <1>0, <2>1, <2>2, WithinTrans
  <2>4. sources' = Faded(m) \/ sources' = Ejected(Faded(m), m)
    BY <1>2 DEF RemoveModule
  <2> QED BY <2>1, <2>2, <2>3, <2>4
<1>3. ASSUME NEW m \in Mods, PresetLoad(m)
      PROVE  sources' \in [Ins -> Seq(Source)] /\ \A i \in Ins : Within(sources'[i], sources[i])
  <2>1. "drain" \in States /\ sources' = Ramped(m, "drain")
    BY <1>3 DEF PresetLoad, States
  <2> QED BY <1>0, <2>1, RampedFact
<1>4. ASSUME PresetLoaded
      PROVE  sources' \in [Ins -> Seq(Source)] /\ \A i \in Ins : Within(sources'[i], sources[i])
  <2>1. "up" \in States /\ (sources' = Ramped(loading, "up") \/ sources' = sources)
    BY <1>4 DEF PresetLoaded, States
  <2> QED BY <1>0, <1>a, <2>1, RampedFact
<1>5. ASSUME Pre
      PROVE  sources' \in [Ins -> Seq(Source)] /\ \A i \in Ins : Within(sources'[i], sources[i])
  <2>1. sources' = sources \/ \E m \in Mods : sources' = Ejected(sources, m)
    BY <1>5 DEF Pre, TypeOK
  <2> QED BY <1>0, <1>a, <2>1, EjectedFact
<1>6. Run => sources' \in [Ins -> Seq(Source)] /\ \A i \in Ins : Within(sources'[i], sources[i])
  BY <1>0, RunFact
<1> QED BY <1>1, <1>2, <1>3, <1>4, <1>5, <1>6

----------------------------------------------------------------------------
(* Types *)

LEMMA TypeInit == Init => TypeOK
<1> SUFFICES ASSUME Init PROVE TypeOK
  OBVIOUS
<1>1. \A i \in Ins : sources[i] = <<>> /\ sources[i] \in Seq(Source) /\ Len(sources[i]) = 0
  BY DEF Init
<1>2. sources \in [Ins -> Seq(Source)]
  BY <1>1 DEF Init
<1>3. 0 <= MaxSources
  OBVIOUS
<1> QED BY <1>1, <1>2, <1>3 DEF Init, TypeOK

LEMMA TypeStep == TypeOK /\ [Next]_vars => TypeOK'
<1> SUFFICES ASSUME TypeOK, [Next]_vars PROVE TypeOK'
  OBVIOUS
<1> DEFINE Arrays == sources' \in [Ins -> Seq(Source)] /\ \A i \in Ins : Len(sources'[i]) <= MaxSources
<1>0. \A i \in Ins : sources[i] \in Seq(Source) /\ Len(sources[i]) \in Nat /\ Len(sources[i]) <= MaxSources
  BY SeqFact DEF TypeOK
<1>a. ASSUME sources' \in [Ins -> Seq(Source)], \A i \in Ins : Within(sources'[i], sources[i])
      PROVE  Arrays
  <2>1. \A i \in Ins : Len(sources'[i]) \in Nat
    BY <1>a, SeqFact
  <2>2. MaxSources \in Nat
    OBVIOUS
  <2> QED BY <1>0, <1>a, <2>1, <2>2 DEF Within
<1>1. ASSUME NEW l \in Links, Connect(l) PROVE TypeOK'
  <2>1. l[2] \in Ins /\ Len(sources[l[2]]) <= MaxSources /\ sources \in [Ins -> Seq(Source)]
    BY DEF TypeOK
  <2>2. Added(l) \in Seq(Source) /\ Len(Added(l)) <= MaxSources
    BY <2>1, AddedFact
  <2>3. sources' = [sources EXCEPT ![l[2]] = Added(l)]
    BY <1>1 DEF Connect, Added
  <2>4. Arrays
    BY <1>0, <2>1, <2>2, <2>3
  <2>5. calm' \in BOOLEAN
    BY <1>1 DEF Connect
  <2> QED BY <1>1, <2>4, <2>5 DEF Connect, TypeOK
<1>2. ASSUME NEW l \in Links, Disconnect(l) PROVE TypeOK'
  <2>1. Arrays
    BY <1>2, <1>a, Shrinks
  <2>2. calm' \in BOOLEAN
    BY <1>2 DEF Disconnect
  <2> QED BY <1>2, <2>1, <2>2 DEF Disconnect, TypeOK
<1>3. ASSUME NEW m \in Mods, RemoveModule(m) PROVE TypeOK'
  <2>1. Arrays
    BY <1>3, <1>a, Shrinks
  <2>2. calm' \in BOOLEAN
    BY <1>3 DEF RemoveModule
  <2>3. mods' \subseteq Mods
    BY <1>3 DEF RemoveModule, TypeOK
  <2> QED BY <1>3, <2>1, <2>2, <2>3 DEF RemoveModule, TypeOK
<1>4. ASSUME NEW m \in Mods, PresetLoad(m) PROVE TypeOK'
  <2>1. Arrays
    BY <1>4, <1>a, Shrinks
  <2>2. calm' \in BOOLEAN
    BY <1>4 DEF PresetLoad
  <2>3. silence' \in {"run", "block", "wait"}
    BY <1>4 DEF PresetLoad
  <2> QED BY <1>4, <2>1, <2>2, <2>3 DEF PresetLoad, TypeOK
<1>5. ASSUME PresetLoaded PROVE TypeOK'
  <2>1. Arrays
    BY <1>5, <1>a, Shrinks
  <2>2. silence' \in {"run", "block", "wait"}
    BY <1>5 DEF PresetLoaded, TypeOK
  <2> QED BY <1>5, <2>1, <2>2 DEF PresetLoaded, TypeOK
<1>6. ASSUME Pre PROVE TypeOK'
  <2>1. Arrays
    BY <1>6, <1>a, Shrinks
  <2>2. mods' \subseteq Mods /\ deleting' \subseteq Mods
    BY <1>6 DEF Pre, TypeOK
  <2> QED BY <1>6, <2>1, <2>2 DEF Pre, TypeOK
<1>7. ASSUME Run PROVE TypeOK'
  <2>0. sources \in [Ins -> Seq(Source)]
    BY DEF TypeOK
  <2>1. Arrays
    BY <1>7, <1>a, Shrinks
  <2>2. \A i \in Ins : Multiplex(sources[i]).dels \subseteq Mods
    BY <1>0, MultiplexFact DEF Runs
  <2> DEFINE marked == UNION {Multiplex(sources[i]).dels : i \in {j \in Ins : InPatch(j)}}
  <2>a. deleting' = deleting \cup marked
    BY <1>7, <2>0, RunFact
  <2>b. marked \subseteq Mods
    BY <2>2
  <2> HIDE DEF marked
  <2>3. deleting' \subseteq Mods
    BY <2>a, <2>b DEF TypeOK
  <2>4. silence' \in {"run", "block", "wait"}
    BY <1>7, <2>0, RunFact DEF TypeOK
  <2>5. mods' = mods /\ loading' = loading /\ wanted' = wanted /\ doomed' = doomed /\ calm' = calm /\ phase' = "pre"
    BY <1>7 DEF Run
  <2> QED BY <2>1, <2>3, <2>4, <2>5 DEF TypeOK
<1>8. CASE UNCHANGED vars
  BY <1>8 DEF vars, TypeOK
<1> QED BY <1>1, <1>2, <1>3, <1>4, <1>5, <1>6, <1>7, <1>8 DEF Next, Period

(* Every variable keeps its type: among it that no array of sources grows  *)
(* over MAX_SOURCES and no ramp over ramp_samples.                         *)
THEOREM TypeCorrect == Spec => []TypeOK
<1> QED BY TypeInit, TypeStep, PTL DEF Spec

----------------------------------------------------------------------------
(* No source twice, none dangling *)

LEMMA TwiceInit == Init => NoSourceTwice
  BY DEF Init, NoSourceTwice

LEMMA TwiceStep == TypeOK /\ NoSourceTwice /\ [Next]_vars => NoSourceTwice'
<1> SUFFICES ASSUME TypeOK, NoSourceTwice, [Next]_vars PROVE NoSourceTwice'
  OBVIOUS
<1>0. \A i \in Ins : Uniq(sources[i])
  BY DEF NoSourceTwice, Uniq
<1>1. (\A i \in Ins : Uniq(sources'[i])) => NoSourceTwice'
  BY DEF NoSourceTwice, Uniq
<1>2. ASSUME NEW l \in Links, Connect(l) PROVE NoSourceTwice'
  <2>1. l[2] \in Ins /\ Len(sources[l[2]]) <= MaxSources /\ sources \in [Ins -> Seq(Source)]
    BY DEF TypeOK
  <2>2. Uniq(Added(l))
    BY <1>0, <2>1, AddedFact
  <2>3. sources' = [sources EXCEPT ![l[2]] = Added(l)]
    BY <1>2 DEF Connect, Added
  <2> QED BY <1>0, <1>1, <2>1, <2>2, <2>3
<1>3. CASE \/ \E l \in Links : Disconnect(l)
           \/ \E m \in Mods : RemoveModule(m) \/ PresetLoad(m)
           \/ PresetLoaded \/ Pre \/ Run
  <2>1. \A i \in Ins : Within(sources'[i], sources[i])
    BY <1>3, Shrinks
  <2> QED BY <1>0, <1>1, <2>1 DEF Within
<1>4. CASE UNCHANGED vars
  BY <1>4 DEF vars, NoSourceTwice
<1> QED BY <1>2, <1>3, <1>4 DEF Next, Period

(* _sp_app_port_connected sees every source, and whatever the loops of a   *)
(* removal or the end of a ramp move about, a port stays no source of      *)
(* another twice.                                                          *)
THEOREM SourceOnce == Spec => []NoSourceTwice
<1> QED BY TypeInit, TypeStep, TwiceInit, TwiceStep, PTL DEF Spec

(* What a module's ejection leaves in the patch is not fed by it.          *)
LEMMA EjectedFree ==
  ASSUME NEW srcs \in [Ins -> Seq(Source)], NEW m, NEW i \in Ins, InPatch(i), Owner[i] # m
  PROVE  Feeds(Ejected(srcs, m)[i]) = Feeds(srcs[i]) \ OutsOf(m)
<1>1. Ejected(srcs, m)[i] = Cut(srcs[i], OutsOf(m)) /\ srcs[i] \in Seq(Source)
  BY DEF Ejected
<1> QED BY <1>1, CutFact

LEMMA DanglingStep == TypeOK /\ NoDanglingSource /\ [Next]_vars => NoDanglingSource'
<1> SUFFICES ASSUME TypeOK, NoDanglingSource, [Next]_vars PROVE NoDanglingSource'
  OBVIOUS
<1> DEFINE Live(i) == \A o \in Feeds(sources[i]) : Owner[o] \in mods
           LiveNext(i) == \A o \in Feeds(sources'[i]) : Owner[o] \in mods'
<1>0. /\ sources \in [Ins -> Seq(Source)]
      /\ \A i \in Ins : Owner[i] \in mods => Live(i)
  BY DEF NoDanglingSource, InPatch, Feeds, TypeOK
<1>1. (\A i \in Ins : Owner[i] \in mods' => LiveNext(i)) => NoDanglingSource'
  BY DEF NoDanglingSource, InPatch, Feeds
<1>2. ASSUME NEW l \in Links, Connect(l) PROVE NoDanglingSource'
  <2>1. l[2] \in Ins /\ Len(sources[l[2]]) <= MaxSources
    BY DEF TypeOK
  <2>2. Feeds(Added(l)) \subseteq Feeds(sources[l[2]]) \cup {l[1]}
    BY <1>0, <2>1, AddedFact
  <2>3. sources' = [sources EXCEPT ![l[2]] = Added(l)] /\ mods' = mods /\ Owner[l[1]] \in mods
    BY <1>2 DEF Connect, Added
  <2>4. \A i \in Ins : sources'[i] = IF i = l[2] THEN Added(l) ELSE sources[i]
    BY <1>0, <2>3
  <2> QED BY <1>0, <1>1, <2>2, <2>3, <2>4
<1>3. ASSUME mods' = mods, \A i \in Ins : Within(sources'[i], sources[i]) PROVE NoDanglingSource'
  <2>1. \A i \in Ins : Feeds(sources'[i]) \subseteq Feeds(sources[i])
    BY <1>3 DEF Within
  <2> HIDE DEF NoDanglingSource
  <2> QED BY <1>0, <1>1, <1>3, <2>1
<1>4. ASSUME NEW srcs \in [Ins -> Seq(Source)], \A i \in Ins : Within(srcs[i], sources[i]),
             NEW m, sources' = Ejected(srcs, m), mods' = mods \ {m}
      PROVE  NoDanglingSource'
  <2> SUFFICES ASSUME NEW i \in Ins, Owner[i] \in mods', NEW o \in Feeds(sources'[i])
               PROVE  Owner[o] \in mods'
    BY <1>1
  <2>1. Owner[i] \in mods /\ Owner[i] # m
    BY <1>4
  <2>2. o \in Feeds(srcs[i]) \ OutsOf(m)
    BY <1>4, <2>1, EjectedFree DEF InPatch
  <2>3. o \in Feeds(sources[i]) /\ o \in Outs
    <3>1. o \in Feeds(sources[i])
      BY <1>4, <2>2 DEF Within
    <3>2. sources[i] \in Seq(Source)
      BY <1>0
    <3> QED BY <3>1, <3>2, SeqFact DEF Feeds
  <2>4. Owner[o] \in mods
    BY <1>0, <2>1, <2>3
  <2> QED BY <1>4, <2>2, <2>3, <2>4 DEF OutsOf
<1>5. ASSUME NEW m \in Mods, RemoveModule(m) PROVE NoDanglingSource'
  <2>1. Faded(m) \in [Ins -> Seq(Source)] /\ \A i \in Ins : Within(Faded(m)[i], sources[i])
    BY <1>0, FadedFact
  <2>2. CASE sources' = Faded(m) /\ mods' = mods
    BY <1>3, <2>1, <2>2
  <2>3. CASE sources' = Ejected(Faded(m), m) /\ mods' = mods \ {m}
    BY <1>4, <2>1, <2>3
  <2> QED BY <1>5, <2>2, <2>3 DEF RemoveModule
<1>6. ASSUME Pre PROVE NoDanglingSource'
  <2>1. CASE UNCHANGED <<mods, sources>>
    BY <1>0, <1>3, <2>1, WithinSelf
  <2>2. ASSUME NEW m, mods' = mods \ {m}, sources' = Ejected(sources, m) PROVE NoDanglingSource'
    BY <1>0, <1>4, <2>2, WithinSelf
  <2> QED BY <1>6, <2>1, <2>2 DEF Pre
<1>7. CASE (\E l \in Links : Disconnect(l)) \/ (\E m \in Mods : PresetLoad(m)) \/ PresetLoaded \/ Run
  <2>1. \A i \in Ins : Within(sources'[i], sources[i])
    BY <1>7, Shrinks
  <2>2. mods' = mods
    BY <1>7 DEF Disconnect, PresetLoad, PresetLoaded, Run
  <2> QED BY <1>3, <2>1, <2>2
<1>8. CASE UNCHANGED vars
  BY <1>8 DEF vars, NoDanglingSource, InPatch
<1> QED BY <1>2, <1>5, <1>6, <1>7, <1>8 DEF Next, Period

(* No module in the patch ever reads a port of one that has left it,       *)
(* whatever the orders and ramps: ejection cuts every source of the module *)
(* in the patch, though its loops pass over entries of the module's own.   *)
THEOREM NeverDangling == Spec => []NoDanglingSource
<1>1. Init => NoDanglingSource
  BY DEF Init, NoDanglingSource
<1> QED BY <1>1, TypeInit, TypeStep, DanglingStep, PTL DEF Spec

----------------------------------------------------------------------------
(* Orders that keep clear of ramps *)

\* Who is connected was connected by the user, and only audio has a ramp.
Tidy ==
  \A i \in Ins : \A s \in DOMAIN sources[i] :
    /\ <<sources[i][s].port, i>> \in Links
    /\ sources[i][s].port \notin Audio => sources[i][s].state = "none"

\* Who has left or is marked was removed by the user.
LetGo == Mods \ mods \subseteq doomed /\ deleting \subseteq doomed

\* What the user wants is connected, between modules the user keeps.
WantedThere ==
  \A l \in wanted : HasSource(sources[l[2]], l[1]) /\ {Owner[l[1]], Owner[l[2]]} \cap doomed = {}

\* Of an array of input i, between what is wanted, removed and awaited: what falls is
\* removed, from another module, or no longer wanted; a mute is that of the module whose preset is awaited,
\* next to nothing that falls; two that fall are the inputs of a removed module.
ArrayMeant(i, conn, want, dead, load) ==
  \A s \in DOMAIN conn :
    /\ conn[s].state = "del" => Owner[conn[s].port] \in dead /\ Owner[i] # Owner[conn[s].port]
    /\ conn[s].state = "down" => <<conn[s].port, i>> \notin want
    /\ conn[s].state = "drain" => Owner[conn[s].port] = load
    /\ \A r \in DOMAIN conn :
         /\ conn[s].state = "drain" => conn[r].state \notin Falls
         /\ s # r /\ {conn[s].state, conn[r].state} \subseteq Falls =>
              Owner[i] \in dead /\ conn[s].state = "down"
ArraysMeant == \A i \in Ins : InPatch(i) => ArrayMeant(i, sources[i], wanted, doomed, loading)

MuteLoads == loading \notin doomed /\ (loading = NoMod => silence = "run")

\* The ramps of a mute are n periods from their end, all of them; silence_state says
\* which mute there is.
Muted(i, s) == Owner[sources[i][s].port] = loading /\ sources[i][s].port \in Audio
MutesUntil(n) ==
  /\ silence = "wait" <=> n = 0
  /\ silence # "run" => \A i \in Ins : InPatch(i) => \A s \in DOMAIN sources[i] :
       Muted(i, s) => sources[i][s].state = "drain" /\ sources[i][s].left = n
  /\ silence = "run" => \A i \in Ins : InPatch(i) => \A s \in DOMAIN sources[i] : ~Muted(i, s)
MutesTogether == loading # NoMod => \E n \in 0..RampPeriods : MutesUntil(n)

\* A removed module feeds others by ramps to its removal only, which end together; once
\* marked it feeds no other.
FedByDoomed(i, s) == /\ InPatch(i) /\ s \in DOMAIN sources[i]
                     /\ Owner[sources[i][s].port] \in doomed
                     /\ Owner[i] # Owner[sources[i][s].port]
FadesTogether ==
  \A i \in Ins : \A s \in DOMAIN sources[i] : FedByDoomed(i, s) =>
    /\ sources[i][s].state = "del" /\ Owner[sources[i][s].port] \notin deleting
    /\ \A j \in Ins : \A r \in DOMAIN sources[j] :
         FedByDoomed(j, r) /\ Owner[sources[j][r].port] = Owner[sources[i][s].port] =>
           sources[j][r].left = sources[i][s].left

Meant == LetGo /\ WantedThere /\ ArraysMeant /\ MuteLoads /\ MutesTogether /\ FadesTogether
CalmInv == Tidy /\ (calm /\ Separate => Meant)

\* An array without ramps.
Plain(conn) == \A s \in DOMAIN conn : conn[s].state = "none"

\* What Tidy asks of one array.
TidyArray(i, conn) == /\ \A o \in Feeds(conn) : <<o, i>> \in Links
                      /\ i \notin Audio => Plain(conn)

LEMMA TidyArrays ==
  ASSUME NEW i \in Ins, NEW conn
  PROVE  TidyArray(i, conn) <=>
           \A s \in DOMAIN conn : /\ <<conn[s].port, i>> \in Links
                                  /\ conn[s].port \notin Audio => conn[s].state = "none"
<1>1. \A o : <<o, i>> \in Links => (o \in Audio <=> i \in Audio)
  OBVIOUS
<1> QED BY <1>1 DEF TidyArray, Plain, Feeds

LEMMA LinkedPorts ==
  ASSUME NEW i \in Ins, NEW conn, TidyArray(i, conn)
  PROVE  /\ i \in Audio => Feeds(conn) \subseteq Audio
         /\ i \notin Audio => Feeds(conn) \cap Audio = {}
<1>1. \A o : <<o, i>> \in Links => (o \in Audio <=> i \in Audio)
  OBVIOUS
<1> QED BY <1>1 DEF TidyArray

(* What carries no audio never has a ramp.                                 *)
LEMMA DropAllPlain ==
  ASSUME NEW conn \in Seq(Source), Plain(conn), Feeds(conn) \cap Audio = {}
  PROVE  Plain(DropAll(conn))
<1>0. Len(conn) \in Nat
  BY SeqFact
<1>1. PICK after : /\ DropAll(conn) = after[Len(conn)]
                   /\ after[0] = conn
                   /\ \A k \in 0..Len(conn) - 1 : after[k + 1] = DropAt(after[k], k + 1)
  BY <1>0, DropAllPasses
<1> DEFINE Good(c) == c \in Seq(Source) /\ Plain(c) /\ Feeds(c) \cap Audio = {}
           S == {k \in 0..Len(conn) : Good(after[k])}
<1>2. ASSUME NEW c, Good(c), NEW s PROVE Good(DropAt(c, s))
  <2>1. CASE s > Len(c)
    BY <1>2, <2>1 DEF DropAt
  <2>2. CASE ~(s > Len(c))
    <3> DEFINE ports == {c[s].port}
    <3>1. DropAt(c, s) = Cut(c, ports)
      <4>1. "down" \in States
        BY DEF States
      <4>2. DropRequest(c, ports, "down") = Cut(c, ports)
        BY <1>2, <4>1, DropFact
      <4> QED BY <2>2, <4>2 DEF DropAt
    <3> HIDE DEF ports
    <3>2. Within(Cut(c, ports), c) /\ Plain(Cut(c, ports))
      BY <1>2, CutFact DEF Plain
    <3> QED BY <1>2, <3>1, <3>2 DEF Within
  <2> QED BY <2>1, <2>2
<1>3. 0 \in S
  BY <1>0, <1>1
<1>4. \A k \in 0..Len(conn) - 1 : k \in S => k + 1 \in S
  <2> HIDE DEF Good
  <2> QED BY <1>0, <1>1, <1>2
<1>5. \A k \in 0..Len(conn) : k \in S
  <2> HIDE DEF S
  <2> QED BY <1>0, <1>3, <1>4, UpTo
<1> QED BY <1>0, <1>1, <1>5

LEMMA CutAllPlain ==
  ASSUME NEW conn \in Seq(Source), Plain(conn)
  PROVE  Plain(CutAll(conn))
<1>0. Len(conn) \in Nat
  BY SeqFact
<1>1. PICK after : /\ CutAll(conn) = after[Len(conn)]
                   /\ after[0] = conn
                   /\ \A k \in 0..Len(conn) - 1 : after[k + 1] = CutAt(after[k], k + 1)
  BY <1>0, CutAllPasses
<1> DEFINE Good(c) == c \in Seq(Source) /\ Plain(c)
           S == {k \in 0..Len(conn) : Good(after[k])}
<1>2. ASSUME NEW c, Good(c), NEW s PROVE Good(CutAt(c, s))
  <2> DEFINE ports == {c[s].port}
  <2>1. CutAt(c, s) = c \/ CutAt(c, s) = Cut(c, ports)
    BY DEF CutAt
  <2> HIDE DEF ports
  <2>2. Within(Cut(c, ports), c) /\ Plain(Cut(c, ports))
    BY <1>2, CutFact DEF Plain
  <2> QED BY <1>2, <2>1, <2>2 DEF Within
<1>3. 0 \in S
  BY <1>0, <1>1
<1>4. \A k \in 0..Len(conn) - 1 : k \in S => k + 1 \in S
  <2> HIDE DEF Good
  <2> QED BY <1>0, <1>1, <1>2
<1>5. \A k \in 0..Len(conn) : k \in S
  <2> HIDE DEF S
  <2> QED BY <1>0, <1>3, <1>4, UpTo
<1> QED BY <1>0, <1>1, <1>5

LEMMA PlainKept ==
  ASSUME NEW conn \in Seq(Source), Plain(conn), Feeds(conn) \cap Audio = {}, NEW ports, NEW state \in States
  PROVE  /\ Plain(Cut(conn, ports)) /\ Plain(DropRequest(conn, ports, state))
         /\ Plain(Ramp(conn, ports, state)) /\ Plain(Multiplex(conn).conn)
         /\ Plain(DropAll(conn)) /\ Plain(CutAll(conn))
<1>1. Plain(Cut(conn, ports))
  BY CutFact DEF Plain
<1>2. DropRequest(conn, ports, state) = Cut(conn, ports)
  BY DropFact
<1>3. Ramp(conn, ports, state) = conn
  <2> DEFINE at == {s \in DOMAIN conn : conn[s].port \in ports \cap Audio}
  <2>1. at = {}
    BY DEF Feeds
  <2>2. Start(conn, at, state) = conn
    <3> HIDE DEF at
    <3> QED BY <2>1, StartFact
  <2> QED BY <2>2 DEF Ramp
<1>4. Plain(Multiplex(conn).conn)
  <2>1. \A s \in DOMAIN conn : ~Ends(conn[s]) /\ Later(conn[s]) = conn[s]
    BY DEF Plain, Ends, Falls, Later
  <2> QED BY <2>1, MultiplexEach DEF Plain
<1> QED BY <1>1, <1>2, <1>3, <1>4, DropAllPlain, CutAllPlain

(* The inputs of a removed module whose sources have no ramps all fade out.*)
LEMMA DropAllDown ==
  ASSUME NEW conn \in Seq(Source), Plain(conn), Feeds(conn) \subseteq Audio
  PROVE  \A s \in DOMAIN DropAll(conn) : DropAll(conn)[s].state = "down"
<1>0. Len(conn) \in Nat /\ DOMAIN conn = 1..Len(conn)
  BY SeqFact
<1>1. PICK after : /\ DropAll(conn) = after[Len(conn)]
                   /\ after[0] = conn
                   /\ \A k \in 0..Len(conn) - 1 : after[k + 1] = DropAt(after[k], k + 1)
  BY <1>0, DropAllPasses
<1> DEFINE Good(k, c) == /\ c \in Seq(Source) /\ Feeds(c) \subseteq Audio /\ DOMAIN c = DOMAIN conn
                         /\ \A s \in DOMAIN conn : /\ c[s].state \in {"none", "down"}
                                                   /\ s <= k => c[s].state = "down"
           S == {k \in 0..Len(conn) : Good(k, after[k])}
<1>2. ASSUME NEW k \in 0..Len(conn) - 1, NEW c, Good(k, c) PROVE Good(k + 1, DropAt(c, k + 1))
  <2> DEFINE s == k + 1
             ports == {c[s].port}
             at == {q \in DOMAIN c : c[q].port \in ports /\ c[q].state = "none"}
  <2>1. "down" \in States
    BY DEF States
  <2>2. s \in DOMAIN conn /\ s \in DOMAIN c /\ Len(c) \in Nat /\ DOMAIN c = 1..Len(c)
    BY <1>0, <1>2, SeqFact
  <2>3. DropAt(c, s) = DropRequest(c, ports, "down")
    BY <2>2 DEF DropAt
  <2>4. DropRequest(c, ports, "down") = Start(c, at, "down")
    <3> HIDE DEF ports
    <3> QED BY <1>2, <2>1, DropFact
  <2>5. s \in at \/ c[s].state = "down"
    BY <1>2, <2>2
  <2> DEFINE new == Start(c, at, "down")
  <2>6. /\ Within(new, c) /\ Feeds(new) = Feeds(c) /\ DOMAIN new = DOMAIN c
        /\ \A q \in DOMAIN c : (q \in at => new[q].state = "down") /\ (q \notin at => new[q] = c[q])
    <3> HIDE DEF at
    <3> QED BY <1>2, <2>1, StartFact
  <2>7. \A q \in DOMAIN conn : q <= k + 1 => q <= k \/ q = s
    BY <1>0
  <2>8. DropAt(c, k + 1) = new
    BY <2>3, <2>4
  <2> HIDE DEF new, at, s
  <2>9. \A q \in DOMAIN conn : /\ new[q].state \in {"none", "down"}
                               /\ q <= k + 1 => new[q].state = "down"
    BY <1>2, <2>2, <2>5, <2>6, <2>7
  <2> QED BY <1>2, <2>6, <2>8, <2>9 DEF Within
<1>3. 0 \in S
  BY <1>0, <1>1 DEF Plain
<1>4. \A k \in 0..Len(conn) - 1 : k \in S => k + 1 \in S
  <2> HIDE DEF Good
  <2> QED BY <1>0, <1>1, <1>2
<1>5. \A k \in 0..Len(conn) : k \in S
  <2> HIDE DEF S
  <2> QED BY <1>0, <1>3, <1>4, UpTo
<1>6. Good(Len(conn), DropAll(conn))
  BY <1>0, <1>1, <1>5
<1> QED BY <1>0, <1>6

(* Who is connected was connected by the user, whatever orders meet.       *)
LEMMA TidyIs ==
  /\ Tidy <=> \A i \in Ins : TidyArray(i, sources[i])
  /\ Tidy' <=> \A i \in Ins : TidyArray(i, sources'[i])
<1>1. Tidy <=> \A i \in Ins : TidyArray(i, sources[i])
  BY TidyArrays DEF Tidy
<1>2. Tidy' <=> \A i \in Ins : TidyArray(i, sources'[i])
  BY TidyArrays DEF Tidy
<1> QED BY <1>1, <1>2

LEMMA TidyWithin ==
  ASSUME NEW i \in Ins, NEW conn, TidyArray(i, conn), NEW new, Within(new, conn), i \notin Audio => Plain(new)
  PROVE  TidyArray(i, new)
  BY DEF TidyArray, Within

LEMMA TidyOps ==
  ASSUME NEW i \in Ins, NEW conn \in Seq(Source), TidyArray(i, conn), NEW ports, NEW state \in States
  PROVE  /\ TidyArray(i, Cut(conn, ports)) /\ TidyArray(i, DropRequest(conn, ports, state))
         /\ TidyArray(i, Ramp(conn, ports, state)) /\ TidyArray(i, Multiplex(conn).conn)
         /\ TidyArray(i, DropAll(conn)) /\ TidyArray(i, CutAll(conn))
<1>1. /\ Within(Cut(conn, ports), conn) /\ Within(DropRequest(conn, ports, state), conn)
      /\ Within(Ramp(conn, ports, state), conn) /\ Within(Multiplex(conn).conn, conn)
      /\ Within(DropAll(conn), conn) /\ Within(CutAll(conn), conn)
  BY CutFact, DropFact, RampFact, MultiplexFact, DropAllFact, CutAllFact
<1>2. i \notin Audio => /\ Plain(Cut(conn, ports)) /\ Plain(DropRequest(conn, ports, state))
                        /\ Plain(Ramp(conn, ports, state)) /\ Plain(Multiplex(conn).conn)
                        /\ Plain(DropAll(conn)) /\ Plain(CutAll(conn))
  <2>1. i \notin Audio => Plain(conn) /\ Feeds(conn) \cap Audio = {}
    BY LinkedPorts DEF TidyArray
  <2> QED BY <2>1, PlainKept
<1> QED BY <1>1, <1>2, TidyWithin

LEMMA TidyStep == TypeOK /\ Tidy /\ [Next]_vars => Tidy'
<1> SUFFICES ASSUME TypeOK, Tidy, [Next]_vars PROVE Tidy'
  OBVIOUS
<1>0. /\ sources \in [Ins -> Seq(Source)] /\ \A i \in Ins : Len(sources[i]) <= MaxSources
      /\ {"down", "del", "drain", "up"} \subseteq States
  BY DEF TypeOK, States
<1>a. \A i \in Ins : TidyArray(i, sources[i])
  BY TidyIs
<1>b. (\A i \in Ins : TidyArray(i, sources'[i])) => Tidy'
  BY TidyIs
<1>1. ASSUME NEW l \in Links, Connect(l) PROVE Tidy'
  <2>1. l[2] \in Ins /\ l = <<l[1], l[2]>>
    OBVIOUS
  <2>2. sources' = [sources EXCEPT ![l[2]] = Added(l)]
    BY <1>1 DEF Connect, Added
  <2> DEFINE i == l[2]
  <2>3. /\ Feeds(Added(l)) \subseteq Feeds(sources[i]) \cup {l[1]}
        /\ \A s \in DOMAIN sources[i] : s \in DOMAIN Added(l) /\ Added(l)[s] = sources[i][s]
        /\ \A s \in DOMAIN Added(l) \ DOMAIN sources[i] :
              Added(l)[s].state = IF l[1] \in Audio THEN "up" ELSE "none"
    BY <1>0, <2>1, AddedFact
  <2>4. l[1] \in Audio <=> i \in Audio
    OBVIOUS
  <2>5. TidyArray(i, sources[i])
    BY <1>a, <2>1
  <2> HIDE DEF i
  <2>6. TidyArray(i, Added(l))
    BY <2>1, <2>3, <2>4, <2>5 DEF TidyArray, Plain, i
  <2> QED BY <1>0, <1>a, <1>b, <2>1, <2>2, <2>6 DEF i
<1>2. ASSUME NEW l \in Links, Disconnect(l) PROVE Tidy'
  <2>1. l[2] \in Ins /\ sources' = [sources EXCEPT ![l[2]] = DropRequest(sources[l[2]], {l[1]}, "down")]
    BY <1>2 DEF Disconnect
  <2>2. TidyArray(l[2], DropRequest(sources[l[2]], {l[1]}, "down"))
    BY <1>0, <1>a, <2>1, TidyOps
  <2> QED BY <1>0, <1>a, <1>b, <2>1, <2>2
<1>3. ASSUME NEW m \in Mods, RemoveModule(m) PROVE Tidy'
  <2>1. Faded(m) \in [Ins -> Seq(Source)]
    BY <1>0, FadedFact
  <2>2. \A i \in Ins : TidyArray(i, Faded(m)[i])
    <3> SUFFICES ASSUME NEW i \in Ins PROVE TidyArray(i, Faded(m)[i])
      OBVIOUS
    <3>1. sources[i] \in Seq(Source) /\ TidyArray(i, sources[i])
      BY <1>0, <1>a
    <3>2. /\ TidyArray(i, DropAll(sources[i])) /\ TidyArray(i, DropRequest(sources[i], OutsOf(m), "del"))
      BY <1>0, <3>1, TidyOps
    <3> QED BY <3>1, <3>2 DEF Faded
  <2>3. \A i \in Ins : TidyArray(i, Ejected(Faded(m), m)[i])
    <3> SUFFICES ASSUME NEW i \in Ins PROVE TidyArray(i, Ejected(Faded(m), m)[i])
      OBVIOUS
    <3>1. Faded(m)[i] \in Seq(Source) /\ TidyArray(i, Faded(m)[i])
      BY <2>1, <2>2
    <3>2. TidyArray(i, CutAll(Faded(m)[i])) /\ TidyArray(i, Cut(Faded(m)[i], OutsOf(m)))
      BY <1>0, <3>1, TidyOps
    <3> QED BY <3>1, <3>2 DEF Ejected
  <2>4. sources' = Faded(m) \/ sources' = Ejected(Faded(m), m)
    BY <1>3 DEF RemoveModule
  <2> QED BY <1>b, <2>2, <2>3, <2>4
<1>4. ASSUME NEW m, NEW state \in States, sources' = Ramped(m, state) PROVE Tidy'
  <2> SUFFICES ASSUME NEW i \in Ins PROVE TidyArray(i, sources'[i])
    BY <1>b
  <2>1. sources[i] \in Seq(Source) /\ TidyArray(i, sources[i])
    BY <1>0, <1>a
  <2>2. TidyArray(i, Ramp(sources[i], OutsOf(m), state))
    BY <2>1, TidyOps
  <2> QED BY <1>4, <2>1, <2>2 DEF Ramped
<1>5. ASSUME NEW m \in Mods, PresetLoad(m) PROVE Tidy'
  BY <1>0, <1>4, <1>5 DEF PresetLoad
<1>6. CASE UNCHANGED sources
  BY <1>a, <1>b, <1>6
<1>7. CASE PresetLoaded
  BY <1>0, <1>4, <1>6, <1>7 DEF PresetLoaded
<1>8. CASE Pre
  <2>1. CASE UNCHANGED sources
    BY <1>6, <2>1
  <2>2. ASSUME NEW m, sources' = Ejected(sources, m) PROVE Tidy'
    <3> SUFFICES ASSUME NEW i \in Ins PROVE TidyArray(i, sources'[i])
      BY <1>b
    <3>1. sources[i] \in Seq(Source) /\ TidyArray(i, sources[i])
      BY <1>0, <1>a
    <3>2. TidyArray(i, CutAll(sources[i])) /\ TidyArray(i, Cut(sources[i], OutsOf(m)))
      BY <1>0, <3>1, TidyOps
    <3> QED BY <2>2, <3>1, <3>2 DEF Ejected
  <2> QED BY <1>8, <2>1, <2>2 DEF Pre
<1>9. CASE Run
  <2> SUFFICES ASSUME NEW i \in Ins PROVE TidyArray(i, sources'[i])
    BY <1>b
  <2>1. sources[i] \in Seq(Source) /\ TidyArray(i, sources[i])
    BY <1>0, <1>a
  <2>2. TidyArray(i, Multiplex(sources[i]).conn)
    BY <1>0, <2>1, TidyOps
  <2>3. sources'[i] = Multiplex(sources[i]).conn \/ sources'[i] = sources[i]
    BY <1>0, <1>9, RunFact
  <2> QED BY <2>1, <2>2, <2>3
<1>10. CASE UNCHANGED vars
  BY <1>6, <1>10 DEF vars
<1> QED BY <1>1, <1>2, <1>3, <1>5, <1>7, <1>8, <1>9, <1>10 DEF Next, Period

(* No step that keeps clear of ramps lets one end for another.             *)
LEMMA SourceFact ==
  ASSUME TypeOK
  PROVE  /\ sources \in [Ins -> Seq(Source)]
         /\ \A i \in Ins : \A s \in DOMAIN sources[i] :
              /\ sources[i][s].port \in Outs /\ Owner[sources[i][s].port] \in Mods
              /\ sources[i][s].state \in States /\ sources[i][s].left \in 0..RampPeriods
<1>1. sources \in [Ins -> Seq(Source)]
  BY DEF TypeOK
<1>2. ASSUME NEW i \in Ins, NEW s \in DOMAIN sources[i]
      PROVE  /\ sources[i][s].port \in Outs /\ Owner[sources[i][s].port] \in Mods
             /\ sources[i][s].state \in States /\ sources[i][s].left \in 0..RampPeriods
  <2>1. sources[i] \in Seq(Source)
    BY <1>1
  <2>2. /\ sources[i][s].port \in Outs
        /\ sources[i][s].state \in States /\ sources[i][s].left \in 0..RampPeriods
    BY <2>1, SeqFact
  <2> QED BY <2>2
<1> QED BY <1>1, <1>2

LEMMA OneOfEach ==
  ASSUME TypeOK, NoSourceTwice, Tidy, Separate, NEW i \in Ins, i \in Audio,
         NEW s \in DOMAIN sources[i], NEW r \in DOMAIN sources[i],
         Owner[sources[i][s].port] = Owner[sources[i][r].port]
  PROVE  s = r
<1> DEFINE k == <<sources[i][s].port, i>>
           l == <<sources[i][r].port, i>>
<1>1. k \in Links /\ l \in Links
  BY DEF Tidy
<1>2. sources[i][s].port \in Audio /\ sources[i][r].port \in Audio
  BY <1>1
<1>3. k = l
  BY <1>1, <1>2 DEF Separate
<1> QED BY <1>3 DEF NoSourceTwice

LEMMA RisesMeant ==
  ASSUME NEW i, NEW conn, \A s \in DOMAIN conn : conn[s].state \in {"none", "up"},
         NEW want, NEW dead, NEW load
  PROVE  ArrayMeant(i, conn, want, dead, load)
  BY DEF ArrayMeant, Falls

LEMMA StaysMeant ==
  ASSUME NEW i, NEW conn, NEW want, NEW dead, NEW load, ArrayMeant(i, conn, want, dead, load),
         NEW less, less \subseteq want, NEW more, dead \subseteq more
  PROVE  ArrayMeant(i, conn, less, more, load)
  BY DEF ArrayMeant

LEMMA FadesStay ==
  ASSUME FadesTogether, deleting' \subseteq deleting,
         \A i \in Ins : \A s : FedByDoomed(i, s)' => FedByDoomed(i, s) /\ sources'[i][s] = sources[i][s]
  PROVE  FadesTogether'
<1>1. \A i \in Ins : \A s : FedByDoomed(i, s)' => s \in DOMAIN sources'[i]
  BY DEF FedByDoomed
<1>2. \A i \in Ins : \A s : FedByDoomed(i, s) => s \in DOMAIN sources[i]
  BY DEF FedByDoomed
<1> SUFFICES ASSUME NEW i \in Ins, NEW s \in DOMAIN sources'[i], FedByDoomed(i, s)'
             PROVE  /\ sources'[i][s].state = "del" /\ Owner[sources'[i][s].port] \notin deleting'
                    /\ \A j \in Ins : \A r \in DOMAIN sources'[j] :
                         FedByDoomed(j, r)' /\ Owner[sources'[j][r].port] = Owner[sources'[i][s].port] =>
                           sources'[j][r].left = sources'[i][s].left
  BY DEF FadesTogether
<1> QED BY <1>1, <1>2 DEF FadesTogether

LEMMA ConnectMeant ==
  ASSUME TypeOK, NoSourceTwice, Tidy, Separate, Meant, NEW l \in Links, Connect(l), calm'
  PROVE  Meant'
<1>1. /\ mods' = mods /\ deleting' = deleting /\ doomed' = doomed /\ silence' = silence
      /\ loading' = loading /\ loading = NoMod /\ wanted' = wanted \cup {l}
      /\ ~Falling(l[2]) /\ {Owner[l[1]], Owner[l[2]]} \cap doomed = {}
      /\ HasSource(sources[l[2]], l[1]) \/ Len(sources[l[2]]) < MaxSources
  BY DEF Connect, Ui
<1>2. /\ l[1] \in Outs /\ l[2] \in Ins /\ l = <<l[1], l[2]>> /\ Len(sources[l[2]]) <= MaxSources
      /\ sources \in [Ins -> Seq(Source)]
  BY DEF TypeOK
<1>3. sources' = [sources EXCEPT ![l[2]] = Added(l)]
  BY DEF Connect, Added
<1>4. /\ HasSource(Added(l), l[1])
      /\ \A s \in DOMAIN sources[l[2]] : s \in DOMAIN Added(l) /\ Added(l)[s] = sources[l[2]][s]
      /\ \A s \in DOMAIN Added(l) \ DOMAIN sources[l[2]] :
           Added(l)[s].port = l[1] /\ Added(l)[s].state \in {"none", "up"}
  BY <1>1, <1>2, AddedFact
<1>5. \A i \in Ins : sources'[i] = IF i = l[2] THEN Added(l) ELSE sources[i]
  BY <1>2, <1>3
<1>6. \A i \in Ins : \A s \in DOMAIN sources[i] : s \in DOMAIN sources'[i] /\ sources'[i][s] = sources[i][s]
  BY <1>4, <1>5
<1>7. \A i \in Ins : \A s \in DOMAIN sources'[i] :
        \/ s \in DOMAIN sources[i]
        \/ i = l[2] /\ sources'[i][s].port = l[1] /\ sources'[i][s].state \in {"none", "up"}
  BY <1>4, <1>5
<1>8. \A s \in DOMAIN Added(l) : Added(l)[s].state \in {"none", "up"}
  <2>1. \A s \in DOMAIN sources[l[2]] : sources[l[2]][s].state \in {"none", "up"}
    BY <1>1, <1>2, SourceFact DEF Falling, States
  <2> QED BY <1>4, <2>1
<1> HIDE DEF Added
<1>a. LetGo'
  BY <1>1 DEF Meant, LetGo
<1>b. WantedThere'
  <2> SUFFICES ASSUME NEW k \in wanted'
               PROVE  HasSource(sources'[k[2]], k[1]) /\ {Owner[k[1]], Owner[k[2]]} \cap doomed = {}
    BY <1>1 DEF WantedThere
  <2>1. CASE k = l
    BY <1>1, <1>2, <1>4, <1>5, <2>1
  <2>2. CASE k \in wanted
    <3>1. HasSource(sources[k[2]], k[1]) /\ {Owner[k[1]], Owner[k[2]]} \cap doomed = {}
      BY <2>2 DEF Meant, WantedThere
    <3>2. k[2] \in Ins
      BY <2>2 DEF TypeOK
    <3> QED BY <1>6, <3>1, <3>2 DEF HasSource
  <2> QED BY <1>1, <2>1, <2>2
<1>c. ArraysMeant'
  <2> SUFFICES ASSUME NEW i \in Ins, Owner[i] \in mods
               PROVE  ArrayMeant(i, sources'[i], wanted', doomed, loading)
    BY <1>1 DEF ArraysMeant, InPatch
  <2>1. CASE i = l[2]
    BY <1>5, <1>8, <2>1, RisesMeant
  <2>2. CASE i # l[2]
    <3>1. ArrayMeant(i, sources[i], wanted, doomed, loading)
      BY DEF Meant, ArraysMeant, InPatch
    <3>2. \A o : <<o, i>> \in wanted' => <<o, i>> \in wanted
      BY <1>1, <1>2, <2>2
    <3> QED BY <1>5, <2>2, <3>1, <3>2 DEF ArrayMeant
  <2> QED BY <2>1, <2>2
<1>f. MuteLoads'
  BY <1>1 DEF Meant, MuteLoads
<1>g. MutesTogether'
  BY <1>1 DEF MutesTogether
<1>h. FadesTogether'
  <2>1. \A i \in Ins : \A s : FedByDoomed(i, s)' => FedByDoomed(i, s) /\ sources'[i][s] = sources[i][s]
    BY <1>1, <1>6, <1>7 DEF FedByDoomed, InPatch
  <2> QED BY <1>1, <2>1, FadesStay DEF Meant
<1> QED BY <1>a, <1>b, <1>c, <1>f, <1>g, <1>h DEF Meant

LEMMA DisconnectMeant ==
  ASSUME TypeOK, NoSourceTwice, Tidy, Separate, Meant, NEW l \in Links, Disconnect(l), calm'
  PROVE  Meant'
<1>1. /\ mods' = mods /\ deleting' = deleting /\ doomed' = doomed /\ silence' = silence
      /\ loading' = loading /\ loading = NoMod /\ wanted' = wanted \ {l}
      /\ ~Falling(l[2]) /\ Steady(l[1], l[2])
      /\ sources' = [sources EXCEPT ![l[2]] = DropRequest(sources[l[2]], {l[1]}, "down")]
  BY DEF Disconnect, Ui
<1>2. l[1] \in Outs /\ l[2] \in Ins /\ l = <<l[1], l[2]>> /\ sources \in [Ins -> Seq(Source)]
  BY DEF TypeOK
<1> DEFINE i == l[2]
           conn == sources[i]
           new == DropRequest(conn, {l[1]}, "down")
<1>3. conn \in Seq(Source) /\ TidyArray(i, conn) /\ "down" \in States
  BY <1>2, TidyIs DEF States
<1>4. /\ \A o \in Feeds(conn) : o # l[1] => o \in Feeds(new)
      /\ Feeds(new) \subseteq Feeds(conn)
  <2>1. Feeds(new) = Feeds(conn) \ ({l[1]} \ Audio)
    BY <1>3, DropFact
  <2> HIDE DEF new, conn
  <2> QED BY <2>1
<1>5. \/ Plain(new)
      \/ /\ DOMAIN new = DOMAIN conn
         /\ \A s \in DOMAIN conn : IF conn[s].port = l[1]
              THEN new[s].port = l[1] /\ new[s].state = "down"
              ELSE new[s] = conn[s]
  <2>1. CASE i \notin Audio
    <3>1. Plain(conn) /\ Feeds(conn) \cap Audio = {}
      BY <1>3, <2>1, <1>2, LinkedPorts DEF TidyArray
    <3> QED BY <1>3, <3>1, PlainKept
  <2>2. CASE i \in Audio
    <3> DEFINE at == {s \in DOMAIN conn : conn[s].port \in {l[1]} /\ conn[s].state = "none"}
    <3>1. Feeds(conn) \subseteq Audio
      BY <1>2, <1>3, <2>2, LinkedPorts
    <3>2. new = Start(conn, at, "down")
      BY <1>3, <3>1, DropFact
    <3>3. \A s \in DOMAIN conn : s \in at <=> conn[s].port = l[1]
      BY <1>1 DEF Steady
    <3> HIDE DEF at, new
    <3> QED BY <1>3, <3>2, <3>3, StartFact
  <2> QED BY <2>1, <2>2
<1>6. \A j \in Ins : sources'[j] = IF j = i THEN new ELSE sources[j]
  BY <1>1, <1>2
<1>7. \A s \in DOMAIN conn : conn[s].state \notin {"down", "del", "drain"}
  BY <1>1 DEF Falling
<1>8. i \in Ins
  BY <1>2
<1>9. \A s, r \in DOMAIN conn : conn[s].port = conn[r].port => s = r
  BY <1>8 DEF NoSourceTwice
<1>10. l = <<l[1], i>>
  BY <1>2
<1> HIDE DEF new, conn, i
<1>11. \A s \in DOMAIN new : \/ new[s].state \in {"none", "up"}
                             \/ /\ new[s].port = l[1] /\ new[s].state = "down"
                                /\ \A r \in DOMAIN new : r # s => new[r].state \notin {"down", "del", "drain"}
  <2>1. \A s \in DOMAIN conn : conn[s].state \in {"none", "up"}
    <3>1. \A s \in DOMAIN conn : conn[s].state \in States
      BY <1>3, SeqFact
    <3> QED BY <1>7, <3>1 DEF States
  <2>2. Plain(new) => \A s \in DOMAIN new : new[s].state \in {"none", "up"}
    BY DEF Plain
  <2> QED BY <1>5, <1>9, <2>1, <2>2
<1>a. LetGo'
  BY <1>1 DEF Meant, LetGo
<1>b. WantedThere'
  <2> SUFFICES ASSUME NEW k \in wanted'
               PROVE  HasSource(sources'[k[2]], k[1]) /\ {Owner[k[1]], Owner[k[2]]} \cap doomed = {}
    BY <1>1 DEF WantedThere
  <2>1. HasSource(sources[k[2]], k[1]) /\ {Owner[k[1]], Owner[k[2]]} \cap doomed = {}
    BY <1>1 DEF Meant, WantedThere
  <2>2. k[2] \in Ins /\ k = <<k[1], k[2]>> /\ k # l
    BY <1>1 DEF TypeOK
  <2>3. CASE k[2] = i
    <3>1. k[1] # l[1]
      BY <1>10, <2>2, <2>3
    <3>2. k[1] \in Feeds(conn)
      BY <2>1, <2>3 DEF HasSource, Feeds, conn
    <3>3. k[1] \in Feeds(new)
      BY <1>4, <3>1, <3>2
    <3> QED BY <1>6, <2>1, <2>2, <2>3, <3>3 DEF HasSource, Feeds
  <2>4. CASE k[2] # i
    BY <1>6, <2>1, <2>2, <2>4
  <2> QED BY <2>3, <2>4
<1>c. ArraysMeant'
  <2> SUFFICES ASSUME NEW j \in Ins, Owner[j] \in mods
               PROVE  ArrayMeant(j, sources'[j], wanted', doomed, loading)
    BY <1>1 DEF ArraysMeant, InPatch
  <2>1. CASE j = i
    <3>1. ArrayMeant(i, new, wanted', doomed, loading)
      BY <1>1, <1>10, <1>11 DEF ArrayMeant, Falls
    <3> QED BY <1>6, <2>1, <3>1
  <2>2. CASE j # i
    <3>1. ArrayMeant(j, sources[j], wanted, doomed, loading)
      BY DEF Meant, ArraysMeant, InPatch
    <3> QED BY <1>1, <1>6, <2>2, <3>1, StaysMeant
  <2> QED BY <2>1, <2>2
<1>f. MuteLoads'
  BY <1>1 DEF Meant, MuteLoads
<1>g. MutesTogether'
  BY <1>1 DEF MutesTogether
<1>h. FadesTogether'
  <2>1. \A j \in Ins : \A s : FedByDoomed(j, s)' => j # i
    <3> SUFFICES ASSUME NEW s, FedByDoomed(i, s)' PROVE FALSE
      BY <1>8
    <3>a. sources'[i] = new
      BY <1>6, <1>8
    <3>1. /\ s \in DOMAIN new /\ Owner[new[s].port] \in doomed /\ Owner[i] # Owner[new[s].port]
          /\ InPatch(i)
      BY <1>1, <3>a DEF FedByDoomed, InPatch
    <3>2. new[s].port \in Feeds(conn)
      BY <1>4, <3>1 DEF Feeds
    <3>3. PICK r \in DOMAIN conn : conn[r].port = new[s].port
      BY <3>2 DEF Feeds
    <3>4. FedByDoomed(i, r)
      BY <3>1, <3>3 DEF FedByDoomed, conn
    <3>5. conn[r].state = "del"
      BY <1>8, <3>3, <3>4 DEF Meant, FadesTogether, conn
    <3> QED BY <1>7, <3>5
  <2>a. \A j \in Ins : j # i => sources'[j] = sources[j]
    BY <1>6
  <2>2. \A j \in Ins : \A s : FedByDoomed(j, s)' => FedByDoomed(j, s) /\ sources'[j][s] = sources[j][s]
    <3> SUFFICES ASSUME NEW j \in Ins, NEW s, FedByDoomed(j, s)'
                 PROVE  FedByDoomed(j, s) /\ sources'[j][s] = sources[j][s]
      OBVIOUS
    <3>1. sources'[j] = sources[j]
      BY <2>a, <2>1
    <3> QED BY <1>1, <3>1 DEF FedByDoomed, InPatch
  <2> QED BY <1>1, <2>2, FadesStay DEF Meant
<1> QED BY <1>a, <1>b, <1>c, <1>f, <1>g, <1>h DEF Meant

LEMMA LoadMeant ==
  ASSUME TypeOK, NoSourceTwice, Tidy, Separate, Meant, NEW m \in Mods, PresetLoad(m), calm'
  PROVE  Meant'
<1>1. /\ mods' = mods /\ deleting' = deleting /\ doomed' = doomed /\ wanted' = wanted
      /\ loading = NoMod /\ loading' = m /\ sources' = Ramped(m, "drain")
      /\ silence' = IF NeedsRamping(m) THEN "block" ELSE "run"
      /\ m \notin doomed /\ \A i \in FedBy(m) : ~Falling(i)
  BY DEF PresetLoad, Ui
<1>2. silence = "run" /\ loading \notin Mods
  BY <1>1 DEF Meant, MuteLoads
<1>3. ASSUME NEW i \in Ins, Owner[i] \in mods
      PROVE  /\ DOMAIN sources'[i] = DOMAIN sources[i]
             /\ \A s \in DOMAIN sources[i] :
                  /\ sources'[i][s].port = sources[i][s].port
                  /\ IF Owner[sources[i][s].port] = m /\ sources[i][s].port \in Audio
                     THEN /\ sources'[i][s].state = "drain" /\ sources'[i][s].left = RampPeriods
                          /\ \A r \in DOMAIN sources[i] : sources[i][r].state \in {"none", "up"}
                     ELSE sources'[i][s] = sources[i][s]
  <2> DEFINE at == {s \in DOMAIN sources[i] : sources[i][s].port \in OutsOf(m) \cap Audio}
  <2>1. sources[i] \in Seq(Source) /\ "drain" \in States
    BY SourceFact DEF States
  <2>2. sources'[i] = Start(sources[i], at, "drain")
    BY <1>1, <1>3 DEF Ramped, Ramp, InPatch
  <2>3. /\ \A s \in DOMAIN sources[i] : sources[i][s].state \in States /\ sources[i][s].port \in Outs
        /\ \A s \in DOMAIN sources[i] :
             s \in at <=> Owner[sources[i][s].port] = m /\ sources[i][s].port \in Audio
    BY SourceFact DEF OutsOf
  <2>4. at # {} => \A r \in DOMAIN sources[i] : sources[i][r].state \in {"none", "up"}
    <3>1. at # {} => i \in FedBy(m)
      BY <1>3 DEF FedBy, HasSource, InPatch
    <3> QED BY <1>1, <2>3, <3>1 DEF Falling, States
  <2> HIDE DEF at
  <2> QED BY <2>1, <2>2, <2>3, <2>4, StartFact
<1>a. LetGo'
  BY <1>1 DEF Meant, LetGo
<1>b. WantedThere'
  <2> SUFFICES ASSUME NEW k \in wanted
               PROVE  HasSource(sources'[k[2]], k[1]) /\ {Owner[k[1]], Owner[k[2]]} \cap doomed = {}
    BY <1>1 DEF WantedThere
  <2>1. HasSource(sources[k[2]], k[1]) /\ {Owner[k[1]], Owner[k[2]]} \cap doomed = {}
    BY DEF Meant, WantedThere
  <2>2. k[2] \in Ins /\ Owner[k[2]] \in Mods
    BY DEF TypeOK
  <2>3. Owner[k[2]] \in mods
    BY <2>1, <2>2 DEF Meant, LetGo
  <2>4. /\ DOMAIN sources'[k[2]] = DOMAIN sources[k[2]]
        /\ \A s \in DOMAIN sources[k[2]] : sources'[k[2]][s].port = sources[k[2]][s].port
    BY <1>3, <2>2, <2>3
  <2> QED BY <2>1, <2>4 DEF HasSource
<1>c. ArraysMeant'
  <2> SUFFICES ASSUME NEW i \in Ins, Owner[i] \in mods
               PROVE  ArrayMeant(i, sources'[i], wanted, doomed, m)
    BY <1>1 DEF ArraysMeant, InPatch
  <2>1. ArrayMeant(i, sources[i], wanted, doomed, loading)
    BY DEF Meant, ArraysMeant, InPatch
  <2>2. \A s \in DOMAIN sources[i] : sources[i][s].state # "drain"
    <3>1. \A s \in DOMAIN sources[i] : Owner[sources[i][s].port] \in Mods
      BY SourceFact
    <3>2. \A s \in DOMAIN sources[i] : sources[i][s].state = "drain" => Owner[sources[i][s].port] = loading
      BY <2>1 DEF ArrayMeant
    <3> QED BY <1>2, <3>1, <3>2
  <2>3. CASE \A r \in DOMAIN sources[i] : sources[i][r].state \in {"none", "up"}
    BY <1>3, <2>3 DEF ArrayMeant, Falls
  <2>4. CASE \A s \in DOMAIN sources[i] : sources'[i][s] = sources[i][s]
    BY <1>3, <2>1, <2>2, <2>4 DEF ArrayMeant
  <2> QED BY <1>3, <2>3, <2>4
<1>f. MuteLoads'
  BY <1>1 DEF MuteLoads
<1>g. MutesTogether'
  <2>1. RampPeriods \in 0..RampPeriods /\ RampPeriods # 0
    OBVIOUS
  <2>2. \A i \in Ins : InPatch(i)' => Owner[i] \in mods
    BY <1>1 DEF InPatch
  <2>3. \A i \in Ins : Owner[i] \in mods => \A s \in DOMAIN sources'[i] :
          Muted(i, s)' => sources'[i][s].state = "drain" /\ sources'[i][s].left = RampPeriods
    BY <1>1, <1>3 DEF Muted
  <2>4. ~NeedsRamping(m) => \A i \in Ins : Owner[i] \in mods => \A s \in DOMAIN sources'[i] : ~Muted(i, s)'
    <3> SUFFICES ASSUME NEW i \in Ins, Owner[i] \in mods, NEW s \in DOMAIN sources'[i], Muted(i, s)'
                 PROVE  NeedsRamping(m)
      OBVIOUS
    <3>1. s \in DOMAIN sources[i] /\ Owner[sources[i][s].port] = m /\ sources[i][s].port \in Audio
      BY <1>1, <1>3 DEF Muted
    <3>2. sources[i][s].port \in OutsOf(m) \cap Audio /\ HasSource(sources[i], sources[i][s].port)
      BY <3>1, SourceFact DEF OutsOf, HasSource
    <3>3. i \in FedBy(m)
      BY <3>2 DEF FedBy, InPatch
    <3> QED BY <3>2, <3>3 DEF NeedsRamping
  <2>5. MutesUntil(RampPeriods)'
    BY <1>1, <2>1, <2>2, <2>3, <2>4 DEF MutesUntil
  <2> QED BY <2>1, <2>5 DEF MutesTogether
<1>h. FadesTogether'
  <2> SUFFICES ASSUME NEW i \in Ins, NEW s, FedByDoomed(i, s)'
               PROVE  FedByDoomed(i, s) /\ sources'[i][s] = sources[i][s]
    BY <1>1, FadesStay DEF Meant
  <2>1. Owner[i] \in mods /\ s \in DOMAIN sources'[i] /\ Owner[sources'[i][s].port] \in doomed
        /\ Owner[i] # Owner[sources'[i][s].port]
    BY <1>1 DEF FedByDoomed, InPatch
  <2>2. s \in DOMAIN sources[i] /\ sources'[i][s].port = sources[i][s].port
    BY <1>3, <2>1
  <2>3. Owner[sources[i][s].port] # m
    BY <1>1, <2>1, <2>2
  <2>4. sources'[i][s] = sources[i][s]
    BY <1>3, <2>1, <2>2, <2>3
  <2> QED BY <2>1, <2>2, <2>4 DEF FedByDoomed, InPatch
<1> QED BY <1>a, <1>b, <1>c, <1>f, <1>g, <1>h DEF Meant

LEMMA LoadedMeant ==
  ASSUME TypeOK, Tidy, Meant, PresetLoaded
  PROVE  Meant'
<1>1. /\ mods' = mods /\ deleting' = deleting /\ doomed' = doomed /\ wanted' = wanted
      /\ loading # NoMod /\ loading' = NoMod /\ silence # "block"
      /\ IF silence = "wait" THEN sources' = Ramped(loading, "up") /\ silence' = "run"
         ELSE sources' = sources /\ silence' = silence
  BY DEF PresetLoaded
<1>2. loading \in Mods /\ loading \notin doomed /\ silence \in {"run", "wait"} /\ NoMod \notin doomed
  BY <1>1 DEF TypeOK, Meant, MuteLoads
<1>3. PICK n \in 0..RampPeriods : MutesUntil(n)
  BY <1>1 DEF Meant, MutesTogether
<1>4. ASSUME NEW i \in Ins, Owner[i] \in mods, NEW s \in DOMAIN sources[i], sources[i][s].state = "drain"
      PROVE  silence = "wait" /\ Muted(i, s)
  <2>1. ArrayMeant(i, sources[i], wanted, doomed, loading)
    BY <1>4 DEF Meant, ArraysMeant, InPatch
  <2>2. Owner[sources[i][s].port] = loading
    BY <1>4, <2>1 DEF ArrayMeant
  <2>3. sources[i][s].port \in Audio
    BY <1>4 DEF Tidy
  <2>4. Muted(i, s)
    BY <2>2, <2>3 DEF Muted
  <2>5. silence # "run"
    BY <1>3, <1>4, <2>4 DEF MutesUntil, InPatch
  <2> QED BY <1>2, <2>4, <2>5
<1>5. ASSUME NEW i \in Ins, Owner[i] \in mods
      PROVE  /\ DOMAIN sources'[i] = DOMAIN sources[i]
             /\ \A s \in DOMAIN sources[i] :
                  /\ sources'[i][s].port = sources[i][s].port
                  /\ sources'[i][s].state # "drain"
                  /\ \/ sources'[i][s] = sources[i][s]
                     \/ Owner[sources[i][s].port] = loading /\ sources'[i][s].state = "up"
  <2>1. CASE silence = "run"
    <3>1. sources'[i] = sources[i]
      BY <1>1, <2>1
    <3> QED BY <1>4, <1>5, <2>1, <3>1
  <2>2. CASE silence = "wait"
    <3> DEFINE at == {s \in DOMAIN sources[i] : sources[i][s].port \in OutsOf(loading) \cap Audio}
    <3>1. sources[i] \in Seq(Source) /\ "up" \in States
      BY SourceFact DEF States
    <3>2. sources'[i] = Start(sources[i], at, "up")
      BY <1>1, <1>5, <2>2 DEF Ramped, Ramp, InPatch
    <3>3. \A s \in DOMAIN sources[i] : s \in at <=> Muted(i, s)
      BY SourceFact DEF OutsOf, Muted
    <3>4. \A s \in DOMAIN sources[i] : Muted(i, s) => Owner[sources[i][s].port] = loading
      BY DEF Muted
    <3> HIDE DEF at
    <3> QED BY <1>4, <1>5, <3>1, <3>2, <3>3, <3>4, StartFact
  <2> QED BY <1>2, <2>1, <2>2
<1>a. LetGo'
  BY <1>1 DEF Meant, LetGo
<1>b. WantedThere'
  <2> SUFFICES ASSUME NEW k \in wanted
               PROVE  HasSource(sources'[k[2]], k[1]) /\ {Owner[k[1]], Owner[k[2]]} \cap doomed = {}
    BY <1>1 DEF WantedThere
  <2>1. HasSource(sources[k[2]], k[1]) /\ {Owner[k[1]], Owner[k[2]]} \cap doomed = {}
    BY DEF Meant, WantedThere
  <2>2. k[2] \in Ins /\ Owner[k[2]] \in Mods
    BY DEF TypeOK
  <2>3. Owner[k[2]] \in mods
    BY <2>1, <2>2 DEF Meant, LetGo
  <2>4. /\ DOMAIN sources'[k[2]] = DOMAIN sources[k[2]]
        /\ \A s \in DOMAIN sources[k[2]] : sources'[k[2]][s].port = sources[k[2]][s].port
    BY <1>5, <2>2, <2>3
  <2> QED BY <2>1, <2>4 DEF HasSource
<1>c. ArraysMeant'
  <2> SUFFICES ASSUME NEW i \in Ins, Owner[i] \in mods
               PROVE  ArrayMeant(i, sources'[i], wanted, doomed, NoMod)
    BY <1>1 DEF ArraysMeant, InPatch
  <2>1. ArrayMeant(i, sources[i], wanted, doomed, loading)
    BY DEF Meant, ArraysMeant, InPatch
  <2>2. /\ DOMAIN sources'[i] = DOMAIN sources[i]
        /\ \A s \in DOMAIN sources[i] :
             /\ sources'[i][s].port = sources[i][s].port
             /\ sources'[i][s].state # "drain"
             /\ sources'[i][s] = sources[i][s] \/ sources'[i][s].state = "up"
    BY <1>5
  <2> QED BY <2>1, <2>2 DEF ArrayMeant, Falls
<1>f. MuteLoads'
  BY <1>1, <1>2 DEF MuteLoads
<1>g. MutesTogether'
  BY <1>1 DEF MutesTogether
<1>h. FadesTogether'
  <2> SUFFICES ASSUME NEW i \in Ins, NEW s, FedByDoomed(i, s)'
               PROVE  FedByDoomed(i, s) /\ sources'[i][s] = sources[i][s]
    BY <1>1, FadesStay DEF Meant
  <2>1. Owner[i] \in mods /\ s \in DOMAIN sources'[i] /\ Owner[sources'[i][s].port] \in doomed
        /\ Owner[i] # Owner[sources'[i][s].port]
    BY <1>1 DEF FedByDoomed, InPatch
  <2>2. s \in DOMAIN sources[i] /\ sources'[i][s].port = sources[i][s].port
    BY <1>5, <2>1
  <2>3. sources'[i][s] = sources[i][s]
    BY <1>2, <1>5, <2>1, <2>2
  <2> QED BY <2>1, <2>2, <2>3 DEF FedByDoomed, InPatch
<1> QED BY <1>a, <1>b, <1>c, <1>f, <1>g, <1>h DEF Meant

LEMMA PreMeant ==
  ASSUME TypeOK, Meant, Pre
  PROVE  Meant'
<1>1. /\ doomed' = doomed /\ wanted' = wanted /\ loading' = loading /\ silence' = silence
      /\ deleting' \subseteq deleting /\ mods' \subseteq mods
      /\ mods \ mods' \subseteq deleting
  BY DEF Pre
<1>2. \A i \in Ins : Owner[i] \in mods' => sources'[i] = sources[i]
  <2>1. CASE UNCHANGED sources
    BY <2>1
  <2>2. ASSUME NEW m \in deleting \cap mods, mods' = mods \ {m}, sources' = Ejected(sources, m),
               NEW i \in Ins, Owner[i] \in mods'
        PROVE  sources'[i] = sources[i]
    <3>1. sources[i] \in Seq(Source) /\ m \in doomed /\ Owner[i] # m /\ InPatch(i)
      BY <2>2, SourceFact DEF Meant, LetGo, InPatch
    <3>2. \A s \in DOMAIN sources[i] : sources[i][s].port \notin OutsOf(m)
      <4> SUFFICES ASSUME NEW s \in DOMAIN sources[i], Owner[sources[i][s].port] = m PROVE FALSE
        BY DEF OutsOf
      <4>1. FedByDoomed(i, s)
        BY <3>1 DEF FedByDoomed
      <4> QED BY <2>2, <4>1 DEF Meant, FadesTogether
    <3>3. Feeds(sources[i]) \cap OutsOf(m) = {}
      BY <3>2 DEF Feeds
    <3>4. Cut(sources[i], OutsOf(m)) = sources[i]
      BY <3>1, <3>3, CutFact
    <3> QED BY <2>2, <3>1, <3>4 DEF Ejected
  <2> QED BY <2>1, <2>2 DEF Pre
<1>a. LetGo'
  BY <1>1 DEF Meant, LetGo
<1>b. WantedThere'
  <2> SUFFICES ASSUME NEW k \in wanted
               PROVE  HasSource(sources'[k[2]], k[1]) /\ {Owner[k[1]], Owner[k[2]]} \cap doomed = {}
    BY <1>1 DEF WantedThere
  <2>1. HasSource(sources[k[2]], k[1]) /\ {Owner[k[1]], Owner[k[2]]} \cap doomed = {}
    BY DEF Meant, WantedThere
  <2>2. k[2] \in Ins /\ Owner[k[2]] \in Mods
    BY DEF TypeOK
  <2>3. Owner[k[2]] \in mods'
    BY <1>a, <1>1, <2>1, <2>2 DEF LetGo
  <2> QED BY <1>2, <2>1, <2>2, <2>3
<1>c. ArraysMeant'
  BY <1>1, <1>2 DEF Meant, ArraysMeant, InPatch
<1>f. MuteLoads'
  BY <1>1 DEF Meant, MuteLoads
<1>g. MutesTogether'
  <2> SUFFICES ASSUME loading # NoMod PROVE \E n \in 0..RampPeriods : MutesUntil(n)'
    BY <1>1 DEF MutesTogether
  <2>1. PICK n \in 0..RampPeriods : MutesUntil(n)
    BY DEF Meant, MutesTogether
  <2>2. \A i \in Ins : InPatch(i)' => InPatch(i) /\ sources'[i] = sources[i]
    BY <1>1, <1>2 DEF InPatch
  <2>3. \A i \in Ins : \A s : InPatch(i)' /\ Muted(i, s)' => Muted(i, s)
    <3> SUFFICES ASSUME NEW i \in Ins, NEW s, InPatch(i)', Muted(i, s)' PROVE Muted(i, s)
      OBVIOUS
    <3>1. sources'[i] = sources[i]
      BY <2>2
    <3> QED BY <1>1, <3>1 DEF Muted
  <2>4. MutesUntil(n)'
    BY <1>1, <2>1, <2>2, <2>3 DEF MutesUntil
  <2> QED BY <2>4
<1>h. FadesTogether'
  <2> SUFFICES ASSUME NEW i \in Ins, NEW s, FedByDoomed(i, s)'
               PROVE  FedByDoomed(i, s) /\ sources'[i][s] = sources[i][s]
    BY <1>1, FadesStay DEF Meant
  <2>1. Owner[i] \in mods'
    BY DEF FedByDoomed, InPatch
  <2>2. sources'[i] = sources[i]
    BY <1>2, <2>1
  <2> QED BY <1>1, <2>1, <2>2 DEF FedByDoomed, InPatch
<1> QED BY <1>a, <1>b, <1>c, <1>f, <1>g, <1>h DEF Meant

LEMMA RemoveMeant ==
  ASSUME TypeOK, NoSourceTwice, Tidy, Separate, Meant, NEW m \in Mods, RemoveModule(m), calm'
  PROVE  Meant'
<1>1. /\ m \in mods /\ mods' \in {mods, mods \ {m}} /\ deleting' = deleting
      /\ doomed' = doomed \cup {m} /\ wanted' = wanted \ Touching(m)
      /\ loading = NoMod /\ loading' = loading /\ silence' = silence
      /\ m \notin doomed /\ \A i \in FedBy(m) : ~Falling(i)
      /\ \A l \in Touching(m) : Steady(l[1], l[2])
  BY DEF RemoveModule, Ui
<1>2. \A i \in Ins : \A s \in DOMAIN sources[i] :
        m \in {Owner[sources[i][s].port], Owner[i]} => sources[i][s].state = "none"
  <2> SUFFICES ASSUME NEW i \in Ins, NEW s \in DOMAIN sources[i], m \in {Owner[sources[i][s].port], Owner[i]}
               PROVE  sources[i][s].state = "none"
    OBVIOUS
  <2> DEFINE l == <<sources[i][s].port, i>>
  <2>1. l \in Links
    BY DEF Tidy
  <2>2. l \in Touching(m)
    BY <2>1 DEF Touching
  <2> QED BY <1>1, <2>2 DEF Steady
<1>3. ASSUME NEW i \in Ins, Owner[i] \in mods', Owner[i] # m
      PROVE  sources'[i] = DropRequest(sources[i], OutsOf(m), "del")
  <2>1. InPatch(i) /\ "del" \in States /\ sources[i] \in Seq(Source) /\ TidyArray(i, sources[i])
    BY <1>1, <1>3, SourceFact, TidyIs DEF InPatch, States
  <2>2. Faded(m)[i] = DropRequest(sources[i], OutsOf(m), "del")
    BY <1>3, <2>1 DEF Faded
  <2>3. CASE NeedsRamping(m)
    BY <2>2, <2>3 DEF RemoveModule
  <2>4. CASE ~NeedsRamping(m)
    <3> DEFINE new == DropRequest(sources[i], OutsOf(m), "del")
    <3>1. sources'[i] = Cut(new, OutsOf(m))
      <4>1. sources' = Ejected(Faded(m), m)
        BY <2>4 DEF RemoveModule
      <4> QED BY <1>3, <2>1, <2>2, <4>1 DEF Ejected
    <3>2. Within(new, sources[i]) /\ Feeds(new) = Feeds(sources[i]) \ (OutsOf(m) \ Audio)
      BY <2>1, DropFact
    <3>3. Feeds(sources[i]) \cap (OutsOf(m) \cap Audio) = {}
      <4> SUFFICES ASSUME NEW o \in OutsOf(m) \cap Audio, o \in Feeds(sources[i]) PROVE NeedsRamping(m)
        BY <2>4
      <4>1. HasSource(sources[i], o)
        BY DEF Feeds, HasSource
      <4>2. i \in FedBy(m)
        BY <2>1, <4>1 DEF FedBy
      <4> QED BY <4>1, <4>2 DEF NeedsRamping
    <3> HIDE DEF new
    <3>4. new \in Seq(Source) /\ Feeds(new) \cap OutsOf(m) = {}
      BY <3>2, <3>3 DEF Within
    <3>5. Cut(new, OutsOf(m)) = new
      BY <3>4, CutFact
    <3> QED BY <3>1, <3>5 DEF new
  <2> QED BY <2>3, <2>4
<1>4. ASSUME NEW i \in Ins, Owner[i] = m
      PROVE  /\ \A s \in DOMAIN sources[i] : sources[i][s].state = "none"
             /\ Owner[i] \in mods' => /\ Feeds(sources'[i]) \subseteq Feeds(sources[i])
                                      /\ \A s \in DOMAIN sources'[i] : sources'[i][s].state \in {"none", "down"}
  <2>1. Plain(sources[i]) /\ sources[i] \in Seq(Source) /\ TidyArray(i, sources[i]) /\ "down" \in States
    BY <1>2, <1>4, SourceFact, TidyIs DEF Plain, States
  <2>2. Owner[i] \in mods' => sources'[i] = DropAll(sources[i])
    <3> SUFFICES ASSUME Owner[i] \in mods' PROVE sources'[i] = DropAll(sources[i])
      OBVIOUS
    <3>1. sources' = Faded(m)
      BY <1>1, <1>4 DEF RemoveModule
    <3> QED BY <1>4, <3>1 DEF Faded
  <2>3. Feeds(DropAll(sources[i])) \subseteq Feeds(sources[i])
    BY <2>1, DropAllFact DEF Within
  <2>4. CASE i \in Audio
    <3>1. Feeds(sources[i]) \subseteq Audio
      BY <2>1, <2>4, LinkedPorts
    <3>2. \A s \in DOMAIN DropAll(sources[i]) : DropAll(sources[i])[s].state = "down"
      BY <2>1, <3>1, DropAllDown
    <3> QED BY <2>1, <2>2, <2>3, <3>2 DEF Plain
  <2>5. CASE i \notin Audio
    <3>1. Feeds(sources[i]) \cap Audio = {}
      BY <2>1, <2>5, LinkedPorts
    <3>2. Plain(DropAll(sources[i]))
      BY <2>1, <3>1, DropAllPlain
    <3> QED BY <2>1, <2>2, <2>3, <3>2 DEF Plain
  <2> QED BY <2>4, <2>5
<1>5. ASSUME NEW i \in Ins, Owner[i] \in mods', Owner[i] # m, i \notin Audio
      PROVE  Plain(sources[i]) /\ Plain(sources'[i]) /\ Feeds(sources'[i]) = Feeds(sources[i]) \ OutsOf(m)
  <2>1. "del" \in States /\ sources[i] \in Seq(Source) /\ TidyArray(i, sources[i])
    BY SourceFact, TidyIs DEF States
  <2>2. Plain(sources[i]) /\ Feeds(sources[i]) \cap Audio = {}
    BY <1>5, <2>1, LinkedPorts DEF TidyArray
  <2> DEFINE new == DropRequest(sources[i], OutsOf(m), "del")
  <2>3. Plain(new)
    BY <2>1, <2>2, PlainKept
  <2>4. Feeds(new) = Feeds(sources[i]) \ (OutsOf(m) \ Audio)
    BY <2>1, DropFact
  <2>5. sources'[i] = new
    BY <1>3, <1>5
  <2> HIDE DEF new
  <2>6. Feeds(new) = Feeds(sources[i]) \ OutsOf(m)
    BY <2>2, <2>4
  <2> QED BY <2>2, <2>3, <2>5, <2>6
<1>6. ASSUME NEW i \in Ins, Owner[i] \in mods', Owner[i] # m, i \in Audio
      PROVE  /\ DOMAIN sources'[i] = DOMAIN sources[i]
             /\ \A s \in DOMAIN sources[i] :
                  IF Owner[sources[i][s].port] = m
                  THEN /\ sources'[i][s].port = sources[i][s].port
                       /\ sources'[i][s].state = "del" /\ sources'[i][s].left = RampPeriods
                       /\ \A r \in DOMAIN sources[i] : r # s =>
                            sources[i][r].state \in {"none", "up"} /\ Owner[sources[i][r].port] # m
                  ELSE sources'[i][s] = sources[i][s]
  <2>1. InPatch(i) /\ "del" \in States /\ sources[i] \in Seq(Source) /\ TidyArray(i, sources[i])
    BY <1>1, <1>6, SourceFact, TidyIs DEF InPatch, States
  <2> DEFINE at == {s \in DOMAIN sources[i] : sources[i][s].port \in OutsOf(m) /\ sources[i][s].state = "none"}
  <2>2. Feeds(sources[i]) \subseteq Audio
    BY <1>6, <2>1, LinkedPorts
  <2>3. DropRequest(sources[i], OutsOf(m), "del") = Start(sources[i], at, "del")
    BY <2>1, <2>2, DropFact
  <2>4. sources'[i] = Start(sources[i], at, "del")
    BY <1>3, <1>6, <2>3
  <2>5. \A s \in DOMAIN sources[i] : s \in at <=> Owner[sources[i][s].port] = m
    BY <1>2, SourceFact DEF OutsOf
  <2>6. \A s \in at : \A r \in DOMAIN sources[i] : r # s =>
          sources[i][r].state \in {"none", "up"} /\ Owner[sources[i][r].port] # m
    <3> SUFFICES ASSUME NEW s \in at, NEW r \in DOMAIN sources[i], r # s
                 PROVE  sources[i][r].state \in {"none", "up"} /\ Owner[sources[i][r].port] # m
      OBVIOUS
    <3>1. i \in FedBy(m)
      BY <2>1 DEF FedBy, HasSource
    <3>2. sources[i][r].state \in {"none", "up"}
      BY <1>1, <3>1, SourceFact DEF Falling, States
    <3>3. s \in DOMAIN sources[i] /\ Owner[sources[i][s].port] = m
      BY <2>5
    <3>4. Owner[sources[i][r].port] # m
      BY <1>6, <3>3, OneOfEach
    <3> QED BY <3>2, <3>4
  <2> HIDE DEF at
  <2> QED BY <2>1, <2>4, <2>5, <2>6, StartFact
<1>a. LetGo'
  BY <1>1 DEF Meant, LetGo
<1>b. WantedThere'
  <2> SUFFICES ASSUME NEW k \in wanted'
               PROVE  HasSource(sources'[k[2]], k[1]) /\ {Owner[k[1]], Owner[k[2]]} \cap doomed' = {}
    BY DEF WantedThere
  <2>1. HasSource(sources[k[2]], k[1]) /\ {Owner[k[1]], Owner[k[2]]} \cap doomed = {}
    BY <1>1 DEF Meant, WantedThere
  <2>2. k \in Links /\ k[1] \in Outs /\ k[2] \in Ins /\ Owner[k[2]] \in Mods
    BY <1>1 DEF TypeOK
  <2>3. Owner[k[1]] # m /\ Owner[k[2]] # m
    BY <1>1, <2>2 DEF Touching
  <2>4. Owner[k[2]] \in mods'
    BY <1>1, <2>1, <2>2, <2>3 DEF Meant, LetGo
  <2>5. k[1] \in Feeds(sources[k[2]]) \ OutsOf(m)
    BY <2>1, <2>3 DEF Feeds, HasSource, OutsOf
  <2>6. HasSource(sources'[k[2]], k[1])
    <3>1. CASE k[2] \notin Audio
      <4>1. k[1] \in Feeds(sources'[k[2]])
        BY <1>5, <2>2, <2>3, <2>4, <2>5, <3>1
      <4> QED BY <4>1 DEF Feeds, HasSource
    <3>2. CASE k[2] \in Audio
      <4>1. PICK s \in DOMAIN sources[k[2]] : sources[k[2]][s].port = k[1]
        BY <2>1 DEF HasSource
      <4>2. s \in DOMAIN sources'[k[2]] /\ sources'[k[2]][s] = sources[k[2]][s]
        BY <1>6, <2>2, <2>3, <2>4, <3>2, <4>1
      <4> QED BY <4>1, <4>2 DEF HasSource
    <3> QED BY <3>1, <3>2
  <2> QED BY <1>1, <2>1, <2>3, <2>6
<1>c. ArraysMeant'
  <2> SUFFICES ASSUME NEW i \in Ins, Owner[i] \in mods'
               PROVE  ArrayMeant(i, sources'[i], wanted', doomed', loading)
    BY <1>1 DEF ArraysMeant, InPatch
  <2>1. CASE Owner[i] = m
    <3>1. \A s \in DOMAIN sources'[i] : sources'[i][s].state \in {"none", "down"}
      BY <1>4, <2>1
    <3>2. \A s \in DOMAIN sources'[i] : <<sources'[i][s].port, i>> \notin wanted'
      <4>1. \A o : <<o, i>> \in wanted' => <<o, i>> \in Links
        BY <1>1 DEF TypeOK
      <4>2. \A o : <<o, i>> \in Links => <<o, i>> \in Touching(m)
        BY <2>1 DEF Touching
      <4> QED BY <1>1, <4>1, <4>2
    <3> QED BY <1>1, <2>1, <3>1, <3>2 DEF ArrayMeant, Falls
  <2>2. CASE Owner[i] # m /\ i \notin Audio
    BY <1>5, <2>2, RisesMeant DEF Plain
  <2>3. CASE Owner[i] # m /\ i \in Audio
    <3>1. ArrayMeant(i, sources[i], wanted, doomed, loading)
      BY <1>1 DEF Meant, ArraysMeant, InPatch
    <3>2. CASE \A s \in DOMAIN sources[i] : Owner[sources[i][s].port] # m
      <4>1. DOMAIN sources'[i] = DOMAIN sources[i] /\ \A s \in DOMAIN sources[i] : sources'[i][s] = sources[i][s]
        BY <1>6, <2>3, <3>2
      <4> QED BY <1>1, <3>1, <4>1 DEF ArrayMeant
    <3>3. ASSUME NEW p \in DOMAIN sources[i], Owner[sources[i][p].port] = m
          PROVE  ArrayMeant(i, sources'[i], wanted', doomed', loading)
      <4>1. /\ DOMAIN sources'[i] = DOMAIN sources[i]
            /\ sources'[i][p].state = "del" /\ Owner[sources'[i][p].port] = m
            /\ \A r \in DOMAIN sources[i] : r # p => sources'[i][r].state \in {"none", "up"}
        BY <1>6, <2>3, <3>3
      <4> QED BY <1>1, <2>3, <4>1 DEF ArrayMeant, Falls
    <3> QED BY <3>2, <3>3
  <2> QED BY <2>1, <2>2, <2>3
<1>f. MuteLoads'
  BY <1>1 DEF Meant, MuteLoads
<1>g. MutesTogether'
  BY <1>1 DEF MutesTogether
<1>h. FadesTogether'
  <2>1. ASSUME NEW i \in Ins, NEW s, FedByDoomed(i, s)'
        PROVE  /\ s \in DOMAIN sources'[i] /\ Owner[i] \in mods' /\ Owner[i] # Owner[sources'[i][s].port]
               /\ Owner[i] # m /\ i \in Audio
               /\ IF Owner[sources'[i][s].port] = m
                  THEN sources'[i][s].state = "del" /\ sources'[i][s].left = RampPeriods
                  ELSE FedByDoomed(i, s) /\ sources'[i][s] = sources[i][s]
    <3>1. /\ s \in DOMAIN sources'[i] /\ Owner[i] \in mods' /\ Owner[i] # Owner[sources'[i][s].port]
          /\ Owner[sources'[i][s].port] \in doomed'
      BY <2>1 DEF FedByDoomed, InPatch
    <3>2. ASSUME NEW o \in Feeds(sources[i]), Owner[o] \in doomed, Owner[i] # Owner[o]
          PROVE  ~Plain(sources[i])
      <4>1. PICK r \in DOMAIN sources[i] : sources[i][r].port = o
        BY DEF Feeds
      <4>2. FedByDoomed(i, r)
        BY <1>1, <3>1, <3>2, <4>1 DEF FedByDoomed, InPatch
      <4>3. sources[i][r].state = "del"
        BY <4>1, <4>2 DEF Meant, FadesTogether
      <4> QED BY <4>1, <4>3 DEF Plain
    <3>3. Owner[i] # m
      <4> SUFFICES ASSUME Owner[i] = m PROVE FALSE
        OBVIOUS
      <4>1. Plain(sources[i]) /\ sources'[i][s].port \in Feeds(sources[i])
        BY <1>4, <3>1 DEF Plain, Feeds
      <4> QED BY <1>1, <3>1, <3>2, <4>1
    <3>4. i \in Audio
      <4> SUFFICES ASSUME i \notin Audio PROVE FALSE
        OBVIOUS
      <4>1. Plain(sources[i]) /\ Feeds(sources'[i]) = Feeds(sources[i]) \ OutsOf(m)
        BY <1>5, <3>1, <3>3
      <4>2. sources'[i][s].port \in Feeds(sources[i]) \ OutsOf(m)
        BY <3>1, <4>1 DEF Feeds
      <4>3. sources'[i][s].port \in Outs
        <5>1. sources[i] \in Seq(Source)
          BY SourceFact
        <5> QED BY <4>2, <5>1, SeqFact DEF Feeds
      <4>4. Owner[sources'[i][s].port] # m
        BY <4>2, <4>3 DEF OutsOf
      <4> QED BY <1>1, <3>1, <3>2, <4>1, <4>2, <4>4
    <3>5. /\ s \in DOMAIN sources[i]
          /\ IF Owner[sources[i][s].port] = m
             THEN /\ sources'[i][s].port = sources[i][s].port
                  /\ sources'[i][s].state = "del" /\ sources'[i][s].left = RampPeriods
             ELSE sources'[i][s] = sources[i][s]
      BY <1>6, <3>1, <3>3, <3>4
    <3>6. Owner[sources[i][s].port] = m <=> Owner[sources'[i][s].port] = m
      BY <3>5
    <3>7. Owner[sources'[i][s].port] # m => FedByDoomed(i, s)
      BY <1>1, <3>1, <3>5, <3>6 DEF FedByDoomed, InPatch
    <3> QED BY <3>1, <3>3, <3>4, <3>5, <3>6, <3>7
  <2>2. m \notin deleting
    BY <1>1 DEF Meant, LetGo
  <2>3. \A j \in Ins : \A r : FedByDoomed(j, r) => r \in DOMAIN sources[j]
    BY DEF FedByDoomed
  <2>4. FadesTogether
    BY DEF Meant
  <2> SUFFICES ASSUME NEW i \in Ins, NEW s \in DOMAIN sources'[i], FedByDoomed(i, s)'
               PROVE  /\ sources'[i][s].state = "del" /\ Owner[sources'[i][s].port] \notin deleting'
                      /\ \A j \in Ins : \A r \in DOMAIN sources'[j] :
                           FedByDoomed(j, r)' /\ Owner[sources'[j][r].port] = Owner[sources'[i][s].port] =>
                             sources'[j][r].left = sources'[i][s].left
    BY DEF FadesTogether
  <2>5. CASE Owner[sources'[i][s].port] = m
    BY <1>1, <2>1, <2>2, <2>5
  <2>6. CASE Owner[sources'[i][s].port] # m
    <3>1. FedByDoomed(i, s) /\ sources'[i][s] = sources[i][s] /\ s \in DOMAIN sources[i]
      BY <2>1, <2>3, <2>6
    <3>2. \A j \in Ins : \A r : FedByDoomed(j, r)' /\ Owner[sources'[j][r].port] = Owner[sources'[i][s].port] =>
            FedByDoomed(j, r) /\ sources'[j][r] = sources[j][r] /\ r \in DOMAIN sources[j]
      BY <2>1, <2>3, <2>6
    <3> QED BY <1>1, <2>4, <3>1, <3>2 DEF FadesTogether
  <2> QED BY <2>5, <2>6
<1> QED BY <1>a, <1>b, <1>c, <1>f, <1>g, <1>h DEF Meant

\* What a period does to an array: nothing ends; one source is cut, all others being
\* steady or rising; or inputs of a removed module fall, some of them to their end.
AllGoOn(conn, run) ==
  /\ \A s \in DOMAIN conn : ~Ends(conn[s])
  /\ DOMAIN run.conn = DOMAIN conn /\ \A s \in DOMAIN conn : run.conn[s] = Later(conn[s])
  /\ run.dels = {} /\ (run.wait <=> \E s \in DOMAIN conn : Quiet(conn[s]))
OneEnds(conn, run, p) ==
  /\ p \in DOMAIN conn /\ Ends(conn[p])
  /\ \A s \in DOMAIN conn : conn[s].state # "drain" /\ (s # p => conn[s].state \notin Falls)
  /\ Feeds(run.conn) = Feeds(conn) \ {conn[p].port}
  /\ \A s \in DOMAIN run.conn : run.conn[s].state \in {"none", "up"}
  /\ run.dels = Marks(conn[p]) /\ ~run.wait
InputsFall(conn, run) ==
  /\ \A s \in DOMAIN conn : conn[s].state \in {"none", "up", "down"}
  /\ \A s \in DOMAIN run.conn : run.conn[s].state \in {"none", "up", "down"}
  /\ Feeds(run.conn) \subseteq Feeds(conn)
  /\ run.dels = {} /\ ~run.wait

LEMMA RunCases ==
  ASSUME NEW i, NEW conn \in Seq(Source), NEW want, NEW dead, NEW load, ArrayMeant(i, conn, want, dead, load)
  PROVE  \/ AllGoOn(conn, Multiplex(conn))
         \/ \E p : OneEnds(conn, Multiplex(conn), p)
         \/ InputsFall(conn, Multiplex(conn)) /\ Owner[i] \in dead
<1>1. CASE \A s \in DOMAIN conn : ~Ends(conn[s])
  BY <1>1, MultiplexEach DEF AllGoOn
<1>2. ASSUME NEW p \in DOMAIN conn, Ends(conn[p])
      PROVE  \/ OneEnds(conn, Multiplex(conn), p)
             \/ InputsFall(conn, Multiplex(conn)) /\ Owner[i] \in dead
  <2>1. conn[p].state \in Falls /\ \A s \in DOMAIN conn : conn[s].state # "drain"
    BY <1>2 DEF Ends, ArrayMeant
  <2>2. CASE \A s \in DOMAIN conn : s # p => conn[s].state \notin Falls
    BY <1>2, <2>1, <2>2, MultiplexOne DEF OneEnds, Marks
  <2>3. ASSUME NEW q \in DOMAIN conn, q # p, conn[q].state \in Falls
        PROVE  InputsFall(conn, Multiplex(conn)) /\ Owner[i] \in dead
    <3>1. \A s, r \in DOMAIN conn : s # r /\ conn[s].state \in Falls /\ conn[r].state \in Falls =>
            Owner[i] \in dead /\ conn[s].state = "down"
      BY DEF ArrayMeant
    <3>2. \A s \in DOMAIN conn : conn[s].state \in Falls => conn[s].state = "down"
      BY <2>1, <2>3, <3>1
    <3>3. \A s \in DOMAIN conn : conn[s].state \in {"none", "up", "down"}
      <4>1. \A s \in DOMAIN conn : conn[s].state \in States
        BY SeqFact
      <4> QED BY <2>1, <3>2, <4>1 DEF States, Falls
    <3>4. Feeds(Multiplex(conn).conn) \subseteq Feeds(conn)
      BY MultiplexFact DEF Within
    <3>5. Owner[i] \in dead
      BY <1>2, <2>1, <2>3, <3>1
    <3> QED BY <3>3, <3>4, <3>5, MultiplexDowns DEF InputsFall
  <2> QED BY <2>2, <2>3
<1> QED BY <1>1, <1>2

LEMMA RunMeant ==
  ASSUME TypeOK, Tidy, Meant, Run
  PROVE  Meant'
<1> DEFINE Alive(i) == i \in Ins /\ Owner[i] \in mods
           Ran(i) == Multiplex(sources[i])
<1>1. mods' = mods /\ doomed' = doomed /\ wanted' = wanted /\ loading' = loading
  BY DEF Run
<1>2. /\ \A i : Alive(i) => sources'[i] = Ran(i).conn
      /\ deleting' = deleting \cup UNION {Ran(i).dels : i \in {j \in Ins : InPatch(j)}}
      /\ silence' = IF \E i \in Ins : InPatch(i) /\ Ran(i).wait THEN "wait" ELSE silence
  BY SourceFact, RunFact DEF InPatch
<1>3. \A i : Alive(i) => ArrayMeant(i, sources[i], wanted, doomed, loading)
  BY DEF Meant, ArraysMeant, InPatch
<1>4. ASSUME NEW i, Alive(i)
      PROVE  \/ AllGoOn(sources[i], Ran(i))
             \/ \E p : OneEnds(sources[i], Ran(i), p)
             \/ InputsFall(sources[i], Ran(i)) /\ Owner[i] \in doomed
  <2>1. sources[i] \in Seq(Source)
    BY <1>4, SourceFact
  <2> QED BY <1>3, <1>4, <2>1, RunCases
<1>5. \A i : Alive(i) => \A s \in DOMAIN sources[i] :
        /\ Later(sources[i][s]).port = sources[i][s].port
        /\ Later(sources[i][s]).state \in {sources[i][s].state, "none"}
        /\ sources[i][s].state = "drain" =>
             /\ Later(sources[i][s]).state = "drain"
             /\ Later(sources[i][s]).left = IF sources[i][s].left > 1 THEN sources[i][s].left - 1 ELSE 0
        /\ sources[i][s].state = "del" /\ ~Ends(sources[i][s]) =>
             /\ Later(sources[i][s]).state = "del" /\ sources[i][s].left > 1
             /\ Later(sources[i][s]).left = sources[i][s].left - 1
  <2> SUFFICES ASSUME NEW i, Alive(i), NEW s \in DOMAIN sources[i]
               PROVE  LET src == sources[i][s]
                      IN  /\ Later(src).port = src.port /\ Later(src).state \in {src.state, "none"}
                          /\ src.state = "drain" => /\ Later(src).state = "drain"
                                                    /\ Later(src).left = IF src.left > 1 THEN src.left - 1 ELSE 0
                          /\ src.state = "del" /\ ~Ends(src) => /\ Later(src).state = "del" /\ src.left > 1
                                                               /\ Later(src).left = src.left - 1
    OBVIOUS
  <2> DEFINE src == sources[i][s]
  <2>1. src \in Source
    <3>1. sources[i] \in Seq(Source)
      BY SourceFact
    <3> QED BY <3>1, SeqFact
  <2> HIDE DEF src
  <2>2. /\ Later(src).port = src.port /\ Later(src).state \in {src.state, "none"}
        /\ src.state = "drain" => /\ Later(src).state = "drain"
                                  /\ Later(src).left = IF src.left > 1 THEN src.left - 1 ELSE 0
    BY <2>1, LaterFact
  <2>3. src.state = "del" /\ ~Ends(src) => /\ Later(src).state = "del" /\ src.left > 1
                                           /\ Later(src).left = src.left - 1
    <3> SUFFICES ASSUME src.state = "del", ~Ends(src)
                 PROVE  Later(src).state = "del" /\ src.left > 1 /\ Later(src).left = src.left - 1
      OBVIOUS
    <3>1. src.left > 1
      BY DEF Ends, Falls
    <3>2. Later(src) = [src EXCEPT !.left = @ - 1]
      BY <3>1 DEF Later
    <3> QED BY <2>1, <3>1, <3>2 DEF Source
  <2> QED BY <2>2, <2>3 DEF src
<1>6. ASSUME NEW i, Alive(i), NEW s \in DOMAIN sources[i], sources[i][s].state = "drain"
      PROVE  AllGoOn(sources[i], Ran(i)) /\ Muted(i, s) /\ loading # NoMod
  <2>1. AllGoOn(sources[i], Ran(i))
    BY <1>4, <1>6 DEF OneEnds, InputsFall
  <2>2. Owner[sources[i][s].port] = loading
    BY <1>3, <1>6 DEF ArrayMeant
  <2>3. sources[i][s].port \in Audio /\ Owner[sources[i][s].port] \in Mods
    BY <1>6, SourceFact DEF Tidy
  <2> QED BY <2>1, <2>2, <2>3 DEF Muted
<1>7. ASSUME NEW i, Alive(i), Ran(i).wait
      PROVE  \E s \in DOMAIN sources[i] : sources[i][s].state = "drain" /\ ~(sources[i][s].left > 1)
  <2>1. AllGoOn(sources[i], Ran(i))
    BY <1>4, <1>7 DEF OneEnds, InputsFall
  <2> QED BY <1>7, <2>1 DEF AllGoOn, Quiet
<1> HIDE DEF Ran
<1>a. LetGo'
  <2>1. ASSUME NEW i, Alive(i) PROVE Ran(i).dels \subseteq doomed
    <3>1. ASSUME NEW p, OneEnds(sources[i], Ran(i), p) PROVE Ran(i).dels \subseteq doomed
      <4>1. ArrayMeant(i, sources[i], wanted, doomed, loading)
        BY <1>3, <2>1
      <4>2. sources[i][p].state = "del" => Owner[sources[i][p].port] \in doomed
        BY <3>1, <4>1 DEF OneEnds, ArrayMeant
      <4> QED BY <3>1, <4>2 DEF OneEnds, Marks
    <3> QED BY <1>4, <2>1, <3>1 DEF AllGoOn, InputsFall
  <2>2. deleting' \subseteq doomed
    BY <1>2, <2>1 DEF Meant, LetGo, InPatch
  <2> QED BY <1>1, <2>2 DEF Meant, LetGo
<1>b. WantedThere'
  <2> SUFFICES ASSUME NEW k \in wanted
               PROVE  HasSource(sources'[k[2]], k[1]) /\ {Owner[k[1]], Owner[k[2]]} \cap doomed = {}
    BY <1>1 DEF WantedThere
  <2> DEFINE i == k[2]
  <2>1. HasSource(sources[i], k[1]) /\ Owner[k[1]] \notin doomed /\ Owner[i] \notin doomed
    BY DEF Meant, WantedThere
  <2>2. k = <<k[1], i>> /\ i \in Ins /\ Owner[i] \in Mods
    BY DEF TypeOK
  <2>3. Alive(i)
    BY <2>1, <2>2 DEF Meant, LetGo
  <2>4. PICK s \in DOMAIN sources[i] : sources[i][s].port = k[1]
    BY <2>1 DEF HasSource
  <2>5. k[1] \in Feeds(sources[i])
    BY <2>4 DEF Feeds
  <2>6. sources'[i] = Ran(i).conn /\ ArrayMeant(i, sources[i], wanted, doomed, loading)
    BY <1>2, <1>3, <2>3
  <2>7. <<k[1], i>> \in wanted
    BY <2>2
  <2> HIDE DEF i
  <2>8. CASE AllGoOn(sources[i], Ran(i))
    BY <1>5, <2>1, <2>3, <2>4, <2>6, <2>8 DEF AllGoOn, HasSource, i
  <2>9. ASSUME NEW p, OneEnds(sources[i], Ran(i), p) PROVE HasSource(sources'[i], k[1])
    <3>1. sources[i][p].port # k[1]
      BY <2>1, <2>6, <2>7, <2>9 DEF OneEnds, Ends, Falls, ArrayMeant
    <3>2. k[1] \in Feeds(sources'[i])
      BY <2>5, <2>6, <2>9, <3>1 DEF OneEnds
    <3> QED BY <3>2 DEF Feeds, HasSource
  <2> QED BY <1>4, <2>1, <2>3, <2>8, <2>9 DEF i
<1>c. ArraysMeant'
  <2> SUFFICES ASSUME NEW i \in Ins, Alive(i)
               PROVE  ArrayMeant(i, sources'[i], wanted, doomed, loading)
    BY <1>1 DEF ArraysMeant, InPatch
  <2>1. sources'[i] = Ran(i).conn /\ ArrayMeant(i, sources[i], wanted, doomed, loading)
    BY <1>2, <1>3
  <2>2. CASE AllGoOn(sources[i], Ran(i))
    <3>1. /\ DOMAIN sources'[i] = DOMAIN sources[i]
          /\ \A s \in DOMAIN sources[i] : /\ sources'[i][s].port = sources[i][s].port
                                          /\ sources'[i][s].state \in {sources[i][s].state, "none"}
      BY <1>5, <2>1, <2>2 DEF AllGoOn
    <3> QED BY <2>1, <3>1 DEF ArrayMeant, Falls
  <2>3. ASSUME NEW p, OneEnds(sources[i], Ran(i), p)
        PROVE  ArrayMeant(i, sources'[i], wanted, doomed, loading)
    BY <2>1, <2>3, RisesMeant DEF OneEnds
  <2>4. CASE InputsFall(sources[i], Ran(i)) /\ Owner[i] \in doomed
    <3>1. \A s \in DOMAIN sources'[i] : sources'[i][s].state \in {"none", "up", "down"}
      BY <2>1, <2>4 DEF InputsFall
    <3>2. \A o : <<o, i>> \notin wanted
      BY <2>4 DEF Meant, WantedThere
    <3> QED BY <2>4, <3>1, <3>2 DEF ArrayMeant, Falls
  <2> QED BY <1>4, <2>2, <2>3, <2>4
<1>f. MuteLoads'
  <2>1. loading = NoMod => \A i \in Ins : InPatch(i) => ~Ran(i).wait
    BY <1>6, <1>7 DEF InPatch
  <2> QED BY <1>1, <1>2, <2>1 DEF Meant, MuteLoads
<1>g. MutesTogether'
  <2> SUFFICES ASSUME loading # NoMod PROVE \E n \in 0..RampPeriods : MutesUntil(n)'
    BY <1>1 DEF MutesTogether
  <2>1. PICK n \in 0..RampPeriods : MutesUntil(n)
    BY DEF Meant, MutesTogether
  <2>2. \A i \in Ins : InPatch(i)' <=> Alive(i)
    BY <1>1 DEF InPatch
  <2>3. ASSUME NEW i, Alive(i), NEW s \in DOMAIN sources'[i], Muted(i, s)'
        PROVE  \E r \in DOMAIN sources[i] : Muted(i, r) /\ sources[i][r].port = sources'[i][s].port
    <3>1. sources[i] \in Seq(Source)
      BY <2>3, SourceFact
    <3>2. Feeds(sources'[i]) \subseteq Feeds(sources[i])
      BY <2>3, SourceFact, RunFact DEF Within
    <3>3. PICK r \in DOMAIN sources[i] : sources[i][r].port = sources'[i][s].port
      BY <2>3, <3>2 DEF Feeds
    <3> QED BY <1>1, <2>3, <3>3 DEF Muted
  <2>4. CASE \A i : Alive(i) => \A s \in DOMAIN sources[i] : sources[i][s].state # "drain"
    <3>1. silence' = silence
      BY <1>2, <1>7, <2>4 DEF InPatch
    <3>2. \A i \in Ins : Alive(i) => \A s \in DOMAIN sources'[i] : ~Muted(i, s)'
      <4>1. \A i \in Ins : Alive(i) => \A r \in DOMAIN sources[i] : ~Muted(i, r)
        BY <2>1, <2>4 DEF MutesUntil, InPatch
      <4> QED BY <2>3, <4>1
    <3>3. MutesUntil(n)'
      BY <2>1, <2>2, <3>1, <3>2 DEF MutesUntil
    <3> QED BY <3>3
  <2>5. ASSUME NEW i, Alive(i), NEW s \in DOMAIN sources[i], sources[i][s].state = "drain"
        PROVE  \E k \in 0..RampPeriods : MutesUntil(k)'
    <3>1. silence # "run" /\ sources[i][s].left = n
      BY <1>6, <2>1, <2>5 DEF MutesUntil, InPatch
    <3>2. \A j : Alive(j) => \A r \in DOMAIN sources[j] :
            (Muted(j, r) \/ sources[j][r].state = "drain") =>
              sources[j][r].state = "drain" /\ sources[j][r].left = n
      BY <1>6, <2>1, <3>1 DEF MutesUntil, InPatch
    <3> DEFINE k == IF n > 1 THEN n - 1 ELSE 0
    <3>3. k \in 0..RampPeriods /\ n \in Nat
      OBVIOUS
    <3>4. \A j : Alive(j) => \A r \in DOMAIN sources'[j] :
            Muted(j, r)' => sources'[j][r].state = "drain" /\ sources'[j][r].left = k
      <4> SUFFICES ASSUME NEW j, Alive(j), NEW r \in DOMAIN sources'[j], Muted(j, r)'
                   PROVE  sources'[j][r].state = "drain" /\ sources'[j][r].left = k
        OBVIOUS
      <4>1. PICK q \in DOMAIN sources[j] : Muted(j, q) /\ sources[j][q].port = sources'[j][r].port
        BY <2>3
      <4>2. AllGoOn(sources[j], Ran(j))
        BY <1>6, <3>2, <4>1
      <4>3. r \in DOMAIN sources[j] /\ sources'[j][r] = Later(sources[j][r])
        BY <1>2, <4>2 DEF AllGoOn
      <4>4. sources'[j][r].port = sources[j][r].port
        BY <1>5, <4>3
      <4>5. Muted(j, r)
        BY <1>1, <4>4 DEF Muted
      <4>6. sources[j][r].state = "drain" /\ sources[j][r].left = n
        BY <3>2, <4>3, <4>5
      <4> QED BY <1>5, <4>3, <4>6
    <3>5. CASE n > 1
      <4>1. \A j : Alive(j) => ~Ran(j).wait
        BY <1>7, <3>2, <3>5
      <4>2. silence' = silence
        BY <1>2, <4>1 DEF InPatch
      <4>3. silence # "wait" /\ k # 0
        BY <2>1, <3>3, <3>5 DEF MutesUntil
      <4> HIDE DEF k
      <4>4. MutesUntil(k)'
        BY <2>2, <3>1, <3>4, <4>2, <4>3 DEF MutesUntil
      <4> QED BY <3>3, <4>4
    <3>6. CASE ~(n > 1)
      <4>1. Ran(i).wait
        <5>1. AllGoOn(sources[i], Ran(i))
          BY <1>6, <2>5
        <5>2. Quiet(sources[i][s])
          BY <2>5, <3>1, <3>6 DEF Quiet
        <5> QED BY <5>1, <5>2 DEF AllGoOn
      <4>2. silence' = "wait"
        BY <1>2, <2>5, <4>1 DEF InPatch
      <4>3. k = 0
        BY <3>6
      <4> HIDE DEF k
      <4>4. MutesUntil(k)'
        BY <2>2, <3>4, <4>2, <4>3 DEF MutesUntil
      <4> QED BY <3>3, <4>4
    <3> QED BY <3>5, <3>6
  <2> QED BY <2>4, <2>5
<1>h. FadesTogether'
  <2>1. ASSUME NEW i \in Ins, NEW s, FedByDoomed(i, s)'
        PROVE  /\ FedByDoomed(i, s) /\ s \in DOMAIN sources[i] /\ sources[i][s].left > 1
               /\ sources'[i][s].port = sources[i][s].port /\ sources'[i][s].state = "del"
               /\ sources'[i][s].left = sources[i][s].left - 1
    <3>1. /\ s \in DOMAIN sources'[i] /\ Alive(i) /\ Owner[i] # Owner[sources'[i][s].port]
          /\ Owner[sources'[i][s].port] \in doomed
      BY <1>1, <2>1 DEF FedByDoomed, InPatch
    <3>2. sources'[i] = Ran(i).conn
      BY <1>2, <3>1
    <3>3. sources'[i][s].port \in Feeds(sources'[i])
      BY <3>1 DEF Feeds
    <3>4. Feeds(sources'[i]) \subseteq Feeds(sources[i])
      BY SourceFact, RunFact DEF Within
    <3>5. PICK r \in DOMAIN sources[i] : sources[i][r].port = sources'[i][s].port
      BY <3>3, <3>4 DEF Feeds
    <3>6. FedByDoomed(i, r)
      BY <3>1, <3>5 DEF FedByDoomed, InPatch
    <3>7. sources[i][r].state = "del"
      BY <3>5, <3>6 DEF Meant, FadesTogether
    <3>8. AllGoOn(sources[i], Ran(i))
      <4>1. ~InputsFall(sources[i], Ran(i))
        BY <3>5, <3>7 DEF InputsFall
      <4>2. ASSUME NEW p, OneEnds(sources[i], Ran(i), p) PROVE FALSE
        <5>1. r = p
          BY <3>5, <3>7, <4>2 DEF OneEnds, Falls
        <5> QED BY <3>2, <3>3, <3>5, <4>2, <5>1 DEF OneEnds
      <4> QED BY <1>4, <3>1, <4>1, <4>2
    <3>9. s \in DOMAIN sources[i] /\ sources'[i][s] = Later(sources[i][s]) /\ ~Ends(sources[i][s])
      BY <3>1, <3>2, <3>8 DEF AllGoOn
    <3>10. sources'[i][s].port = sources[i][s].port
      BY <1>5, <3>1, <3>9
    <3>11. FedByDoomed(i, s)
      BY <3>1, <3>9, <3>10 DEF FedByDoomed, InPatch
    <3>12. sources[i][s].state = "del"
      BY <3>9, <3>11 DEF Meant, FadesTogether
    <3> QED BY <1>5, <3>1, <3>9, <3>10, <3>11, <3>12
  <2>2. FadesTogether
    BY DEF Meant
  <2> SUFFICES ASSUME NEW i \in Ins, NEW s \in DOMAIN sources'[i], FedByDoomed(i, s)'
               PROVE  /\ sources'[i][s].state = "del" /\ Owner[sources'[i][s].port] \notin deleting'
                      /\ \A j \in Ins : \A r \in DOMAIN sources'[j] :
                           FedByDoomed(j, r)' /\ Owner[sources'[j][r].port] = Owner[sources'[i][s].port] =>
                             sources'[j][r].left = sources'[i][s].left
    BY DEF FadesTogether
  <2> DEFINE k == Owner[sources'[i][s].port]
  <2>3. /\ FedByDoomed(i, s) /\ s \in DOMAIN sources[i] /\ sources[i][s].left > 1
        /\ Owner[sources[i][s].port] = k /\ sources'[i][s].state = "del"
        /\ sources'[i][s].left = sources[i][s].left - 1
    BY <2>1
  <2>4. k \notin deleting
    BY <2>2, <2>3 DEF FadesTogether
  <2>5. ASSUME NEW j, Alive(j) PROVE k \notin Ran(j).dels
    <3>1. ASSUME NEW p, OneEnds(sources[j], Ran(j), p), k \in Ran(j).dels PROVE FALSE
      <4>1. /\ p \in DOMAIN sources[j] /\ sources[j][p].state = "del" /\ Owner[sources[j][p].port] = k
            /\ ~(sources[j][p].left > 1)
        BY <3>1 DEF OneEnds, Marks, Ends
      <4>2. Owner[j] # k /\ k \in doomed
        <5>1. ArrayMeant(j, sources[j], wanted, doomed, loading)
          BY <1>3, <2>5
        <5> QED BY <4>1, <5>1 DEF ArrayMeant
      <4>3. FedByDoomed(j, p)
        BY <2>5, <4>1, <4>2 DEF FedByDoomed, InPatch
      <4>4. sources[j][p].left = sources[i][s].left
        BY <2>2, <2>3, <2>5, <4>1, <4>3 DEF FadesTogether
      <4> QED BY <2>3, <4>1, <4>4
    <3> QED BY <1>4, <2>5, <3>1 DEF AllGoOn, InputsFall
  <2>6. k \notin deleting'
    BY <1>2, <2>4, <2>5 DEF InPatch
  <2>7. ASSUME NEW j \in Ins, NEW r \in DOMAIN sources'[j], FedByDoomed(j, r)', Owner[sources'[j][r].port] = k
        PROVE  sources'[j][r].left = sources'[i][s].left
    <3>1. /\ FedByDoomed(j, r) /\ r \in DOMAIN sources[j] /\ Owner[sources[j][r].port] = k
          /\ sources'[j][r].left = sources[j][r].left - 1
      BY <2>1, <2>7
    <3>2. sources[j][r].left = sources[i][s].left
      BY <2>2, <2>3, <3>1 DEF FadesTogether
    <3> QED BY <2>3, <3>1, <3>2
  <2> QED BY <2>3, <2>6, <2>7
<1> QED BY <1>a, <1>b, <1>c, <1>f, <1>g, <1>h DEF Meant

LEMMA CalmInit == Init => CalmInv
<1> SUFFICES ASSUME Init PROVE CalmInv
  OBVIOUS
<1>1. /\ \A i \in Ins : DOMAIN sources[i] = {}
      /\ mods = Mods /\ deleting = {} /\ silence = "run" /\ loading = NoMod /\ wanted = {} /\ doomed = {}
  BY DEF Init
<1>2. Tidy /\ ArraysMeant /\ FadesTogether
  BY <1>1 DEF Tidy, ArraysMeant, ArrayMeant, FadesTogether, FedByDoomed
<1>3. LetGo /\ WantedThere /\ MuteLoads /\ MutesTogether
  BY <1>1 DEF LetGo, WantedThere, MuteLoads, MutesTogether
<1> QED BY <1>2, <1>3 DEF CalmInv, Meant

LEMMA CalmStep == TypeOK /\ NoSourceTwice /\ CalmInv /\ [Next]_vars => CalmInv'
<1> SUFFICES ASSUME TypeOK, NoSourceTwice, CalmInv, [Next]_vars PROVE CalmInv'
  OBVIOUS
<1>0. Tidy /\ Tidy'
  BY TidyStep DEF CalmInv
<1>a. ASSUME calm' => calm, calm' /\ Separate /\ Meant => Meant' PROVE CalmInv'
  BY <1>0, <1>a DEF CalmInv
<1>1. ASSUME NEW l \in Links, Connect(l) PROVE CalmInv'
  <2>1. calm' => calm
    BY <1>1 DEF Connect
  <2> QED BY <1>0, <1>1, <1>a, <2>1, ConnectMeant
<1>2. ASSUME NEW l \in Links, Disconnect(l) PROVE CalmInv'
  <2>1. calm' => calm
    BY <1>2 DEF Disconnect
  <2> QED BY <1>0, <1>2, <1>a, <2>1, DisconnectMeant
<1>3. ASSUME NEW m \in Mods, RemoveModule(m) PROVE CalmInv'
  <2>1. calm' => calm
    BY <1>3 DEF RemoveModule
  <2> QED BY <1>0, <1>3, <1>a, <2>1, RemoveMeant
<1>4. ASSUME NEW m \in Mods, PresetLoad(m) PROVE CalmInv'
  <2>1. calm' => calm
    BY <1>4 DEF PresetLoad
  <2> QED BY <1>0, <1>4, <1>a, <2>1, LoadMeant
<1>5. CASE PresetLoaded
  <2>1. calm' = calm
    BY <1>5 DEF PresetLoaded
  <2> QED BY <1>0, <1>5, <1>a, <2>1, LoadedMeant
<1>6. CASE Pre
  <2>1. calm' = calm
    BY <1>6 DEF Pre
  <2> QED BY <1>6, <1>a, <2>1, PreMeant
<1>7. CASE Run
  <2>1. calm' = calm
    BY <1>7 DEF Run
  <2> QED BY <1>0, <1>7, <1>a, <2>1, RunMeant
<1>8. CASE UNCHANGED vars
  <2>1. CalmInv' <=> CalmInv
    BY <1>8 DEF vars, CalmInv, Meant, Tidy, LetGo, WantedThere, ArraysMeant, MuteLoads, MutesTogether,
       MutesUntil, Muted, FadesTogether, FedByDoomed, InPatch
  <2> QED BY <2>1
<1> QED BY <1>1, <1>2, <1>3, <1>4, <1>5, <1>6, <1>7, <1>8 DEF Next, Period

LEMMA CalmAlways == Spec => [](TypeOK /\ CalmInv)
<1> QED BY TypeInit, TypeStep, TwiceInit, TwiceStep, CalmInit, CalmStep, PTL DEF Spec

(* If orders keep clear of ramps and no module feeds an input by two audio *)
(* ports, all the user wants stays connected, and a module that leaves, or *)
(* is marked to, was removed: the ramp a source takes over from the one    *)
(* cut before it never has an order in it.                                 *)
THEOREM OnlyOrdersCut == Spec => []NothingElseCut
<1>1. TypeOK /\ CalmInv => NothingElseCut
  <2> SUFFICES ASSUME TypeOK, CalmInv, calm, Separate
               PROVE  (\A l \in wanted : Connected(l)) /\ Mods \ mods \subseteq doomed /\ deleting \subseteq doomed
    BY DEF NothingElseCut
  <2>1. LetGo /\ WantedThere
    BY DEF CalmInv, Meant
  <2>2. \A l \in wanted : Owner[l[2]] \in Mods
    BY DEF TypeOK
  <2> QED BY <2>1, <2>2 DEF LetGo, WantedThere, Connected, InPatch
<1> QED BY <1>1, CalmAlways, PTL

(* Under the same hypotheses a module is silent on every audio connection  *)
(* when its preset is loaded: its ramps end in the same period, and        *)
(* silence_state leaves BLOCK in that period.                              *)
THEOREM SilentFirst == Spec => []SilentForPreset
<1>1. TypeOK /\ CalmInv => SilentForPreset
  <2> SUFFICES ASSUME TypeOK, CalmInv, calm, Separate, loading # NoMod, silence # "block",
                      NEW i \in Ins, InPatch(i), NEW s \in DOMAIN sources[i],
                      Owner[sources[i][s].port] = loading, sources[i][s].port \in Audio
               PROVE  sources[i][s].state = "drain" /\ sources[i][s].left = 0
    BY DEF SilentForPreset
  <2>1. PICK n \in 0..RampPeriods : MutesUntil(n)
    BY DEF CalmInv, Meant, MutesTogether
  <2>2. Muted(i, s)
    BY DEF Muted
  <2>3. silence = "wait" /\ n = 0
    BY <2>1, <2>2 DEF MutesUntil, TypeOK
  <2> QED BY <2>1, <2>2, <2>3 DEF MutesUntil
<1> QED BY <1>1, CalmAlways, PTL

=============================================================================
