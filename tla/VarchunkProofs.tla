----------------------------- MODULE VarchunkProofs -----------------------------
(***************************************************************************)
(* The ring of varchunk.h keeps its two threads apart, whatever its size   *)
(* and the lengths of the chunks, as long as the producer writes no more   *)
(* than it asked for.  The proof says that the unread part of the ring is  *)
(* a chain of elements, each of which ends where the next one starts; what *)
(* a walk along the chain finds is the queue that Fifo describes.          *)
(***************************************************************************)
EXTENDS Varchunk, SequenceTheorems, WellFoundedInduction, TLAPS

USE SizeAssumption, LengthsAssumption, NumTagsAssumption, ToTheMaxAssumption

(* An element is a chunk or a gap: its length with its header, and the     *)
(* offset at which the next one starts.                                    *)
Ext(b) == Header + Pad(mem[b].size)
After(b) == IF b + Ext(b) = Size THEN 0 ELSE b + Ext(b)

(* How far an offset is ahead of the tail. *)
Dist(o) == IF tail <= o THEN o - tail ELSE o - tail + Size

(* The payload was all written for one chunk. *)
Whole(b) ==
  mem[b].size > 0 =>
    \E t \in Tags : \A w \in Words(b + Header, Pad(mem[b].size)) : mem[w].tag = t

Element(b) ==
  /\ b + Ext(b) <= Size
  /\ Dist(b) + Ext(b) <= Dist(head)
  /\ mem[b].gap = 1 => b + Ext(b) = Size /\ b # 0 /\ head # 0
  /\ mem[b].gap = 0 => Whole(b)

(* The elements that start at the offsets B fill the unread part. *)
Chain(B) ==
  /\ tail \in B \/ tail = head
  /\ \A b \in B : Element(b) /\ (After(b) = head \/ After(b) \in B)
  /\ \A b, c \in B : Dist(b) < Dist(c) => Dist(b) + Ext(b) <= Dist(c)

Chained == \E B \in SUBSET Offsets : Chain(B)

(* Between its request and its store the producer has a place to write to, *)
(* in the part that is free, with a header's room to spare.                *)
Writing == ppc \in {"payload", "header", "publish"}
Need == Header + Pad(written)

Placed ==
  Writing =>
    IF gapd > 0 THEN gapd = Size - head /\ tail <= head /\ Need < tail
                ELSE head + Need < Size /\ Dist(head) + Need < Size

(* What it has written there so far. *)
Laid ==
  /\ ppc \in {"header", "publish"} =>
       \A w \in Words(Start + Header, Pad(written)) : mem[w].tag = tag
  /\ ppc = "publish" =>
       /\ mem[Start].size = written /\ mem[Start].gap = 0
       /\ gapd > 0 => mem[head] = HeaderWord(gapd - Header, 1)

(* The consumer, once it has seen that there is something to read. *)
Reader ==
  /\ cpc # "idle" => head # tail
  /\ cpc = "look" /\ mem[tail].gap = 1 => seen < tail /\ seen # 0
  /\ cpc = "have" => ChunkAt(tail) = got /\ mem[tail].gap = 0

RingInv == TypeOK /\ Chained /\ Placed /\ Laid /\ Reader

-------------------------------------------------------------------------------
(* Facts about offsets and lengths. *)

(* A sum of two offsets, brought back into the ring. *)
LEMMA WithinIs ==
  ASSUME NEW a \in Nat, a < Size
  PROVE  a % Size = a
OBVIOUS

LEMMA WrappedIs ==
  ASSUME NEW a \in Nat, a < Size
  PROVE  (Size + a) % Size = a
OBVIOUS

LEMMA PadIs ==
  ASSUME NEW n \in Nat
  PROVE  Pad(n) \in Nat /\ Pad(n) % 8 = 0 /\ n <= Pad(n) /\ (n > 0 => Pad(n) >= 8)
BY DEF Pad

LEMMA PadMonotonic ==
  ASSUME NEW n \in Nat, NEW m \in Nat, n <= m
  PROVE  Pad(n) <= Pad(m)
BY DEF Pad

LEMMA PadPadded ==
  ASSUME NEW n \in Nat, n % 8 = 0
  PROVE  Pad(n) = n
BY DEF Pad

LEMMA OffsetIs ==
  ASSUME NEW o
  PROVE  o \in Offsets <=> o \in Nat /\ o % 8 = 0 /\ o < Size
BY DEF Offsets

LEMMA DistIs ==
  ASSUME TypeOK, NEW o \in Offsets
  PROVE  Dist(o) \in Nat /\ Dist(o) < Size
<1>1. tail \in Nat /\ tail < Size /\ o \in Nat /\ o < Size
  BY OffsetIs DEF TypeOK
<1> QED BY <1>1 DEF Dist

LEMMA TypeFacts ==
  ASSUME TypeOK
  PROVE  /\ head \in Nat /\ head < Size /\ head % 8 = 0
         /\ tail \in Nat /\ tail < Size /\ tail % 8 = 0
         /\ seen \in Nat /\ seen < Size
         /\ written \in Nat /\ gapd \in Nat /\ rsvd \in Nat /\ want \in Nat
         /\ Need \in Nat /\ Need >= 8 /\ Need % 8 = 0
         /\ \A b \in Offsets : /\ b \in Nat /\ b < Size /\ mem[b].size \in Nat
                               /\ mem[b].gap \in {0, 1}
                               /\ Ext(b) \in Nat /\ Ext(b) >= 8
<1>1. /\ head \in Nat /\ head < Size /\ head % 8 = 0
      /\ tail \in Nat /\ tail < Size /\ tail % 8 = 0
      /\ seen \in Nat /\ seen < Size
  BY OffsetIs DEF TypeOK
<1>2. written \in Nat /\ gapd \in Nat /\ rsvd \in Nat /\ want \in Nat
  BY DEF TypeOK, Spans
<1>3. Pad(written) \in Nat /\ Pad(written) % 8 = 0
  BY <1>2, PadIs
<1>4. Need \in Nat /\ Need >= 8 /\ Need % 8 = 0
  BY <1>3 DEF Need, Header
<1>5. ASSUME NEW b \in Offsets
      PROVE  /\ b \in Nat /\ b < Size /\ mem[b].size \in Nat /\ mem[b].gap \in {0, 1}
             /\ Ext(b) \in Nat /\ Ext(b) >= 8
  <2>1. b \in Nat /\ b < Size
    BY OffsetIs
  <2>2. mem[b].size \in Nat /\ mem[b].gap \in {0, 1}
    BY DEF TypeOK, Spans
  <2>3. Pad(mem[b].size) \in Nat
    BY <2>2, PadIs
  <2> QED BY <2>1, <2>2, <2>3 DEF Ext, Header
<1> QED BY <1>1, <1>2, <1>4, <1>5

(* The unread words are those nearer to the tail than the head is. *)
LEMMA UnreadIs ==
  ASSUME TypeOK
  PROVE  \A w \in Offsets : w \in Unread <=> Dist(w) < Dist(head)
<1>1. /\ head \in Nat /\ head < Size /\ tail \in Nat /\ tail < Size
      /\ \A w \in Offsets : w \in Nat /\ w < Size
  BY TypeFacts
<1> QED BY <1>1 DEF Unread, Words, Dist

(* All words of an element are unread. *)
LEMMA ElementUnread ==
  ASSUME TypeOK, NEW b \in Offsets, Element(b)
  PROVE  \A w \in Words(b, Ext(b)) : w \in Offsets /\ Dist(w) < Dist(head)
<1>1. /\ head \in Nat /\ head < Size /\ tail \in Nat /\ tail < Size
      /\ b \in Nat /\ b < Size /\ Ext(b) \in Nat
      /\ \A w \in Offsets : w \in Nat /\ w < Size
  BY TypeFacts
<1> QED BY <1>1 DEF Element, Words, Dist

(* The producer's place is free, and does not reach over the end. *)
LEMMA PlaceFree ==
  ASSUME TypeOK, Placed, Writing
  PROVE  /\ Start \in Offsets /\ Start + Need <= Size
         /\ \A w \in Words(Start, Need) : ~(Dist(w) < Dist(head))
         /\ gapd > 0 => head \notin Words(Start, Need) /\ ~(Dist(head) < Dist(head))
<1>1. /\ head \in Nat /\ head < Size /\ tail \in Nat /\ tail < Size
      /\ gapd \in Nat /\ Need \in Nat /\ head \in Offsets /\ 0 \in Offsets
      /\ \A w \in Offsets : w \in Nat /\ w < Size
  BY TypeFacts, OffsetIs DEF TypeOK
<1>2. CASE gapd > 0
  <2>1. Start = 0 /\ tail <= head /\ Need < tail
    BY <1>2 DEF Start, Placed
  <2> QED BY <1>1, <2>1 DEF Words, Dist
<1>3. CASE ~(gapd > 0)
  <2>1. Start = head /\ head + Need < Size /\ Dist(head) + Need < Size
    BY <1>3 DEF Start, Placed
  <2> QED BY <1>1, <1>3, <2>1 DEF Words, Dist
<1> QED BY <1>2, <1>3

-------------------------------------------------------------------------------
(* The chain. *)

(* An element stays as it is where only words are written that are free.   *)
LEMMA ElementSame ==
  ASSUME TypeOK, NEW b \in Offsets, Element(b), UNCHANGED <<head, tail>>,
         \A w \in Offsets : Dist(w) < Dist(head) => mem'[w] = mem[w]
  PROVE  /\ mem'[b] = mem[b] /\ ChunkAt(b)' = ChunkAt(b)
         /\ Ext(b)' = Ext(b) /\ After(b)' = After(b) /\ Element(b)'
<1>1. \A o : Dist(o)' = Dist(o)
  BY DEF Dist
<1>2. /\ b \in Nat /\ b < Size /\ Ext(b) \in Nat /\ Ext(b) >= 8
      /\ mem[b].size \in Nat /\ Pad(mem[b].size) \in Nat
      /\ \A w \in Offsets : w \in Nat
  BY TypeFacts, PadIs
<1>3. b \in Words(b, Ext(b))
  BY <1>2 DEF Words
<1>4. \A w \in Words(b, Ext(b)) : mem'[w] = mem[w]
  BY ElementUnread
<1>5. mem'[b] = mem[b] /\ Ext(b)' = Ext(b) /\ After(b)' = After(b)
  BY <1>3, <1>4 DEF Ext, After
<1>6. \A w \in Words(b + Header, Pad(mem[b].size)) : mem'[w] = mem[w]
  <2> SUFFICES ASSUME NEW w \in Words(b + Header, Pad(mem[b].size))
               PROVE  w \in Words(b, Ext(b))
    BY <1>4
  <2>1. w \in Offsets /\ w \in Nat /\ b + Header <= w /\ w < b + Header + Pad(mem[b].size)
    BY <1>2 DEF Words
  <2> QED BY <1>2, <2>1 DEF Words, Ext, Header
<1>7. Whole(b) => Whole(b)'
  BY <1>5, <1>6 DEF Whole
<1>8. {mem'[w].tag : w \in Words(b + Header, Pad(mem[b].size))}
        = {mem[w].tag : w \in Words(b + Header, Pad(mem[b].size))}
  BY <1>6
<1>9. ChunkAt(b)' = ChunkAt(b)
  BY <1>5, <1>8 DEF ChunkAt
<1> QED BY <1>1, <1>5, <1>7, <1>9 DEF Element

(* And so does the chain. *)
LEMMA ChainSame ==
  ASSUME TypeOK, NEW B \in SUBSET Offsets, Chain(B), UNCHANGED <<head, tail>>,
         \A w \in Offsets : Dist(w) < Dist(head) => mem'[w] = mem[w]
  PROVE  Chain(B)'
<1>1. \A o : Dist(o)' = Dist(o)
  BY DEF Dist
<1>2. \A b \in B : Ext(b)' = Ext(b) /\ After(b)' = After(b) /\ Element(b)'
  BY ElementSame DEF Chain
<1> QED BY <1>1, <1>2 DEF Chain

(* The chunk at the tail. *)
LEMMA ChunkSame ==
  ASSUME TypeOK, Chained, head # tail, UNCHANGED <<head, tail>>,
         \A w \in Offsets : Dist(w) < Dist(head) => mem'[w] = mem[w]
  PROVE  mem'[tail] = mem[tail] /\ ChunkAt(tail)' = ChunkAt(tail)
<1>1. PICK t \in Offsets : t = tail /\ Element(t)
  BY DEF Chained, Chain
<1>2. mem'[t] = mem[t] /\ ChunkAt(t)' = ChunkAt(t)
  BY <1>1, ElementSame
<1>3. tail' = t /\ tail = t
  BY <1>1
<1> QED BY <1>2, <1>3 DEF ChunkAt

(* The consumer gives up the first element. *)
LEMMA ChainAdvance ==
  ASSUME TypeOK, Chained, head # tail, tail' = After(tail), UNCHANGED <<head, mem>>
  PROVE  /\ \E B, C \in SUBSET Offsets : Chain(B) /\ Chain(C)' /\ C \subseteq B
         /\ tail' \in Offsets
         /\ Dist(head)' = Dist(head) - Ext(tail) /\ Ext(tail) <= Dist(head)
         /\ tail + Ext(tail) <= Size
<1>1. PICK B \in SUBSET Offsets : Chain(B)
  BY DEF Chained
<1>2. tail \in B /\ Element(tail)
  BY <1>1 DEF Chain
<1>3. /\ head \in Nat /\ head < Size /\ tail \in Nat /\ tail < Size
      /\ Ext(tail) \in Nat /\ Ext(tail) >= 8 /\ tail + Ext(tail) <= Size
      /\ \A o \in Offsets : o \in Nat /\ o < Size /\ Ext(o) \in Nat
      /\ head \in Offsets
  BY <1>2, TypeFacts DEF Element, TypeOK
<1>4. ASSUME NEW o \in Offsets, Ext(tail) <= Dist(o)
      PROVE  Dist(o)' = Dist(o) - Ext(tail)
  <2>1. o \in Nat /\ o < Size /\ tail' = IF tail + Ext(tail) = Size THEN 0 ELSE tail + Ext(tail)
    BY <1>3 DEF After
  <2> QED BY <1>3, <1>4, <2>1 DEF Dist
<1>5. /\ Dist(tail) = 0 /\ Ext(tail) <= Dist(head)
      /\ \A o \in Offsets : Dist(o) \in Nat /\ Dist(o) < Size
  BY <1>2, <1>3, DistIs DEF Dist, Element
<1>6. \A b \in B \ {tail} : Dist(b) > 0 /\ Ext(tail) <= Dist(b)
  <2>1. \A b \in B \ {tail} : Dist(b) > 0
    BY <1>3 DEF Dist
  <2>2. \A b \in B \ {tail} : Dist(tail) + Ext(tail) <= Dist(b)
    BY <1>1, <1>2, <1>5, <2>1 DEF Chain
  <2> QED BY <1>3, <1>5, <2>1, <2>2
<1>7. PICK C \in SUBSET Offsets : C = B \ {tail}
  OBVIOUS
<1>a. tail' = head \/ tail' \in C
  <2>1. After(tail) # tail
    BY <1>3, <1>5 DEF After
  <2> QED BY <1>1, <1>2, <1>7, <2>1 DEF Chain
<1>8. Dist(head)' = Dist(head) - Ext(tail)
  BY <1>3, <1>4, <1>5
<1>9. \A b : Ext(b)' = Ext(b) /\ After(b)' = After(b) /\ (Whole(b) <=> Whole(b)')
  BY DEF Ext, After, Whole
<1>10. \A b \in C : Dist(b)' = Dist(b) - Ext(tail) /\ Dist(b) \in Nat
  BY <1>4, <1>5, <1>6, <1>7
<1>11. Dist(head) \in Nat /\ Dist(head) < Size
  BY <1>3, <1>5
<1>12. \A b \in C : Element(b)' /\ (After(b)' = head \/ After(b)' \in C)
  <2> SUFFICES ASSUME NEW b \in C
               PROVE  Element(b)' /\ (After(b)' = head \/ After(b)' \in C)
    OBVIOUS
  <2>1. Element(b) /\ (After(b) = head \/ After(b) \in B)
    BY <1>1, <1>7 DEF Chain
  <2>2. Element(b)'
    BY <1>3, <1>8, <1>9, <1>10, <1>11, <2>1 DEF Element
  <2>3. After(b) # tail
    <3>1. b \in Nat /\ b < Size /\ Dist(b) + Ext(b) <= Dist(head) /\ Dist(b) > 0
          /\ Ext(b) >= 8 /\ b + Ext(b) <= Size /\ Ext(b) \in Nat
      BY <1>3, <1>6, <1>7, <2>1, TypeFacts DEF Element
    <3> QED BY <1>3, <1>11, <3>1 DEF After, Dist
  <2> QED BY <1>7, <1>9, <2>1, <2>2, <2>3
<1>13. \A b, c \in C : Dist(b)' < Dist(c)' => Dist(b)' + Ext(b)' <= Dist(c)'
  BY <1>1, <1>3, <1>7, <1>9, <1>10 DEF Chain
<1>14. Chain(C)'
  <2>1. \A b \in C : Element(b)' /\ (After(b)' = head' \/ After(b)' \in C)
    BY <1>12
  <2> QED BY <1>a, <1>13, <2>1 DEF Chain
<1>15. \E D, E \in SUBSET Offsets : Chain(D) /\ Chain(E)' /\ E \subseteq D
  <2>1. C \subseteq B
    BY <1>7
  <2> QED BY <1>1, <1>14, <2>1
<1> QED BY <1>3, <1>5, <1>8, <1>a, <1>15

(* The producer adds what it has laid. *)
LEMMA ChainGrows ==
  ASSUME TypeOK, Chained, Placed, Laid, WriteAdvance
  PROVE  /\ \E B, C \in SUBSET Offsets : /\ Chain(B) /\ Chain(C)' /\ B \subseteq C
                                          /\ head \in C /\ Start \in C
         /\ After(Start) = head' /\ (gapd > 0 => After(head) = Start)
         /\ head' \in Offsets /\ head' # tail
<1>1. PICK B \in SUBSET Offsets : Chain(B)
  BY DEF Chained
<1>2. ppc = "publish" /\ Writing /\ UNCHANGED <<tail, mem>>
  BY DEF WriteAdvance, Writing
<1>3. /\ head \in Nat /\ head < Size /\ head % 8 = 0 /\ tail \in Nat /\ tail < Size
      /\ Need \in Nat /\ Need >= 8 /\ Need % 8 = 0 /\ gapd \in Nat /\ written \in Nat
      /\ \A o \in Offsets : o \in Nat /\ o < Size /\ Ext(o) \in Nat /\ Ext(o) >= 8
      /\ head \in Offsets /\ tail \in Offsets /\ 0 \in Offsets
      /\ \A o \in Offsets : Dist(o) \in Nat /\ Dist(o) < Size
  BY TypeFacts, DistIs, OffsetIs DEF TypeOK
<1>4. /\ Start \in Offsets /\ Ext(Start) = Need /\ mem[Start].gap = 0 /\ Whole(Start)
  <2>1. mem[Start].size = written /\ mem[Start].gap = 0 /\ tag \in Tags
        /\ \A w \in Words(Start + Header, Pad(written)) : mem[w].tag = tag
    BY <1>2 DEF Laid, TypeOK
  <2> QED BY <1>2, <2>1, PlaceFree DEF Ext, Need, Whole
<1>5. head' = (head + gapd + Need) % Size
  <2>1. Pad(written) \in Nat
    BY <1>3, PadIs
  <2>2. head + gapd + Header + Pad(written) = head + gapd + Need
    BY <1>3, <2>1 DEF Need, Header
  <2> QED BY <2>2 DEF WriteAdvance
<1>6. \A o : /\ Dist(o)' = Dist(o) /\ Ext(o)' = Ext(o) /\ After(o)' = After(o)
             /\ (Whole(o) <=> Whole(o)')
  BY <1>2 DEF Dist, Ext, After, Whole
<1>7. ASSUME NEW N \in SUBSET Offsets, head \in N, head' \in Offsets, head' # 0,
             Dist(head) <= Dist(head'),
             \A b \in N : Dist(head) <= Dist(b) /\ Element(b)'
                          /\ (After(b) = head' \/ After(b) \in N),
             \A b, c \in N : Dist(b) < Dist(c) => Dist(b) + Ext(b) <= Dist(c)
      PROVE  \E C \in SUBSET Offsets : Chain(C)' /\ B \subseteq C /\ N \subseteq C
  <2>1. \A b \in B : Element(b) /\ (After(b) = head \/ After(b) \in B)
    BY <1>1 DEF Chain
  <2>2. \A b \in B : Element(b)'
    BY <1>2, <1>3, <1>6, <1>7, <2>1 DEF Element
  <2>3. PICK C \in SUBSET Offsets : C = B \union N
    OBVIOUS
  <2>4. \A b \in C : Element(b)' /\ (After(b)' = head' \/ After(b)' \in C)
    BY <1>6, <1>7, <2>1, <2>2, <2>3
  <2>5. \A b \in B : Dist(b) + Ext(b) <= Dist(head)
    BY <2>1 DEF Element
  <2>6. ASSUME NEW b \in C, NEW c \in C, Dist(b) < Dist(c)
        PROVE  Dist(b) + Ext(b) <= Dist(c)
    <3>1. CASE b \in B /\ c \in B
      BY <1>1, <2>6, <3>1 DEF Chain
    <3>2. CASE b \in N /\ c \in N
      BY <1>7, <2>6, <3>2
    <3>3. CASE b \in B /\ c \in N
      BY <1>3, <1>7, <2>5, <3>3
    <3>4. CASE b \in N /\ c \in B
      BY <1>3, <1>7, <2>5, <2>6, <3>4
    <3> QED BY <2>3, <3>1, <3>2, <3>3, <3>4
  <2>7. tail' \in C
    BY <1>1, <1>2, <1>7, <2>3 DEF Chain
  <2>8. Chain(C)'
    BY <1>6, <2>4, <2>6, <2>7 DEF Chain
  <2> QED BY <2>3, <2>8
<1>8. PICK h \in Offsets : h = head
  BY <1>3
<1>9. head + Need < Size => (head + Need) % Size = head + Need
  BY <1>3, WithinIs
<1>10. Need < Size => (Size + Need) % Size = Need
  BY <1>3, WrappedIs
<1>11. CASE gapd > 0
  <2>1. gapd = Size - head /\ tail <= head /\ Need < tail /\ Start = 0
    BY <1>2, <1>11 DEF Placed, Start
  <2>2. head' = Need
    <3>1. head + gapd + Need = Size + Need /\ Need < Size
      BY <1>3, <2>1
    <3> QED BY <1>5, <1>10, <3>1
  <2>3. head' \in Offsets /\ head' # 0 /\ head' # tail
    BY <1>3, <2>1, <2>2, OffsetIs
  <2>4. Ext(h) = gapd /\ mem[h].gap = 1
    <3>1. mem[head].gap = 1 /\ mem[head].size = gapd - Header
      BY <1>2, <1>11 DEF Laid, HeaderWord
    <3>2. gapd - Header \in Nat /\ (gapd - Header) % 8 = 0
      BY <1>3, <2>1 DEF Header
    <3>3. Pad(gapd - Header) = gapd - Header
      BY <3>2, PadPadded
    <3> QED BY <1>3, <1>8, <3>1, <3>3 DEF Ext, Header
  <2>5. /\ Dist(0) = Size - tail /\ Dist(h) = head - tail
        /\ Dist(head') = Need - tail + Size
    BY <1>3, <1>8, <2>1, <2>2 DEF Dist
  <2>6. Element(h)' /\ After(h) = 0
    BY <1>2, <1>3, <1>6, <1>8, <2>1, <2>2, <2>4, <2>5 DEF Element, After
  <2>7. Element(0)' /\ After(0) = head'
    BY <1>2, <1>3, <1>4, <1>6, <2>1, <2>2, <2>5 DEF Element, After
  <2>8. \A b, c \in {h, 0} : Dist(b) < Dist(c) => Dist(b) + Ext(b) <= Dist(c)
    BY <1>3, <1>8, <2>1, <2>4, <2>5
  <2>9. PICK C \in SUBSET Offsets : Chain(C)' /\ B \subseteq C /\ {h, 0} \subseteq C
    <3>1. {h, 0} \in SUBSET Offsets
      BY <1>3
    <3>2. \A b \in {h, 0} : Dist(head) <= Dist(b) /\ Element(b)'
                            /\ (After(b) = head' \/ After(b) \in {h, 0})
      BY <1>3, <1>8, <2>1, <2>5, <2>6, <2>7
    <3>3. Dist(head) <= Dist(head')
      BY <1>3, <1>8, <2>1, <2>5
    <3> QED BY <1>7, <1>8, <2>3, <2>8, <3>1, <3>2, <3>3
  <2> QED BY <1>1, <1>8, <2>1, <2>3, <2>6, <2>7, <2>9
<1>12. CASE ~(gapd > 0)
  <2>1. gapd = 0 /\ head + Need < Size /\ Dist(head) + Need < Size /\ Start = head
    BY <1>2, <1>3, <1>12 DEF Placed, Start
  <2>2. head' = head + Need
    <3>1. head + gapd + Need = head + Need
      BY <1>3, <2>1
    <3> QED BY <1>5, <1>9, <2>1, <3>1
  <2>3. head' \in Offsets /\ head' # 0 /\ head' # tail
    BY <1>3, <2>1, <2>2, OffsetIs DEF Dist
  <2>4. Dist(head') = Dist(head) + Need
    BY <1>3, <2>1, <2>2 DEF Dist
  <2>5. Element(h)' /\ After(h) = head'
    BY <1>2, <1>3, <1>4, <1>6, <1>8, <2>1, <2>2, <2>4 DEF Element, After
  <2>6. PICK C \in SUBSET Offsets : Chain(C)' /\ B \subseteq C /\ {h} \subseteq C
    <3>1. {h} \in SUBSET Offsets
      BY <1>3
    <3>2. \A b \in {h} : Dist(head) <= Dist(b) /\ Element(b)'
                         /\ (After(b) = head' \/ After(b) \in {h})
      BY <1>3, <1>8, <2>5
    <3>3. Dist(head) <= Dist(head')
      BY <1>3, <2>4
    <3>4. \A b, c \in {h} : Dist(b) < Dist(c) => Dist(b) + Ext(b) <= Dist(c)
      BY <1>3
    <3> QED BY <1>7, <1>8, <2>3, <3>1, <3>2, <3>3, <3>4
  <2> QED BY <1>1, <1>8, <1>12, <2>1, <2>3, <2>5, <2>6
<1> QED BY <1>11, <1>12

-------------------------------------------------------------------------------
(* The room there is. *)

LEMMA SpaceIs ==
  ASSUME TypeOK
  PROVE  Space = Size - 1 - Dist(head) /\ Space \in Nat /\ Space < Size
<1>1. head \in Nat /\ head < Size /\ tail \in Nat /\ tail < Size
  BY TypeFacts
<1>2. CASE head = tail
  BY <1>1, <1>2 DEF Space, Dist
<1>3. CASE head < tail
  <2>1. tail - head \in Nat /\ tail - head < Size
    BY <1>1, <1>3
  <2>2. tail - head + Size = Size + (tail - head)
    BY <1>1
  <2>3. (tail - head + Size) % Size = tail - head
    BY <2>1, <2>2, WrappedIs
  <2> QED BY <1>1, <1>3, <2>3 DEF Space, Dist
<1>4. CASE head > tail
  <2>1. tail - head + Size \in Nat /\ tail - head + Size < Size
    BY <1>1, <1>4
  <2>2. (tail - head + Size) % Size = tail - head + Size
    BY <2>1, WithinIs
  <2> QED BY <1>1, <1>4, <2>2 DEF Space, Dist
<1> QED BY <1>1, <1>2, <1>3, <1>4

(* The parts before and after the end of the ring. *)
LEMMA PartsAre ==
  ASSUME TypeOK
  PROVE  /\ First \in Nat /\ First <= Space /\ head + First <= Size
         /\ Wraps => First = Size - head /\ tail <= head
                     /\ Second = head - 1 - Dist(head) /\ Second = tail - 1
         /\ ~Wraps => Second = 0
         /\ Second \in Nat /\ Second < Size
<1>1. /\ head \in Nat /\ head < Size /\ tail \in Nat /\ tail < Size
      /\ Space = Size - 1 - Dist(head) /\ Space \in Nat /\ Space < Size
  BY TypeFacts, SpaceIs
<1>2. CASE Wraps
  <2>1. head + Space > Size
    BY <1>2 DEF Wraps
  <2>2. tail <= head
    BY <1>1, <2>1 DEF Dist
  <2>3. head + Space = Size + (tail - 1) /\ tail - 1 \in Nat
    BY <1>1, <2>1, <2>2 DEF Dist
  <2>4. Second = tail - 1
    BY <1>1, <1>2, <2>3, WrappedIs DEF Second
  <2> QED BY <1>1, <1>2, <2>1, <2>2, <2>3, <2>4 DEF First, Dist
<1>3. CASE ~Wraps
  BY <1>1, <1>3 DEF First, Second, Wraps
<1> QED BY <1>2, <1>3

(* A ring that has been read empty takes any chunk of up to half its size, *)
(* wherever its offsets have come to rest.                                 *)
LEMMA EmptyTakes == TypeOK => EmptyRingTakes
<1> SUFFICES ASSUME TypeOK, head = tail, NEW n \in Lengths, 2 * (2 * Header + Pad(n)) <= Size
             PROVE  Room(n)
  BY DEF EmptyRingTakes
<1>1. /\ head \in Nat /\ head < Size /\ Pad(n) \in Nat
      /\ Space = Size - 1 - Dist(head) /\ Dist(head) = 0
  BY TypeFacts, SpaceIs, PadIs DEF Dist
<1>2. CASE Wraps
  <2>1. First = Size - head /\ Second = head - 1
    BY <1>1, <1>2, PartsAre
  <2>2. 2 * Header + Pad(n) <= Size - head \/ 2 * Header + Pad(n) <= head - 1
    BY <1>1 DEF Header
  <2> QED BY <2>1, <2>2 DEF Room, Fits
<1>3. CASE ~Wraps
  <2>1. First = Size - 1
    BY <1>1, <1>3 DEF First
  <2>2. 2 * Header + Pad(n) <= Size - 1
    BY <1>1 DEF Header
  <2> QED BY <2>1, <2>2 DEF Room, Fits
<1> QED BY <1>2, <1>3

(* The producer is given a place, if it writes no more than it asked for.  *)
LEMMA RequestPlaces ==
  ASSUME ToTheMax = FALSE, TypeOK, WriteRequest
  PROVE  Placed' /\ rsvd' \in Spans /\ gapd' \in Spans /\ written' \in Spans
<1>1. /\ head \in Nat /\ head < Size /\ tail \in Nat /\ tail < Size
      /\ want \in Nat /\ Pad(want) \in Nat
      /\ Space = Size - 1 - Dist(head) /\ Dist(head) \in Nat
      /\ UNCHANGED <<head, tail>> /\ head \in Offsets
  BY TypeFacts, PadIs, SpaceIs, DistIs DEF WriteRequest, TypeOK, ring
<1>2. written' \in Nat /\ written' <= want
  BY DEF WriteRequest
<1>3. Pad(written') \in Nat /\ Pad(written') <= Pad(want) /\ want <= Pad(want)
  BY <1>1, <1>2, PadIs, PadMonotonic
<1>4. Need' = Header + Pad(written')
  BY DEF Need, Pad
<1>5. Dist(head)' = Dist(head)
  BY <1>1 DEF Dist
<1>6. CASE Fits(want, First)
  <2>1. gapd' = 0 /\ rsvd' = First
    BY <1>6 DEF WriteRequest
  <2>2. 2 * Header + Pad(want) <= First
    BY <1>6 DEF Fits
  <2>3. First \in Nat /\ First <= Space /\ head + First <= Size
    BY PartsAre
  <2>4. head' + Need' < Size /\ Dist(head)' + Need' < Size
    BY <1>1, <1>3, <1>4, <1>5, <2>2, <2>3 DEF Header
  <2> QED BY <1>1, <1>2, <1>3, <2>1, <2>2, <2>3, <2>4 DEF Placed, Spans, Header
<1>7. CASE ~Fits(want, First)
  <2>1. gapd' = First /\ rsvd' = Second
    BY <1>7 DEF WriteRequest
  <2>2. 2 * Header + Pad(want) <= Second
    BY <1>7 DEF WriteRequest, Room, Fits
  <2>3. Wraps
    BY <1>1, <2>2, PartsAre DEF Header
  <2>4. First = Size - head /\ tail <= head /\ Second = tail - 1
    BY <2>3, PartsAre
  <2>5. Need' < tail
    BY <1>1, <1>3, <1>4, <2>2, <2>4 DEF Header
  <2> QED BY <1>1, <1>2, <1>3, <2>1, <2>2, <2>4, <2>5 DEF Placed, Spans, Header
<1> QED BY <1>6, <1>7

-------------------------------------------------------------------------------
(* The steps. *)

LEMMA InitRing == Init => RingInv
<1> SUFFICES ASSUME Init PROVE RingInv
  OBVIOUS
<1>1. 0 \in Offsets
  BY OffsetIs
<1>2. TypeOK
  BY <1>1 DEF Init, TypeOK, Spans, Tags, HeaderWord
<1>3. Chain({})
  BY DEF Init, Chain
<1> QED BY <1>2, <1>3 DEF Init, RingInv, Chained, Placed, Laid, Reader, Writing

(* The producer writes only where it is free, so that the consumer's part  *)
(* is as it was.                                                           *)
LEMMA WriteApart ==
  ASSUME RingInv, UNCHANGED <<head, tail, consumer>>,
         \A w \in Offsets : Dist(w) < Dist(head) => mem'[w] = mem[w]
  PROVE  Chained' /\ Reader'
<1>1. TypeOK /\ Chained /\ Reader
  BY DEF RingInv
<1>2. PICK B \in SUBSET Offsets : Chain(B)
  BY <1>1 DEF Chained
<1>3. Chained'
  BY <1>1, <1>2, ChainSame DEF Chained
<1>4. head # tail => mem'[tail] = mem[tail] /\ ChunkAt(tail)' = ChunkAt(tail)
  BY <1>1, ChunkSame
<1>5. UNCHANGED <<cpc, seen, got, head, tail>>
  BY DEF consumer
<1> QED BY <1>1, <1>3, <1>4, <1>5 DEF Reader

(* The consumer's steps leave the producer its place.                      *)
LEMMA TailAdvances ==
  ASSUME RingInv, head # tail, tail' = After(tail), UNCHANGED <<head, mem, producer>>
  PROVE  Chained' /\ tail' \in Offsets /\ Placed' /\ Laid'
<1>1. TypeOK /\ Chained /\ Placed /\ Laid
  BY DEF RingInv
<1>2. /\ Chained' /\ tail' \in Offsets /\ tail + Ext(tail) <= Size
      /\ Dist(head)' = Dist(head) - Ext(tail) /\ Ext(tail) <= Dist(head)
  BY <1>1, ChainAdvance DEF Chained
<1>3. /\ head \in Nat /\ head < Size /\ tail \in Nat /\ tail < Size
      /\ Need \in Nat /\ gapd \in Nat /\ Ext(tail) \in Nat /\ Ext(tail) >= 8
      /\ Dist(head) \in Nat
  BY <1>1, TypeFacts, DistIs DEF TypeOK
<1>4. UNCHANGED <<rsvd, gapd, ppc, want, tag, written, sent, head, mem>>
  BY DEF producer
<1>5. Need' = Need /\ Start' = Start /\ (Writing' <=> Writing)
  BY <1>4 DEF Need, Start, Writing
<1>6. Laid'
  BY <1>1, <1>4, <1>5 DEF Laid
<1>7. Placed'
  <2> SUFFICES ASSUME Writing
               PROVE  IF gapd > 0 THEN gapd = Size - head /\ tail' <= head /\ Need < tail'
                      ELSE head + Need < Size /\ Dist(head)' + Need < Size
    BY <1>4, <1>5 DEF Placed
  <2>1. CASE gapd > 0
    <3>1. gapd = Size - head /\ tail <= head /\ Need < tail
      BY <1>1, <2>1 DEF Placed
    <3>2. tail + Ext(tail) <= head
      BY <1>2, <1>3, <3>1 DEF Dist
    <3>3. tail' = tail + Ext(tail)
      BY <1>3, <3>2 DEF After
    <3> QED BY <1>3, <2>1, <3>1, <3>2, <3>3
  <2>2. CASE ~(gapd > 0)
    <3>1. head + Need < Size /\ Dist(head) + Need < Size
      BY <1>1, <2>2 DEF Placed
    <3> QED BY <1>2, <1>3, <2>2, <3>1
  <2> QED BY <2>1, <2>2
<1> QED BY <1>2, <1>6, <1>7

LEMMA QuietStep ==
  ASSUME RingInv, UNCHANGED <<ring, consumer>>
  PROVE  Chained' /\ Reader'
<1>1. UNCHANGED <<head, tail, mem>>
  BY DEF ring
<1> QED BY <1>1, WriteApart

LEMMA RequestStep ==
  ASSUME ToTheMax = FALSE, RingInv,
         WriteRequest \/ WriteRefused \/ GiveUp \/ \E n \in Lengths : Want(n)
  PROVE  RingInv'
<1>1. UNCHANGED <<ring, consumer>>
  BY DEF WriteRequest, WriteRefused, GiveUp, Want
<1>2. Chained' /\ Reader'
  BY <1>1, QuietStep
<1>3. TypeOK /\ UNCHANGED <<head, tail, mem, cpc, seen, got, taken>>
  BY <1>1 DEF RingInv, ring, consumer
<1>4. CASE WriteRequest
  <2>1. Placed' /\ rsvd' \in Spans /\ gapd' \in Spans /\ written' \in Spans
    BY <1>3, <1>4, RequestPlaces
  <2>2. ppc' = "payload" /\ UNCHANGED <<want, tag, sent>>
    BY <1>4 DEF WriteRequest
  <2>3. TypeOK'
    BY <1>3, <2>1, <2>2 DEF TypeOK
  <2>4. Laid'
    BY <2>2 DEF Laid
  <2> QED BY <1>2, <2>1, <2>3, <2>4 DEF RingInv
<1>5. CASE WriteRefused \/ GiveUp \/ \E n \in Lengths : Want(n)
  <2>1. /\ ppc' \in {"idle", "want"} /\ UNCHANGED <<tag, written, sent>>
        /\ want' \in Lengths \union {0}
        /\ rsvd' \in {0, rsvd} /\ gapd' \in {0, gapd}
    BY <1>3, <1>5 DEF WriteRefused, GiveUp, Want, TypeOK
  <2>2. TypeOK'
    BY <1>3, <2>1 DEF TypeOK, Spans
  <2>3. Placed' /\ Laid'
    BY <2>1 DEF Placed, Laid, Writing
  <2> QED BY <1>2, <2>2, <2>3 DEF RingInv
<1> QED BY <1>4, <1>5

(* What the producer does to the memory. *)
LEMMA PayloadFree ==
  ASSUME TypeOK, Placed, WritePayload
  PROVE  \A w \in Offsets : Dist(w) < Dist(head) => mem'[w] = mem[w]
<1>1. Writing /\ Start \in Nat /\ Pad(written) \in Nat /\ \A w \in Offsets : w \in Nat
  BY TypeFacts, PadIs, PlaceFree DEF WritePayload, Writing
<1>2. mem' = [o \in Offsets |->
               IF o \in Words(Start + Header, Pad(written))
                 THEN PayloadWord(tag) ELSE mem[o]]
  BY DEF WritePayload
<1>3. \A w \in Words(Start + Header, Pad(written)) : w \in Words(Start, Need)
  BY <1>1 DEF Words, Need, Header
<1> QED BY <1>1, <1>2, <1>3, PlaceFree

LEMMA HeaderFree ==
  ASSUME TypeOK, Placed, WriteHeader
  PROVE  \A w \in Offsets : Dist(w) < Dist(head) => mem'[w] = mem[w]
<1>1. Writing /\ Start \in Nat /\ Start \in Offsets /\ Need \in Nat /\ Need >= 8
  BY TypeFacts, PlaceFree DEF WriteHeader, Writing
<1>2. mem' = [o \in Offsets |->
               IF o = Start THEN HeaderWord(written, 0)
               ELSE IF o = head /\ gapd > 0 THEN HeaderWord(gapd - Header, 1)
               ELSE mem[o]]
  BY DEF WriteHeader
<1>3. Start \in Words(Start, Need)
  BY <1>1 DEF Words
<1>4. /\ ~(Dist(Start) < Dist(head))
      /\ gapd > 0 => ~(Dist(head) < Dist(head))
  BY <1>1, <1>3, PlaceFree
<1> SUFFICES ASSUME NEW w \in Offsets, Dist(w) < Dist(head) PROVE mem'[w] = mem[w]
  OBVIOUS
<1>5. w # Start /\ ~(w = head /\ gapd > 0)
  BY <1>4
<1> QED BY <1>2, <1>5

LEMMA PayloadStep == RingInv /\ WritePayload => RingInv'
<1> SUFFICES ASSUME RingInv, WritePayload PROVE RingInv'
  OBVIOUS
<1>1. /\ TypeOK /\ Placed /\ Writing /\ UNCHANGED consumer
      /\ UNCHANGED <<head, tail, rsvd, gapd, want, tag, written, sent, consumer>>
      /\ ppc' = "header"
      /\ UNCHANGED <<cpc, seen, got, taken>>
  BY DEF RingInv, WritePayload, Writing, consumer
<1>2. mem' = [o \in Offsets |->
               IF o \in Words(Start + Header, Pad(written))
                 THEN PayloadWord(tag) ELSE mem[o]]
  BY DEF WritePayload
<1>3. Start' = Start /\ Need' = Need /\ Dist(head)' = Dist(head) /\ Writing'
  BY <1>1 DEF Start, Need, Dist, Writing
<1>4. \A w \in Offsets : Dist(w) < Dist(head) => mem'[w] = mem[w]
  BY <1>1, PayloadFree
<1>5. Chained' /\ Reader'
  BY <1>1, <1>4, WriteApart
<1>6. TypeOK'
  <2>1. PayloadWord(tag) \in [size : Spans, gap : {0, 1}, tag : Tags \union {-1}]
    BY <1>1 DEF TypeOK, PayloadWord, Spans
  <2>2. mem' \in [Offsets -> [size : Spans, gap : {0, 1}, tag : Tags \union {-1}]]
    BY <1>1, <1>2, <2>1 DEF TypeOK
  <2> QED BY <1>1, <2>2 DEF TypeOK
<1>7. Placed'
  BY <1>1, <1>3 DEF Placed
<1>8. Laid'
  <2>1. \A w \in Words(Start + Header, Pad(written)) : mem'[w].tag = tag
    BY <1>2 DEF Words, PayloadWord
  <2> QED BY <1>1, <1>3, <2>1 DEF Laid
<1> QED BY <1>5, <1>6, <1>7, <1>8 DEF RingInv

LEMMA HeaderStep == RingInv /\ WriteHeader => RingInv'
<1> SUFFICES ASSUME RingInv, WriteHeader PROVE RingInv'
  OBVIOUS
<1>1. /\ TypeOK /\ Placed /\ Laid /\ Writing /\ ppc = "header"
      /\ UNCHANGED <<head, tail, rsvd, gapd, want, tag, written, sent, consumer>>
      /\ ppc' = "publish"
      /\ UNCHANGED <<cpc, seen, got, taken>>
  BY DEF RingInv, WriteHeader, Writing, consumer
<1>2. mem' = [o \in Offsets |->
               IF o = Start THEN HeaderWord(written, 0)
               ELSE IF o = head /\ gapd > 0 THEN HeaderWord(gapd - Header, 1)
               ELSE mem[o]]
  BY DEF WriteHeader
<1>3. Start' = Start /\ Need' = Need /\ Dist(head)' = Dist(head) /\ Writing'
  BY <1>1 DEF Start, Need, Dist, Writing
<1>4. /\ Start \in Nat /\ Start \in Offsets /\ Pad(written) \in Nat
      /\ Need = Header + Pad(written)
      /\ head \in Nat /\ head < Size /\ head % 8 = 0 /\ gapd \in Nat
      /\ head \in Offsets /\ \A w \in Offsets : w \in Nat
  BY <1>1, TypeFacts, PadIs, PlaceFree DEF Need, TypeOK
<1>5. /\ Start \in Words(Start, Need) /\ Start \notin Words(Start + Header, Pad(written))
      /\ \A w \in Words(Start + Header, Pad(written)) : w \in Words(Start, Need)
  BY <1>4 DEF Words, Header
<1>6. gapd > 0 => head \notin Words(Start, Need)
  BY <1>1, PlaceFree
<1>7. \A w \in Offsets : Dist(w) < Dist(head) => mem'[w] = mem[w]
  BY <1>1, HeaderFree
<1>8. Chained' /\ Reader'
  BY <1>1, <1>7, WriteApart
<1>9. gapd > 0 => gapd = Size - head /\ Start = 0 /\ gapd - Header \in Spans
  <2> SUFFICES ASSUME gapd > 0
               PROVE  gapd = Size - head /\ Start = 0 /\ gapd - Header \in Spans
    OBVIOUS
  <2>1. gapd = Size - head /\ Start = 0
    BY <1>1 DEF Placed, Start
  <2>2. gapd >= 8
    BY <1>4, <2>1
  <2> QED BY <1>4, <2>1, <2>2 DEF Spans, Header
<1>10. TypeOK'
  <2>1. mem' \in [Offsets -> [size : Spans, gap : {0, 1}, tag : Tags \union {-1}]]
    BY <1>1, <1>2, <1>9 DEF TypeOK, HeaderWord
  <2> QED BY <1>1, <2>1 DEF TypeOK
<1>11. Placed'
  BY <1>1, <1>3 DEF Placed
<1>12. Laid'
  <2>1. \A w \in Words(Start + Header, Pad(written)) : mem'[w] = mem[w]
    <3> SUFFICES ASSUME NEW w \in Words(Start + Header, Pad(written)) PROVE mem'[w] = mem[w]
      OBVIOUS
    <3>1. w \in Offsets /\ w # Start /\ ~(w = head /\ gapd > 0)
      BY <1>5, <1>6 DEF Words
    <3> QED BY <1>2, <3>1
  <2>2. \A w \in Words(Start + Header, Pad(written)) : mem'[w].tag = tag
    BY <1>1, <2>1 DEF Laid
  <2>3. mem'[Start].size = written /\ mem'[Start].gap = 0
    BY <1>2, <1>4 DEF HeaderWord
  <2>4. gapd > 0 => mem'[head] = HeaderWord(gapd - Header, 1)
    <3>1. gapd > 0 => head # Start
      BY <1>5, <1>6
    <3> QED BY <1>2, <1>4, <3>1
  <2> QED BY <1>1, <1>3, <2>2, <2>3, <2>4 DEF Laid
<1> QED BY <1>8, <1>10, <1>11, <1>12 DEF RingInv

LEMMA PublishStep == RingInv /\ WriteAdvance => RingInv'
<1> SUFFICES ASSUME RingInv, WriteAdvance PROVE RingInv'
  OBVIOUS
<1>1. /\ TypeOK /\ Chained /\ Placed /\ Laid /\ Reader
      /\ UNCHANGED <<tail, mem, rsvd, gapd, cpc, seen, got, taken>>
      /\ ppc' = "idle" /\ want' = 0 /\ written' = 0
      /\ tag' = (tag + 1) % NumTags /\ sent' = Chunk(tag, written)
  BY DEF RingInv, WriteAdvance, consumer
<1>2. Chained' /\ head' \in Offsets /\ head' # tail
  BY <1>1, ChainGrows DEF Chained
<1>3. tag' \in Tags
  BY <1>1 DEF TypeOK, Tags
<1>4. sent' \in Chunks
  BY <1>1 DEF Chunks, TypeOK
<1>5. TypeOK'
  BY <1>1, <1>2, <1>3, <1>4 DEF TypeOK, Spans
<1>6. Placed' /\ Laid'
  BY <1>1 DEF Placed, Laid, Writing
<1>7. Reader'
  <2>1. ChunkAt(tail)' = ChunkAt(tail)
    BY <1>1 DEF ChunkAt
  <2> QED BY <1>1, <1>2, <2>1 DEF Reader
<1> QED BY <1>2, <1>5, <1>6, <1>7 DEF RingInv

(* The first element, as the consumer finds it. *)
LEMMA FirstElement ==
  ASSUME RingInv, head # tail
  PROVE  /\ tail + Ext(tail) <= Size /\ Ext(tail) <= Dist(head)
         /\ mem[tail].gap = 1 => /\ tail + Ext(tail) = Size /\ head < tail
                                 /\ head # 0 /\ mem[0].gap = 0
         /\ mem[tail].gap = 0 => Whole(tail)
         /\ (tail + Ext(tail)) % Size = After(tail)
<1>1. TypeOK
  BY DEF RingInv
<1>2. PICK B \in SUBSET Offsets : Chain(B)
  BY DEF RingInv, Chained
<1>3. Element(tail) /\ (After(tail) = head \/ After(tail) \in B)
  BY <1>2 DEF Chain
<1>4. /\ head \in Nat /\ head < Size /\ tail \in Nat /\ tail < Size
      /\ Ext(tail) \in Nat /\ Ext(tail) >= 8 /\ mem[tail].gap \in {0, 1}
      /\ Dist(head) \in Nat
  BY <1>1, TypeFacts, DistIs DEF TypeOK
<1>5. tail + Ext(tail) <= Size /\ Ext(tail) <= Dist(head)
  BY <1>3, <1>4 DEF Element, Dist
<1>6. ASSUME mem[tail].gap = 1
      PROVE  tail + Ext(tail) = Size /\ head < tail /\ head # 0 /\ mem[0].gap = 0
  <2>1. tail + Ext(tail) = Size /\ head # 0 /\ After(tail) = 0
    BY <1>3, <1>6 DEF Element, After
  <2>2. head < tail
    BY <1>4, <1>5, <2>1 DEF Dist
  <2>3. 0 \in Offsets /\ Element(0)
    BY <1>2, <1>3, <2>1 DEF Chain
  <2>4. mem[0].gap = 0
    BY <1>1, <2>3 DEF Element, TypeOK
  <2> QED BY <2>1, <2>2, <2>4
<1>7. (tail + Ext(tail)) % Size = After(tail)
  <2>1. CASE tail + Ext(tail) = Size
    <3>1. (Size + 0) % Size = 0
      BY <1>4, WrappedIs
    <3> QED BY <1>4, <2>1, <3>1 DEF After
  <2>2. CASE tail + Ext(tail) # Size
    BY <1>4, <1>5, <2>2, WithinIs DEF After
  <2> QED BY <2>1, <2>2
<1> QED BY <1>3, <1>5, <1>6, <1>7 DEF Element

(* A whole chunk shows the tag it was written with. *)
LEMMA TagShows ==
  ASSUME TypeOK, NEW b \in Offsets, b + Ext(b) <= Size, NEW t \in Tags,
         \A w \in Words(b + Header, Pad(mem[b].size)) : mem[w].tag = t
  PROVE  ChunkAt(b) = Chunk(t, mem[b].size)
<1> DEFINE n == mem[b].size
<1>1. n \in Nat /\ b \in Nat /\ b % 8 = 0 /\ Pad(n) \in Nat
  BY OffsetIs, PadIs DEF TypeOK, Spans
<1>2. CASE n = 0
  BY <1>1, <1>2 DEF ChunkAt, Chunk
<1>3. CASE n > 0
  <2>2. b + Header \in Words(b + Header, Pad(n))
    <3>1. Pad(n) >= 8 /\ b + Header + Pad(n) <= Size
      BY <1>1, <1>3, PadIs DEF Ext, Header
    <3>2. b + Header \in Offsets
      BY <1>1, <3>1, OffsetIs DEF Header
    <3> QED BY <1>1, <3>1, <3>2 DEF Words, Header
  <2> DEFINE found == {mem[w].tag : w \in Words(b + Header, Pad(n))}
  <2>3. found = {t}
    BY <2>2
  <2> HIDE DEF found
  <2>4. (\E u \in Tags : found = {u}) /\ (CHOOSE u \in Tags : found = {u}) = t
    BY <2>3
  <2>5. n # 0
    BY <1>3
  <2>6. ChunkAt(b) = [size |-> n,
                      tag  |-> IF \E u \in Tags : found = {u}
                                 THEN CHOOSE u \in Tags : found = {u} ELSE -1]
    BY <2>5, Zenon DEF ChunkAt, found
  <2> QED BY <2>4, <2>5, <2>6 DEF Chunk
<1> QED BY <1>1, <1>2, <1>3

LEMMA WholeShows ==
  ASSUME TypeOK, NEW b \in Offsets, Whole(b), b + Ext(b) <= Size
  PROVE  ChunkAt(b) \in Chunks
<1>1. mem[b].size \in Spans /\ mem[b].size \in Nat /\ 0 \in Tags
  BY DEF TypeOK, Spans, Tags
<1>2. CASE mem[b].size = 0
  BY <1>1, <1>2 DEF ChunkAt, Chunks
<1>3. CASE mem[b].size > 0
  <2>1. PICK t \in Tags : \A w \in Words(b + Header, Pad(mem[b].size)) : mem[w].tag = t
    BY <1>3 DEF Whole
  <2>2. ChunkAt(b) = Chunk(t, mem[b].size)
    BY <2>1, TagShows
  <2> QED BY <1>1, <2>2 DEF Chunks
<1> QED BY <1>1, <1>2, <1>3

(* What the consumer tests for is that there is a gap. *)
LEMMA AtGapIs ==
  ASSUME RingInv, cpc = "look"
  PROVE  AtGap <=> mem[tail].gap = 1
<1>1. CASE mem[tail].gap = 1
  <2>1. seen < tail /\ seen # 0 /\ seen \in Nat /\ tail \in Nat /\ tail < Size
    BY <1>1, TypeFacts DEF RingInv, Reader
  <2>2. seen - tail + Size \in Nat /\ seen - tail + Size < Size
    BY <2>1
  <2>3. Readable = seen - tail + Size
    BY <2>2, WithinIs DEF Readable
  <2> QED BY <1>1, <2>1, <2>3 DEF AtGap
<1>2. CASE mem[tail].gap # 1
  BY <1>2 DEF AtGap
<1> QED BY <1>1, <1>2

LEMMA ReadStep == RingInv /\ (ReadRequest \/ ReadChunk) => RingInv'
<1> SUFFICES ASSUME RingInv, ReadRequest \/ ReadChunk PROVE RingInv'
  OBVIOUS
<1>1. /\ TypeOK /\ Chained /\ Placed /\ Laid /\ Reader
      /\ UNCHANGED <<head, tail, mem, rsvd, gapd, ppc, want, tag, written, sent, taken>>
  BY DEF RingInv, ReadRequest, ReadChunk, ring, producer
<1>2. \A o : Dist(o)' = Dist(o) /\ Ext(o)' = Ext(o) /\ After(o)' = After(o)
             /\ (Whole(o) <=> Whole(o)') /\ ChunkAt(o)' = ChunkAt(o)
  BY <1>1 DEF Dist, Ext, After, Whole, ChunkAt
<1>3. Chained'
  <2>1. PICK B \in SUBSET Offsets : Chain(B)
    BY <1>1 DEF Chained
  <2>2. Chain(B)'
    BY <1>1, <2>1, ChainSame
  <2> QED BY <2>2 DEF Chained
<1>4. Placed' /\ Laid'
  BY <1>1, <1>2 DEF Placed, Laid, Writing, Need, Start, Dist
<1>5. CASE ReadRequest
  <2>1. cpc' = "look" /\ seen' = head /\ head # tail /\ UNCHANGED got
    BY <1>5 DEF ReadRequest
  <2>2. TypeOK'
    BY <1>1, <2>1 DEF TypeOK
  <2>3. Reader'
    BY <1>1, <2>1, FirstElement DEF Reader
  <2> QED BY <1>3, <1>4, <2>2, <2>3 DEF RingInv
<1>6. CASE ReadChunk
  <2>1. cpc = "look" /\ cpc' = "have" /\ got' = ChunkAt(tail) /\ ~AtGap /\ UNCHANGED seen
    BY <1>6 DEF ReadChunk
  <2>2. head # tail /\ mem[tail].gap = 0 /\ tail \in Offsets
    BY <1>1, <2>1, AtGapIs DEF Reader, TypeOK
  <2>3. ChunkAt(tail) \in Chunks
    BY <1>1, <2>2, FirstElement, WholeShows
  <2>4. TypeOK'
    BY <1>1, <2>1, <2>3 DEF TypeOK
  <2>5. Reader'
    BY <1>1, <1>2, <2>1, <2>2 DEF Reader
  <2> QED BY <1>3, <1>4, <2>4, <2>5 DEF RingInv
<1> QED BY <1>5, <1>6

LEMMA SkipStep == RingInv /\ SkipGap => RingInv'
<1> SUFFICES ASSUME RingInv, SkipGap PROVE RingInv'
  OBVIOUS
<1>1. /\ TypeOK /\ Reader /\ cpc = "look" /\ AtGap
      /\ UNCHANGED <<head, mem, cpc, seen, got, taken>> /\ UNCHANGED producer
      /\ UNCHANGED <<rsvd, gapd, ppc, want, tag, written, sent>>
  BY DEF RingInv, SkipGap, consumer, producer
<1>2. mem[tail].gap = 1 /\ head # tail
  BY <1>1, AtGapIs DEF Reader
<1>3. tail + Ext(tail) = Size /\ head # 0 /\ mem[0].gap = 0
  BY <1>2, FirstElement
<1>4. tail' = 0 /\ After(tail) = 0
  <2>1. tail + (Size - tail) = Size + 0 /\ (Size + 0) % Size = 0
    BY <1>1, TypeFacts, WrappedIs
  <2> QED BY <1>3, <2>1 DEF SkipGap, After
<1>5. Chained' /\ tail' \in Offsets /\ Placed' /\ Laid'
  BY <1>1, <1>2, <1>4, TailAdvances
<1>6. TypeOK'
  BY <1>1, <1>5 DEF TypeOK
<1>7. Reader'
  BY <1>1, <1>3, <1>4 DEF Reader
<1> QED BY <1>5, <1>6, <1>7 DEF RingInv

LEMMA AdvanceStep == RingInv /\ ReadAdvance => RingInv'
<1> SUFFICES ASSUME RingInv, ReadAdvance PROVE RingInv'
  OBVIOUS
<1>1. /\ TypeOK /\ Reader /\ cpc = "have" /\ cpc' = "idle" /\ seen' = 0
      /\ taken' = got /\ got' = NoChunk
      /\ UNCHANGED <<head, mem>> /\ UNCHANGED producer
      /\ UNCHANGED <<rsvd, gapd, ppc, want, tag, written, sent>>
  BY DEF RingInv, ReadAdvance, producer
<1>2. head # tail
  BY <1>1 DEF Reader
<1>3. tail' = After(tail)
  <2>1. tail \in Nat /\ Pad(mem[tail].size) \in Nat
    BY <1>1, TypeFacts, PadIs DEF TypeOK, Spans
  <2>2. tail + Header + Pad(mem[tail].size) = tail + Ext(tail)
    BY <2>1 DEF Ext, Header
  <2> QED BY <1>2, <2>2, FirstElement DEF ReadAdvance
<1>4. Chained' /\ tail' \in Offsets /\ Placed' /\ Laid'
  BY <1>1, <1>2, <1>3, TailAdvances
<1>5. 0 \in Offsets
  BY OffsetIs
<1>6. TypeOK'
  BY <1>1, <1>4, <1>5 DEF TypeOK
<1>7. Reader'
  BY <1>1 DEF Reader
<1> QED BY <1>4, <1>6, <1>7 DEF RingInv

LEMMA StutterStep == RingInv /\ UNCHANGED vars => RingInv'
<1> SUFFICES ASSUME RingInv, UNCHANGED vars PROVE RingInv'
  OBVIOUS
<1>1. UNCHANGED <<ring, consumer>> /\ UNCHANGED <<head, tail, mem, cpc, seen, got, taken>>
      /\ UNCHANGED <<rsvd, gapd, ppc, want, tag, written, sent>>
  BY DEF vars, ring, producer, consumer
<1>2. Chained' /\ Reader'
  BY <1>1, QuietStep
<1>3. TypeOK' /\ Placed' /\ Laid'
  BY <1>1 DEF RingInv, TypeOK, Placed, Laid, Writing, Need, Start, Dist
<1> QED BY <1>2, <1>3 DEF RingInv

LEMMA RingInvariant == ASSUME ToTheMax = FALSE PROVE Spec => []RingInv
<1>1. ASSUME RingInv, [Next]_vars PROVE RingInv'
  <2>1. CASE WriteRequest \/ WriteRefused \/ GiveUp \/ \E n \in Lengths : Want(n)
    BY <1>1, <2>1, RequestStep
  <2>2. CASE WritePayload
    BY <1>1, <2>2, PayloadStep
  <2>3. CASE WriteHeader
    BY <1>1, <2>3, HeaderStep
  <2>4. CASE WriteAdvance
    BY <1>1, <2>4, PublishStep
  <2>5. CASE ReadRequest \/ ReadChunk
    BY <1>1, <2>5, ReadStep
  <2>6. CASE SkipGap
    BY <1>1, <2>6, SkipStep
  <2>7. CASE ReadAdvance
    BY <1>1, <2>7, AdvanceStep
  <2>8. CASE UNCHANGED vars
    BY <1>1, <2>8, StutterStep
  <2> QED BY <1>1, <2>1, <2>2, <2>3, <2>4, <2>5, <2>6, <2>7, <2>8 DEF Next, Write, Read
<1> QED BY <1>1, InitRing, PTL DEF Spec

-------------------------------------------------------------------------------
(* The ring is a queue.  Contents walks along the chain with a count of    *)
(* steps left, so what it yields is found by induction on that count.      *)

LEMMA LeastOf ==
  ASSUME NEW S, \A k \in S : k \in Nat, NEW x \in S
  PROVE  \E k \in S : \A j \in S : k <= j
<1>1. IsWellFoundedOn(OpToRel(<, Nat), Nat)
  BY NatLessThanWellFounded
<1>2. S \subseteq Nat /\ S # {}
  OBVIOUS
<1>3. \E k \in S : \A j \in S : ~(<<j, k>> \in OpToRel(<, Nat))
  BY <1>1, <1>2, WFMin
<1>4. \A j, k \in Nat : ~(<<j, k>> \in OpToRel(<, Nat)) => k <= j
  BY DEF OpToRel
<1> QED BY <1>3, <1>4

LEMMA ByCount ==
  ASSUME NEW n \in Nat, NEW S, 0 \in S, \A k \in 0 .. n - 1 : k \in S => k + 1 \in S
  PROVE  \A k \in 0 .. n : k \in S
<1> DEFINE T == {k \in 0 .. n : k \notin S}
<1> SUFFICES ASSUME NEW y \in T PROVE FALSE
  OBVIOUS
<1>1. \A k \in T : k \in Nat
  OBVIOUS
<1>2. PICK x \in T : \A j \in T : x <= j
  <2> HIDE DEF T
  <2> QED BY <1>1, LeastOf
<1>3. x # 0 /\ x \in 0 .. n /\ x \notin S
  BY <1>2
<1>4. x - 1 \in 0 .. n - 1 /\ x - 1 + 1 = x /\ ~(x <= x - 1)
  BY <1>3
<1>5. x - 1 \notin T
  BY <1>2, <1>4
<1>6. x - 1 \in S
  BY <1>4, <1>5
<1> QED BY <1>3, <1>4, <1>6

(* What a walk with k steps left finds from each offset, given what one    *)
(* with a step less finds.                                                 *)
Row(less, k) ==
  [o \in Offsets |->
    IF k = 0 \/ o = head THEN <<>>
    ELSE IF mem[o].gap = 1 /\ head < o THEN less[0]
    ELSE <<ChunkAt(o)>> \o less[(o + Header + Pad(mem[o].size)) % Size]]

IsWalk(from) == \A k \in 0 .. Size : from[k] = Row(from[k - 1], k)

LEMMA WalkExists == \E from : Contents = from[Size][tail] /\ IsWalk(from)
<1> DEFINE Upto(m) == \E f : f = [k \in 0 .. m |-> Row(f[k - 1], k)]
           S == {m \in 0 .. Size : Upto(m)}
<1>1. Upto(0)
  <2>1. \A x, y : Row(x, 0) = Row(y, 0)
    BY DEF Row
  <2> DEFINE f == [k \in 0 .. 0 |-> Row(0, k)]
  <2>2. f = [k \in 0 .. 0 |-> Row(f[k - 1], k)]
    <3>1. \A k \in 0 .. 0 : Row(0, k) = Row(f[k - 1], k)
      <4> HIDE DEF f
      <4> QED BY <2>1
    <3> QED BY <3>1
  <2> HIDE DEF f
  <2> QED BY <2>2
<1>2. ASSUME NEW m \in 0 .. Size - 1, Upto(m)
      PROVE  Upto(m + 1)
  <2>1. PICK f : f = [k \in 0 .. m |-> Row(f[k - 1], k)]
    BY <1>2
  <2> DEFINE g == [k \in 0 .. m + 1 |-> IF k = m + 1 THEN Row(f[m], k) ELSE f[k]]
  <2>2. \A x, y : Row(x, 0) = Row(y, 0)
    BY DEF Row
  <2>3. \A k \in 0 .. m : g[k] = f[k]
    OBVIOUS
  <2>4. \A k \in 0 .. m : f[k] = Row(f[k - 1], k)
    BY <2>1
  <2>5. g[m + 1] = Row(f[m], m + 1)
    OBVIOUS
  <2>6. g = [k \in 0 .. m + 1 |-> g[k]]
    OBVIOUS
  <2> HIDE DEF g
  <2>7. \A k \in 0 .. m + 1 : g[k] = Row(g[k - 1], k)
    <3> SUFFICES ASSUME NEW k \in 0 .. m + 1 PROVE g[k] = Row(g[k - 1], k)
      OBVIOUS
    <3>1. CASE k = 0
      <4>1. 0 \in 0 .. m
        OBVIOUS
      <4> QED BY <2>2, <2>3, <2>4, <3>1, <4>1
    <3>2. CASE k = m + 1
      <4>1. m \in 0 .. m /\ k - 1 = m
        BY <3>2
      <4> QED BY <2>3, <2>5, <3>2, <4>1
    <3>3. CASE k # 0 /\ k # m + 1
      <4>1. k \in 0 .. m /\ k - 1 \in 0 .. m
        BY <3>3
      <4> QED BY <2>3, <2>4, <4>1
    <3> QED BY <3>1, <3>2, <3>3
  <2>8. g = [k \in 0 .. m + 1 |-> Row(g[k - 1], k)]
    BY <2>6, <2>7
  <2> QED BY <2>8
<1>3. Upto(Size)
  <2> HIDE DEF Upto
  <2>1. 0 \in S
    BY <1>1
  <2>2. \A k \in 0 .. Size - 1 : k \in S => k + 1 \in S
    BY <1>2
  <2> HIDE DEF S
  <2>3. \A k \in 0 .. Size : k \in S
    BY <2>1, <2>2, ByCount
  <2>4. Size \in S
    BY <2>3
  <2> QED BY <2>4 DEF S
<1> DEFINE from == CHOOSE f : f = [k \in 0 .. Size |-> Row(f[k - 1], k)]
<1>4. from = [k \in 0 .. Size |-> Row(from[k - 1], k)]
  BY <1>3
<1>5. Contents = from[Size][tail]
  BY DEF Contents, Row
<1>6. IsWalk(from)
  <2> HIDE DEF from
  <2> QED BY <1>4 DEF IsWalk
<1> HIDE DEF from
<1> QED BY <1>5, <1>6

(* From each of B, of which the next ones end at h, c finds what is shown   *)
(* there and then what it finds from the next.                             *)
Leads(B, h, rank, next) ==
  \A b \in B : rank[b] \in Nat /\ (next[b] = h \/ (next[b] \in B /\ rank[next[b]] < rank[b]))

Walks(c, B, next, shows) == \A b \in B : c[b] = shows[b] \o c[next[b]]

Puts(T, B, shows) == \A b \in B : shows[b] \in Seq(T)

Equal(T, S, c, d) == \A b \in S : c[b] \in Seq(T) /\ d[b] = c[b]

Longer(T, S, c, d, tl) == \A b \in S : c[b] \in Seq(T) /\ d[b] = c[b] \o tl

(* Two walks along the same elements that differ in what they find at the  *)
(* end differ in that only.                                                *)
LEMMA OneStep ==
  ASSUME NEW T, NEW tl \in Seq(T), NEW s \in Seq(T), NEW c \in Seq(T), NEW d, d = c \o tl
  PROVE  s \o c \in Seq(T) /\ s \o d = (s \o c) \o tl
BY ConcatAssociative

LEMMA SameWalk ==
  ASSUME NEW T, NEW B, NEW h, NEW rank, NEW next, NEW shows, NEW c, NEW d,
         NEW tl \in Seq(T), Leads(B, h, rank, next),
         Walks(c, B, next, shows), Walks(d, B, next, shows),
         Puts(T, B, shows), Longer(T, {h}, c, d, tl)
  PROVE  Longer(T, B, c, d, tl)
<1> DEFINE Good(b) == c[b] \in Seq(T) /\ d[b] = c[b] \o tl
           S == {rank[b] : b \in {b \in B : ~Good(b)}}
<1> SUFFICES ASSUME NEW y \in B, ~Good(y) PROVE FALSE
  BY DEF Longer
<1>1. \A k \in S : k \in Nat
  BY DEF Leads
<1>2. rank[y] \in S
  OBVIOUS
<1>3. PICK k \in S : \A j \in S : k <= j
  <2> HIDE DEF S
  <2> QED BY <1>1, <1>2, LeastOf
<1>4. PICK b \in B : ~Good(b) /\ rank[b] = k
  OBVIOUS
<1>5. Good(next[b])
  <2>1. CASE next[b] = h
    BY <2>1 DEF Longer
  <2>2. CASE next[b] \in B /\ rank[next[b]] < rank[b]
    <3>1. rank[next[b]] \in Nat /\ rank[b] \in Nat
      BY <2>2 DEF Leads
    <3>2. ~(k <= rank[next[b]])
      BY <1>4, <2>2, <3>1
    <3>3. rank[next[b]] \notin S
      <4> HIDE DEF S
      <4> QED BY <1>3, <3>2
    <3> HIDE DEF Good
    <3> QED BY <2>2, <3>3
  <2> QED BY <2>1, <2>2, <1>4 DEF Leads
<1>6. c[b] = shows[b] \o c[next[b]] /\ d[b] = shows[b] \o d[next[b]]
  BY DEF Walks
<1>7. shows[b] \in Seq(T) /\ c[next[b]] \in Seq(T) /\ d[next[b]] = c[next[b]] \o tl
  BY <1>5 DEF Puts
<1>8. shows[b] \o c[next[b]] \in Seq(T)
      /\ shows[b] \o d[next[b]] = (shows[b] \o c[next[b]]) \o tl
  <2> DEFINE u == c[next[b]]
             v == d[next[b]]
             w == shows[b]
  <2>1. w \in Seq(T) /\ u \in Seq(T) /\ v = u \o tl
    BY <1>7
  <2> HIDE DEF Good, S, u, v, w
  <2>2. w \o u \in Seq(T) /\ w \o v = (w \o u) \o tl
    BY <2>1, OneStep
  <2> QED BY <2>2 DEF u, v, w
<1>9. Good(b)
  <2> HIDE DEF S
  <2> QED BY <1>6, <1>8
<1> QED BY <1>4, <1>9

(* In particular, walks that agree at the end agree.                       *)
LEMMA EqualWalks ==
  ASSUME NEW T, NEW B, NEW h, NEW rank, NEW next, NEW shows, NEW c, NEW d,
         Leads(B, h, rank, next), Walks(c, B, next, shows), Walks(d, B, next, shows),
         Puts(T, B, shows), Equal(T, {h}, c, d)
  PROVE  Equal(T, B, c, d)
<1>1. PICK tl \in Seq(T) : tl = <<>>
  BY EmptySeq
<1>2. \A s \in Seq(T) : s \o tl = s
  BY <1>1
<1>3. Longer(T, {h}, c, d, tl)
  BY <1>2 DEF Longer, Equal
<1>4. Longer(T, B, c, d, tl)
  BY <1>3, SameWalk, Zenon
<1> QED BY <1>2, <1>4 DEF Longer, Equal

Items == [size : Spans, tag : Tags \union {-1}]

ShownAt(b) == IF mem[b].gap = 1 THEN <<>> ELSE <<ChunkAt(b)>>

LEMMA ShownTypes ==
  ASSUME TypeOK, NEW b \in Offsets
  PROVE  ChunkAt(b) \in Items /\ ShownAt(b) \in Seq(Items)
<1> DEFINE n == mem[b].size
           found == {mem[w].tag : w \in Words(b + Header, Pad(n))}
<1>1. n \in Spans /\ 0 \in Tags /\ 0 \in Spans
  BY DEF TypeOK, Tags, Spans
<1>2. ChunkAt(b) = IF n = 0 THEN Chunk(0, 0)
                   ELSE [size |-> n,
                         tag  |-> IF \E t \in Tags : found = {t}
                                    THEN CHOOSE t \in Tags : found = {t} ELSE -1]
  BY Zenon DEF ChunkAt
<1> HIDE DEF n, found
<1>3. (IF \E t \in Tags : found = {t} THEN CHOOSE t \in Tags : found = {t} ELSE -1)
        \in Tags \union {-1}
  OBVIOUS
<1>4. ChunkAt(b) \in Items
  BY <1>1, <1>2, <1>3 DEF Items, Chunk
<1> QED BY <1>4 DEF ShownAt

(* Where the walk goes from an element. *)
LEMMA NextIs ==
  ASSUME TypeOK, NEW B \in SUBSET Offsets, Chain(B), NEW b \in B
  PROVE  /\ b # head /\ b \in Offsets /\ Dist(b) < Dist(head)
         /\ After(b) = head \/ After(b) \in B
         /\ Dist(After(b)) = Dist(b) + Ext(b) /\ Dist(b) + Ext(b) <= Dist(head)
         /\ mem[b].gap = 1 => head < b /\ After(b) = 0
         /\ mem[b].gap # 1 => (b + Header + Pad(mem[b].size)) % Size = After(b)
<1>1. Element(b) /\ (After(b) = head \/ After(b) \in B)
  BY DEF Chain
<1>2. /\ head \in Nat /\ head < Size /\ tail \in Nat /\ tail < Size
      /\ b \in Nat /\ b < Size /\ Ext(b) \in Nat /\ Ext(b) >= 8
      /\ head \in Offsets /\ mem[b].size \in Nat
  BY TypeFacts DEF TypeOK
<1>3. /\ Dist(b) \in Nat /\ Dist(head) \in Nat /\ Dist(head) < Size
      /\ b + Ext(b) <= Size /\ Dist(b) + Ext(b) <= Dist(head)
      /\ mem[b].gap = 1 => b + Ext(b) = Size /\ b # 0 /\ head # 0
  BY <1>1, <1>2, DistIs DEF Element
<1>4. b # head /\ Dist(b) < Dist(head)
  BY <1>2, <1>3
<1>5. Dist(After(b)) = Dist(b) + Ext(b)
  BY <1>2, <1>3 DEF Dist, After
<1>6. mem[b].gap = 1 => head < b /\ After(b) = 0
  BY <1>2, <1>3 DEF Dist, After
<1>7. (b + Header + Pad(mem[b].size)) % Size = After(b)
  <2>1. b + Header + Pad(mem[b].size) = b + Ext(b)
    BY <1>2, PadIs DEF Ext, Header
  <2>2. CASE b + Ext(b) = Size
    <3>1. (Size + 0) % Size = 0
      BY <1>2, WrappedIs
    <3> QED BY <2>1, <2>2, <3>1 DEF After
  <2>3. CASE b + Ext(b) # Size
    BY <1>2, <1>3, <2>1, <2>3, WithinIs DEF After
  <2> QED BY <2>2, <2>3
<1> QED BY <1>1, <1>3, <1>4, <1>5, <1>6, <1>7

(* With as many steps left as there are words to the head, or more, the    *)
(* walk finds the same.                                                    *)
LEMMA StepsEnough ==
  ASSUME TypeOK, NEW B \in SUBSET Offsets, Chain(B), NEW from, IsWalk(from)
  PROVE  \A k \in 0 .. Size : \A j \in k .. Size : \A o \in B \union {head} :
           Dist(head) - Dist(o) <= k => from[k][o] \in Seq(Items) /\ from[k][o] = from[j][o]
<1> DEFINE Far(o) == Dist(head) - Dist(o)
           Good(k) == \A j \in k .. Size : \A o \in B \union {head} :
                        Far(o) <= k => from[k][o] \in Seq(Items) /\ from[k][o] = from[j][o]
           S == {k \in 0 .. Size : Good(k)}
<1>0. head \in Offsets
  BY DEF TypeOK
<1>1. \A k \in 0 .. Size : from[k][head] = <<>>
  BY <1>0 DEF Row, IsWalk
<1>2. \A b \in B : /\ b # head /\ b \in Offsets
                   /\ Far(b) \in Nat /\ Far(b) > 0
                   /\ After(b) \in B \union {head} /\ Far(After(b)) <= Far(b) - 8
  <2> SUFFICES ASSUME NEW b \in B
               PROVE  /\ b # head /\ b \in Offsets
                      /\ Far(b) \in Nat /\ Far(b) > 0
                      /\ After(b) \in B \union {head} /\ Far(After(b)) <= Far(b) - 8
    OBVIOUS
  <2>1. Dist(b) \in Nat /\ Dist(head) \in Nat /\ Ext(b) \in Nat /\ Ext(b) >= 8
    BY <1>0, DistIs, TypeFacts
  <2> QED BY <2>1, NextIs
<1>3. \A k \in 1 .. Size : \A b \in B :
        from[k][b] = IF mem[b].gap = 1 THEN from[k - 1][After(b)]
                     ELSE <<ChunkAt(b)>> \o from[k - 1][After(b)]
  <2> SUFFICES ASSUME NEW k \in 1 .. Size, NEW b \in B
               PROVE  from[k][b] = IF mem[b].gap = 1 THEN from[k - 1][After(b)]
                                   ELSE <<ChunkAt(b)>> \o from[k - 1][After(b)]
    OBVIOUS
  <2>1. from[k] = Row(from[k - 1], k) /\ k # 0
    BY DEF IsWalk
  <2>2. b # head /\ b \in Offsets
    BY <1>2
  <2> DEFINE less == from[k - 1]
  <2> HIDE DEF less
  <2>3. Row(less, k)[b] = IF mem[b].gap = 1 /\ head < b THEN less[0]
                          ELSE <<ChunkAt(b)>> \o less[(b + Header + Pad(mem[b].size)) % Size]
    BY <2>1, <2>2 DEF Row
  <2>4. /\ mem[b].gap = 1 => head < b /\ After(b) = 0
        /\ mem[b].gap # 1 => (b + Header + Pad(mem[b].size)) % Size = After(b)
    BY NextIs
  <2>5. Row(less, k)[b] = IF mem[b].gap = 1 THEN less[After(b)]
                          ELSE <<ChunkAt(b)>> \o less[After(b)]
    <3>1. CASE mem[b].gap = 1
      BY <2>3, <2>4, <3>1
    <3>2. CASE mem[b].gap # 1
      BY <2>3, <2>4, <3>2
    <3> QED BY <3>1, <3>2
  <2> QED BY <2>1, <2>5 DEF less
<1>4. Good(0)
  <2> SUFFICES ASSUME NEW j \in 0 .. Size, NEW o \in B \union {head}, Far(o) <= 0
               PROVE  from[0][o] \in Seq(Items) /\ from[0][o] = from[j][o]
    OBVIOUS
  <2>1. o = head
    <3> HIDE DEF Far
    <3> QED BY <1>2
  <2>2. from[0][head] = <<>> /\ from[j][head] = <<>>
    BY <1>1
  <2> HIDE DEF Far, Good
  <2> QED BY <2>1, <2>2
<1>5. ASSUME NEW k \in 0 .. Size - 1, Good(k)
      PROVE  Good(k + 1)
  <2> SUFFICES ASSUME NEW j \in k + 1 .. Size, NEW o \in B, Far(o) <= k + 1
               PROVE  from[k + 1][o] \in Seq(Items) /\ from[k + 1][o] = from[j][o]
    <3>0. k + 1 \in 0 .. Size /\ \A j \in k + 1 .. Size : j \in 0 .. Size
      OBVIOUS
    <3> HIDE DEF Good, Far
    <3>1. \A j \in k + 1 .. Size : from[k + 1][head] = <<>> /\ from[j][head] = <<>>
      BY <1>1, <3>0
    <3>2. <<>> \in Seq(Items)
      BY EmptySeq
    <3>3. \A j \in k + 1 .. Size : from[k + 1][head] \in Seq(Items)
                                    /\ from[k + 1][head] = from[j][head]
      BY <3>1, <3>2, Zenon
    <3> QED BY <3>3 DEF Good
  <2>1. After(o) \in B \union {head} /\ Far(After(o)) <= k /\ Far(o) \in Nat
        /\ o \in Offsets
    <3>1. /\ o \in Offsets /\ Far(o) \in Nat
          /\ After(o) \in B \union {head} /\ Far(After(o)) <= Far(o) - 8
      BY <1>2
    <3>2. After(o) \in Offsets
      BY <1>0, <3>1
    <3>3. Far(After(o)) \in Int
      BY <1>0, <3>2, DistIs
    <3> HIDE DEF Far, Good
    <3> QED BY <3>1, <3>3
  <2>2. j - 1 \in k .. Size /\ k + 1 \in 1 .. Size /\ j \in 1 .. Size /\ k + 1 - 1 = k
    OBVIOUS
  <2> DEFINE x == from[k][After(o)]
             y == from[j - 1][After(o)]
  <2>3. x \in Seq(Items) /\ x = y
    BY <1>5, <2>1, <2>2
  <2>4. /\ from[k + 1][o] = IF mem[o].gap = 1 THEN x ELSE <<ChunkAt(o)>> \o x
        /\ from[j][o] = IF mem[o].gap = 1 THEN y ELSE <<ChunkAt(o)>> \o y
    BY <1>3, <2>2
  <2>5. ChunkAt(o) \in Items
    BY <2>1, ShownTypes
  <2> HIDE DEF x, y, Good, Far
  <2>6. from[k + 1][o] = from[j][o]
    BY <2>3, <2>4
  <2>7. <<ChunkAt(o)>> \o x \in Seq(Items)
    BY <2>3, <2>5
  <2> QED BY <2>3, <2>4, <2>6, <2>7
<1>6. \A k \in 0 .. Size : k \in S
  <2> HIDE DEF Good
  <2>1. 0 \in S
    BY <1>4
  <2>2. \A k \in 0 .. Size - 1 : k \in S => k + 1 \in S
    BY <1>5
  <2> HIDE DEF S
  <2> QED BY <2>1, <2>2, ByCount
<1> QED BY <1>6

(* The contents are what the elements show, from the tail to the head.     *)
Along(B, rank, next, shows) ==
  /\ Leads(B, head, rank, next) /\ Puts(Items, B, shows)
  /\ \A b \in B : next[b] = After(b) /\ shows[b] = ShownAt(b)

Spelled ==
  \E c : /\ Contents = c[tail] /\ c[head] = <<>>
         /\ \A B \in SUBSET Offsets : Chain(B) =>
              \E rank, next, shows :
                Along(B, rank, next, shows) /\ Walks(c, B, next, shows)

(* How far the elements are from the head falls along the chain. *)
LEMMA ChainLeads ==
  ASSUME TypeOK, NEW B \in SUBSET Offsets, Chain(B)
  PROVE  \E rank, next, shows : Along(B, rank, next, shows)
<1> DEFINE rank == [b \in B |-> Dist(head) - Dist(b)]
           next == [b \in B |-> After(b)]
           shows == [b \in B |-> ShownAt(b)]
<1>1. head \in Offsets
  BY DEF TypeOK
<1>2. ASSUME NEW b \in B
      PROVE  rank[b] \in Nat /\ (next[b] = head \/ (next[b] \in B /\ rank[next[b]] < rank[b]))
  <2>1. /\ b \in Offsets /\ Dist(b) < Dist(head) /\ (After(b) = head \/ After(b) \in B)
        /\ Dist(After(b)) = Dist(b) + Ext(b)
    BY NextIs
  <2>2. Dist(b) \in Nat /\ Dist(head) \in Nat /\ Ext(b) \in Nat /\ Ext(b) >= 8
    BY <1>1, <2>1, DistIs, TypeFacts
  <2> QED BY <2>1, <2>2
<1>3. \A b \in B : next[b] = After(b) /\ shows[b] = ShownAt(b) /\ shows[b] \in Seq(Items)
  BY ShownTypes
<1>4. Leads(B, head, rank, next)
  <2> HIDE DEF rank, next
  <2> QED BY <1>2 DEF Leads
<1>5. Along(B, rank, next, shows)
  <2> HIDE DEF rank, next, shows
  <2> QED BY <1>3, <1>4 DEF Along, Puts
<1> QED BY <1>5

LEMMA ContentsSpelled == TypeOK => Spelled
<1> SUFFICES ASSUME TypeOK PROVE Spelled
  OBVIOUS
<1>1. PICK from : Contents = from[Size][tail] /\ IsWalk(from)
  BY WalkExists
<1>2. head \in Offsets /\ from[Size][head] = <<>>
  <2>1. head \in Offsets
    BY DEF TypeOK
  <2>2. from[Size] = Row(from[Size - 1], Size)
    BY <1>1 DEF IsWalk
  <2> QED BY <2>1, <2>2 DEF Row
<1>3. ASSUME NEW B \in SUBSET Offsets, Chain(B), NEW b \in B
      PROVE  from[Size][b] = ShownAt(b) \o from[Size][After(b)]
  <2>1. /\ b # head /\ b \in Offsets /\ After(b) \in B \union {head}
        /\ mem[b].gap = 1 => head < b /\ After(b) = 0
        /\ mem[b].gap # 1 => (b + Header + Pad(mem[b].size)) % Size = After(b)
    BY <1>3, NextIs
  <2>2. /\ Dist(head) - Dist(After(b)) <= Size - 1
        /\ Dist(head) - Dist(After(b)) <= Size
    <3>1. Dist(head) \in Nat /\ Dist(head) < Size /\ Dist(After(b)) \in Nat /\ Dist(b) \in Nat
      BY <1>2, <2>1, DistIs
    <3> QED BY <3>1
  <2>3. Size - 1 \in 0 .. Size /\ Size \in Size - 1 .. Size /\ Size \in 0 .. Size
        /\ Size \in Size .. Size
    OBVIOUS
  <2>a. \A k \in 0 .. Size : \A j \in k .. Size : \A o \in B \union {head} :
          Dist(head) - Dist(o) <= k => from[k][o] \in Seq(Items) /\ from[k][o] = from[j][o]
    BY <1>1, <1>3, StepsEnough
  <2> DEFINE x == from[Size][After(b)]
             less == from[Size - 1]
  <2>4. x \in Seq(Items) /\ less[After(b)] = x
    <3>2. from[Size - 1][After(b)] = from[Size][After(b)]
      BY <2>1, <2>2, <2>3, <2>a
    <3>3. from[Size][After(b)] \in Seq(Items)
      BY <2>1, <2>2, <2>3, <2>a
    <3> QED BY <3>2, <3>3
  <2>5. from[Size] = Row(less, Size)
    BY <1>1, <2>3 DEF IsWalk
  <2> HIDE DEF x, less
  <2>6. Row(less, Size)[b] = IF mem[b].gap = 1 /\ head < b THEN less[0]
                             ELSE <<ChunkAt(b)>> \o less[(b + Header + Pad(mem[b].size)) % Size]
    BY <2>1 DEF Row
  <2>7. from[Size][b] = ShownAt(b) \o x
    <3>1. CASE mem[b].gap = 1
      <4>1. from[Size][b] = x
        BY <2>1, <2>4, <2>5, <2>6, <3>1
      <4>2. <<>> \o x = x
        BY <2>4
      <4> QED BY <3>1, <4>1, <4>2 DEF ShownAt
    <3>2. CASE mem[b].gap # 1
      BY <2>1, <2>4, <2>5, <2>6, <3>2 DEF ShownAt
    <3> QED BY <3>1, <3>2
  <2> QED BY <2>4, <2>7 DEF x
<1>4. PICK c : c = from[Size]
  OBVIOUS
<1>5. ASSUME NEW B \in SUBSET Offsets, Chain(B)
      PROVE  \E rank, next, shows : Along(B, rank, next, shows) /\ Walks(c, B, next, shows)
  <2>1. PICK rank, next, shows : Along(B, rank, next, shows)
    BY <1>5, ChainLeads
  <2>2. \A b \in B : c[b] = ShownAt(b) \o c[After(b)]
    BY <1>3, <1>4, <1>5
  <2>3. Walks(c, B, next, shows)
    BY <2>1, <2>2 DEF Along, Walks
  <2> QED BY <2>1, <2>3
<1>6. Contents = c[tail] /\ c[head] = <<>>
  BY <1>1, <1>2, <1>4
<1> QED BY <1>5, <1>6 DEF Spelled

(* A step that leaves the offsets and the unread words leaves the queue.   *)
LEMMA ContentsSame ==
  ASSUME RingInv, TypeOK', UNCHANGED <<head, tail>>,
         \A w \in Offsets : Dist(w) < Dist(head) => mem'[w] = mem[w]
  PROVE  Contents' = Contents
<1>1. TypeOK /\ Spelled
  BY ContentsSpelled DEF RingInv
<1>2. TypeOK' => Spelled'
  BY ContentsSpelled, PTL
<1>3. PICK B \in SUBSET Offsets : Chain(B)
  BY DEF RingInv, Chained
<1>4. Chain(B)'
  BY <1>1, <1>3, ChainSame
<1>5. PICK c, rank, next, shows :
        /\ Contents = c[tail] /\ c[head] = <<>>
        /\ Along(B, rank, next, shows) /\ Walks(c, B, next, shows)
  BY <1>1, <1>3 DEF Spelled
<1>6. PICK d, rank2, next2, shows2 :
        /\ Contents' = d[tail'] /\ d[head'] = <<>>
        /\ Along(B, rank2, next2, shows2)' /\ Walks(d, B, next2, shows2)
  BY <1>2, <1>4 DEF Spelled
<1>7. \A b \in B : ShownAt(b)' = ShownAt(b) /\ After(b)' = After(b)
  <2> SUFFICES ASSUME NEW b \in B PROVE ShownAt(b)' = ShownAt(b) /\ After(b)' = After(b)
    OBVIOUS
  <2>1. b \in Offsets /\ Element(b)
    BY <1>3 DEF Chain
  <2>2. mem'[b] = mem[b] /\ ChunkAt(b)' = ChunkAt(b) /\ After(b)' = After(b)
    BY <1>1, <2>1, ElementSame
  <2> QED BY <2>2 DEF ShownAt
<1>8. Walks(d, B, next, shows)
  <2>1. \A b \in B : next2[b] = next[b] /\ shows2[b] = shows[b]
    BY <1>5, <1>6, <1>7 DEF Along
  <2> QED BY <1>6, <2>1 DEF Walks
<1>9. Leads(B, head, rank, next) /\ Puts(Items, B, shows)
  BY <1>5 DEF Along
<1>10. Equal(Items, {head}, c, d)
  BY <1>5, <1>6, EmptySeq DEF Equal
<1>11. Equal(Items, B, c, d)
  BY <1>5, <1>8, <1>9, <1>10, EqualWalks, Zenon
<1>12. d[tail] = c[tail]
  BY <1>3, <1>10, <1>11 DEF Chain, Equal
<1> QED BY <1>5, <1>6, <1>12

(* Taking the first element takes what it shows, and nothing else.         *)
LEMMA ContentsTaken ==
  ASSUME RingInv, TypeOK', head # tail, tail' = After(tail), UNCHANGED <<head, mem>>
  PROVE  Contents = ShownAt(tail) \o Contents' /\ Contents' \in Seq(Items)
<1>1. TypeOK /\ Spelled
  BY ContentsSpelled DEF RingInv
<1>2. TypeOK' => Spelled'
  BY ContentsSpelled, PTL
<1>3. PICK B, C \in SUBSET Offsets : Chain(B) /\ Chain(C)' /\ C \subseteq B
  BY ChainAdvance DEF RingInv
<1>4. PICK c, rank, next, shows :
        /\ Contents = c[tail] /\ c[head] = <<>>
        /\ Along(B, rank, next, shows) /\ Walks(c, B, next, shows)
  BY <1>1, <1>3 DEF Spelled
<1>5. PICK d, rank2, next2, shows2 :
        /\ Contents' = d[tail'] /\ d[head'] = <<>>
        /\ Along(C, rank2, next2, shows2)' /\ Walks(d, C, next2, shows2)
  BY <1>2, <1>3 DEF Spelled
<1>6. \A b : ShownAt(b)' = ShownAt(b) /\ After(b)' = After(b)
  BY DEF ShownAt, ChunkAt, After, Ext
<1>7. Walks(c, C, next2, shows2)
  <2>1. \A b \in C : b \in B /\ next2[b] = next[b] /\ shows2[b] = shows[b]
    BY <1>3, <1>4, <1>5, <1>6 DEF Along
  <2> QED BY <1>4, <2>1 DEF Walks
<1>8. Leads(C, head, rank2, next2) /\ Puts(Items, C, shows2)
  BY <1>5 DEF Along
<1>9. Equal(Items, {head}, d, c)
  BY <1>4, <1>5, EmptySeq DEF Equal
<1>10. Equal(Items, C, d, c)
  BY <1>5, <1>7, <1>8, <1>9, EqualWalks, Zenon
<1>11. tail' \in C \/ tail' = head
  BY <1>3 DEF Chain
<1>12. d[tail'] \in Seq(Items) /\ c[tail'] = d[tail']
  BY <1>9, <1>10, <1>11 DEF Equal
<1>13. tail \in B
  BY <1>3 DEF Chain
<1>14. c[tail] = ShownAt(tail) \o c[tail']
  BY <1>4, <1>13 DEF Along, Walks
<1> QED BY <1>4, <1>5, <1>12, <1>14

(* Publishing what is laid adds the chunk that is written.                 *)
LEMMA ContentsGrow ==
  ASSUME RingInv, TypeOK', WriteAdvance
  PROVE  Contents' = Append(Contents, Chunk(tag, written))
<1>1. TypeOK /\ Spelled /\ Placed /\ Laid
  BY ContentsSpelled DEF RingInv
<1>2. TypeOK' => Spelled'
  BY ContentsSpelled, PTL
<1>3. PICK B, C \in SUBSET Offsets : /\ Chain(B) /\ Chain(C)' /\ B \subseteq C
                                     /\ head \in C /\ Start \in C
  BY ChainGrows DEF RingInv
<1>a. UNCHANGED <<tail, mem>> /\ ppc = "publish" /\ Writing
  BY DEF WriteAdvance, Writing
<1>4. PICK c, rank, next, shows :
        /\ Contents = c[tail] /\ c[head] = <<>>
        /\ Along(B, rank, next, shows) /\ Walks(c, B, next, shows)
  BY <1>1, <1>3 DEF Spelled
<1>5. PICK d, rank2, next2, shows2 :
        /\ Contents' = d[tail'] /\ d[head'] = <<>>
        /\ Along(C, rank2, next2, shows2)' /\ Walks(d, C, next2, shows2)
  BY <1>2, <1>3 DEF Spelled
<1>6. \A b : ShownAt(b)' = ShownAt(b) /\ After(b)' = After(b)
  BY <1>a DEF ShownAt, ChunkAt, After, Ext
<1>7. Walks(d, B, next, shows)
  <2>1. \A b \in B : b \in C /\ next2[b] = next[b] /\ shows2[b] = shows[b]
    BY <1>3, <1>4, <1>5, <1>6 DEF Along
  <2> QED BY <1>5, <2>1 DEF Walks
<1>8. \A b \in C : d[b] = ShownAt(b) \o d[After(b)]
  BY <1>5, <1>6 DEF Along, Walks
<1>b. /\ After(Start) = head' /\ (gapd > 0 => After(head) = Start) /\ Start \in Offsets
  BY <1>1, <1>a, ChainGrows, PlaceFree DEF RingInv
<1>c. PICK new \in Items : new = Chunk(tag, written)
  <2>1. written \in Spans /\ tag \in Tags /\ 0 \in Tags
    BY <1>1 DEF TypeOK, Tags
  <2>2. Chunk(tag, written) \in Items
    BY <2>1 DEF Items, Chunk
  <2> QED BY <2>2, Zenon
<1>9. ShownAt(Start) = <<new>>
  <2>1. /\ mem[Start].size = written /\ mem[Start].gap = 0 /\ tag \in Tags
        /\ \A w \in Words(Start + Header, Pad(mem[Start].size)) : mem[w].tag = tag
    BY <1>1, <1>a DEF Laid, TypeOK
  <2>2. Start + Ext(Start) <= Size
    BY <1>1, <1>a, <2>1, PlaceFree DEF Ext, Need
  <2>3. ChunkAt(Start) = Chunk(tag, written)
    BY <1>1, <1>b, <2>1, <2>2, TagShows
  <2> QED BY <1>c, <2>1, <2>3 DEF ShownAt
<1>10. d[Start] = <<new>>
  <2>1. d[Start] = <<new>> \o d[head']
    BY <1>3, <1>8, <1>9, <1>b
  <2>2. <<new>> \o <<>> = <<new>>
    BY <1>c
  <2> QED BY <1>5, <2>1, <2>2
<1>11. d[head] = <<new>>
  <2>1. CASE gapd > 0
    <3>1. mem[head].gap = 1
      BY <1>1, <1>a, <2>1 DEF Laid, HeaderWord
    <3>2. d[head] = <<>> \o d[Start]
      BY <1>3, <1>8, <1>b, <2>1, <3>1 DEF ShownAt
    <3>3. <<>> \o <<new>> = <<new>>
      BY <1>c
    <3> QED BY <1>10, <3>2, <3>3
  <2>2. CASE ~(gapd > 0)
    BY <1>10, <2>2 DEF Start
  <2> QED BY <2>1, <2>2
<1>12. PICK tl \in Seq(Items) : tl = <<new>>
  <2>1. <<new>> \in Seq(Items)
    BY <1>c
  <2> QED BY <2>1, Zenon
<1>13. Longer(Items, {head}, c, d, tl)
  <2>1. <<>> \o tl = tl /\ <<>> \in Seq(Items)
    BY <1>12, EmptySeq
  <2>2. c[head] = <<>> /\ d[head] = tl
    BY <1>4, <1>11, <1>12
  <2> QED BY <2>1, <2>2 DEF Longer
<1>14. Leads(B, head, rank, next) /\ Puts(Items, B, shows)
  BY <1>4 DEF Along
<1>15. Longer(Items, B, c, d, tl)
  BY <1>4, <1>7, <1>12, <1>13, <1>14, SameWalk, Zenon
<1>16. c[tail] \in Seq(Items) /\ d[tail] = c[tail] \o tl
  BY <1>3, <1>13, <1>15 DEF Chain, Longer
<1>17. Append(c[tail], new) = c[tail] \o <<new>>
  BY <1>16, <1>c, AppendIsConcat
<1> QED BY <1>4, <1>5, <1>a, <1>c, <1>12, <1>16, <1>17

LEMMA QueueInit == Init => Queue!Init
<1> SUFFICES ASSUME Init PROVE Queue!Init
  OBVIOUS
<1>1. Spelled
  BY InitRing, ContentsSpelled DEF RingInv
<1>2. Contents = <<>>
  BY <1>1 DEF Spelled, Init
<1> QED BY <1>2 DEF Queue!Init, Init

(* Every step adds a chunk to the queue, takes one, or leaves it alone.    *)
LEMMA QueueStep ==
  ASSUME RingInv, RingInv', [Next]_vars
  PROVE  [Queue!Next]_<<Contents, sent, taken>>
<1>1. TypeOK /\ TypeOK' /\ Placed
  BY DEF RingInv
<1>2. CASE WriteRequest \/ WriteRefused \/ GiveUp \/ (\E n \in Lengths : Want(n))
           \/ ReadRequest \/ ReadChunk \/ UNCHANGED vars
  <2>1. UNCHANGED <<head, tail, mem, sent, taken>>
    BY <1>2 DEF WriteRequest, WriteRefused, GiveUp, Want, ReadRequest, ReadChunk, vars,
                ring, producer, consumer
  <2>2. Contents' = Contents
    BY <1>1, <2>1, ContentsSame
  <2> QED BY <2>1, <2>2
<1>3. CASE WritePayload \/ WriteHeader
  <2>1. UNCHANGED <<head, tail, sent, taken>>
    BY <1>3 DEF WritePayload, WriteHeader, consumer
  <2>2. \A w \in Offsets : Dist(w) < Dist(head) => mem'[w] = mem[w]
    BY <1>1, <1>3, PayloadFree, HeaderFree
  <2>3. Contents' = Contents
    BY <1>1, <2>1, <2>2, ContentsSame
  <2> QED BY <2>1, <2>3
<1>4. CASE WriteAdvance
  <2>1. sent' = Chunk(tag, written) /\ UNCHANGED taken
    BY <1>4 DEF WriteAdvance, consumer
  <2>2. sent' \in Chunks
    BY <1>1, <2>1 DEF TypeOK, Chunks
  <2>3. Contents' = Append(Contents, sent')
    BY <1>1, <1>4, <2>1, ContentsGrow
  <2> QED BY <2>1, <2>2, <2>3 DEF Queue!Next, Queue!Write
<1>5. CASE SkipGap
  <2>1. cpc = "look" /\ AtGap /\ UNCHANGED <<head, mem, sent, taken>>
    BY <1>5 DEF SkipGap, producer, consumer
  <2>2. head # tail /\ mem[tail].gap = 1
    BY <2>1, AtGapIs DEF RingInv, Reader
  <2>3. tail' = After(tail)
    <3>1. tail + Ext(tail) = Size
      BY <2>2, FirstElement
    <3>2. tail + (Size - tail) = Size + 0 /\ (Size + 0) % Size = 0
      BY <1>1, TypeFacts, WrappedIs
    <3> QED BY <1>5, <3>1, <3>2 DEF SkipGap, After
  <2>4. Contents = ShownAt(tail) \o Contents' /\ Contents' \in Seq(Items)
    BY <1>1, <2>1, <2>2, <2>3, ContentsTaken
  <2>5. ShownAt(tail) = <<>>
    BY <2>2 DEF ShownAt
  <2>6. Contents' = Contents
    BY <2>4, <2>5
  <2> QED BY <2>1, <2>6
<1>6. CASE ReadAdvance
  <2>1. cpc = "have" /\ taken' = got /\ UNCHANGED <<head, mem, sent>>
    BY <1>6 DEF ReadAdvance, producer
  <2>2. head # tail /\ mem[tail].gap = 0 /\ ChunkAt(tail) = got /\ tail \in Offsets
    BY <1>1, <2>1 DEF RingInv, Reader, TypeOK
  <2>3. tail' = After(tail)
    <3>1. tail \in Nat /\ Pad(mem[tail].size) \in Nat
      BY <1>1, TypeFacts, PadIs DEF TypeOK, Spans
    <3>2. tail + Header + Pad(mem[tail].size) = tail + Ext(tail)
      BY <3>1 DEF Ext, Header
    <3> QED BY <1>6, <2>2, <3>2, FirstElement DEF ReadAdvance
  <2>4. Contents = ShownAt(tail) \o Contents' /\ Contents' \in Seq(Items)
    BY <1>1, <2>1, <2>2, <2>3, ContentsTaken
  <2>5. ShownAt(tail) = <<got>> /\ got \in Items
    BY <1>1, <2>2, ShownTypes DEF ShownAt
  <2>6. PICK rest \in Seq(Items) : rest = Contents'
    BY <2>4, Zenon
  <2>7. /\ <<got>> \o rest # <<>>
        /\ Head(<<got>> \o rest) = got /\ Tail(<<got>> \o rest) = rest
    BY <2>5
  <2>8. Contents # <<>> /\ taken' = Head(Contents) /\ Contents' = Tail(Contents)
    BY <2>1, <2>4, <2>5, <2>6, <2>7
  <2> QED BY <2>1, <2>8 DEF Queue!Next, Queue!Read
<1> QED BY <1>2, <1>3, <1>4, <1>5, <1>6 DEF Next, Write, Read

-------------------------------------------------------------------------------
(* What follows from it. *)

(* What the producer writes to is free, and not over the end of the ring.  *)
LEMMA RingApart == RingInv => WriterApart
<1> SUFFICES ASSUME RingInv PROVE WriterApart
  OBVIOUS
<1>1. TypeOK /\ Placed
  BY DEF RingInv
<1>2. CASE Writing
  <2>1. /\ Start + Need <= Size
        /\ \A w \in Words(Start, Need) : ~(Dist(w) < Dist(head))
        /\ Start \in Nat /\ Pad(written) \in Nat /\ head \in Offsets
    BY <1>1, <1>2, PlaceFree, TypeFacts, PadIs DEF TypeOK
  <2>2. \A w \in InWriting : w \in Offsets /\ ~(Dist(w) < Dist(head))
    <3>1. Dist(head) \in Nat
      BY <1>1, <2>1, DistIs
    <3>2. ~(Dist(head) < Dist(head))
      BY <3>1
    <3> QED BY <2>1, <3>2 DEF InWriting, Need, Words
  <2>3. \A w \in InWriting : w \notin Unread
    BY <1>1, <2>2, UnreadIs
  <2> QED BY <2>1, <2>3 DEF WriterApart, Need, Header
<1>3. CASE ~Writing
  BY <1>3 DEF WriterApart, InWriting, Writing
<1> QED BY <1>2, <1>3

LEMMA RingStable == RingInv => ChunkStable
<1> SUFFICES ASSUME RingInv, cpc = "have"
             PROVE  ChunkAt(tail) = got /\ tail + Header + Pad(got.size) <= Size
  BY DEF ChunkStable
<1>1. ChunkAt(tail) = got /\ head # tail /\ tail \in Nat /\ mem[tail].size \in Nat
  BY TypeFacts DEF RingInv, Reader, TypeOK
<1>2. got.size = mem[tail].size
  BY <1>1 DEF ChunkAt, Chunk
<1>3. tail + Ext(tail) <= Size /\ Pad(mem[tail].size) \in Nat
  BY <1>1, FirstElement, PadIs
<1> QED BY <1>1, <1>2, <1>3 DEF Ext, Header

(* All variables keep their types. *)
THEOREM TypeCorrect == ASSUME ToTheMax = FALSE PROVE Spec => []TypeOK
<1>1. RingInv => TypeOK
  BY DEF RingInv
<1> QED BY <1>1, RingInvariant, PTL

(* What a producer is given by varchunk_write_request_max to write in      *)
(* place is never part of what the consumer has yet to read, and does not  *)
(* reach over the end of the ring.                                         *)
THEOREM WriterStaysApart == ASSUME ToTheMax = FALSE PROVE Spec => []WriterApart
BY RingInvariant, RingApart, PTL

(* The chunk that varchunk_read_request returns does not change until it   *)
(* is given back, and is contiguous in the ring.                           *)
THEOREM ReaderUndisturbed == ASSUME ToTheMax = FALSE PROVE Spec => []ChunkStable
BY RingInvariant, RingStable, PTL

(* There is always an element after a gap, as varchunk_read_request relies *)
(* on.                                                                     *)
THEOREM GapNeverLast == ASSUME ToTheMax = FALSE PROVE Spec => []ElementAfterGap
<1>1. RingInv => ElementAfterGap
  BY FirstElement DEF ElementAfterGap, RingInv, Reader
<1> QED BY <1>1, RingInvariant, PTL

(* A ring that has been read empty takes any chunk of up to half its size. *)
THEOREM EmptyTakesHalf == ASSUME ToTheMax = FALSE PROVE Spec => []EmptyRingTakes
BY TypeCorrect, EmptyTakes, PTL

(* The ring is the queue of Fifo: what is written is read, whole, once and *)
(* in order, across wraps and gaps.                                        *)
THEOREM RingIsFifo == ASSUME ToTheMax = FALSE PROVE Spec => ImplementsFifo
<1>1. RingInv /\ RingInv' /\ [Next]_vars => [Queue!Next]_<<Contents, sent, taken>>
  BY QueueStep
<1> QED BY <1>1, QueueInit, RingInvariant, PTL DEF Spec, ImplementsFifo, Queue!Spec
===============================================================================
