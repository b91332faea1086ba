-------------------------------- MODULE Varchunk --------------------------------
(***************************************************************************)
(* The lock-free ring of varchunk/varchunk.h, through which all threads of *)
(* Synthpod talk: one producer and one consumer exchange chunks of any     *)
(* length, each contiguous in the ring and accessed in place.              *)
(*                                                                         *)
(* The ring is Size bytes.  A chunk is a header of 8 bytes followed by the *)
(* payload, padded to 8; one that does not fit before the end of the ring  *)
(* goes to its beginning and a gap is left behind.  The producer owns      *)
(* head, the consumer tail; either reads the other's with an acquiring     *)
(* load and publishes its own with a releasing store, so those are the     *)
(* steps that interleave.                                                  *)
(*                                                                         *)
(* The ring's memory is a record per word of 8 bytes: a header's size and  *)
(* gap, or the tag of the payload that was written there.                  *)
(***************************************************************************)
EXTENDS Integers, Sequences

CONSTANTS
  Size,     \* bytes of the ring, a power of two
  Lengths,  \* the payload lengths a producer asks for
  NumTags,  \* how many tags tell payloads apart, more than fit in the ring
  ToTheMax  \* whether the producer may write all of the maximum it is told

ASSUME SizeAssumption == Size \in Nat /\ Size >= 8 /\ Size % 8 = 0
ASSUME LengthsAssumption == Lengths \subseteq Nat
ASSUME NumTagsAssumption == NumTags \in Nat \ {0}
ASSUME ToTheMaxAssumption == ToTheMax \in BOOLEAN

VARIABLES
  head, tail,   \* the shared offsets
  mem,          \* what was last written to each word of the ring
  rsvd, gapd,   \* varchunk->rsvd and ->gapd, the producer's
  ppc, want, tag, \* the producer: its step, minimum asked for, next tag
  written,      \* what it passes to varchunk_write_advance
  cpc, seen,    \* the consumer: its step, the head it has loaded
  got,          \* the chunk at hand
  sent, taken   \* ghosts: the chunk written last, and the one read last

ring     == <<head, tail, mem>>
producer == <<rsvd, gapd, ppc, want, tag, written, sent>>
consumer == <<cpc, seen, got, taken>>
vars     == <<ring, producer, consumer>>

Tags    == 0 .. NumTags - 1
Header  == 8
Offsets == {8 * w : w \in 0 .. Size \div 8 - 1}
Spans   == 0 .. Size   \* lengths of parts of the ring

(* VARCHUNK_PAD *)
Pad(n) == ((n + 7) \div 8) * 8

(* The offsets of the words in the n bytes from offset o. *)
Words(o, n) == {w \in Offsets : o <= w /\ w < o + n}

HeaderWord(n, g) == [size |-> n, gap |-> g, tag |-> -1]
PayloadWord(t)   == [size |-> 0, gap |-> 0, tag |-> t]

(* A chunk of no bytes shows no tag. *)
Chunk(t, n) == [size |-> n, tag |-> IF n = 0 THEN 0 ELSE t]
Chunks  == {Chunk(t, n) : t \in Tags, n \in Spans}
NoChunk == [size |-> 0, tag |-> -1]

(* The chunk whose header is at o: a tag is what all its words hold, -1 if *)
(* they do not agree.                                                      *)
ChunkAt(o) ==
  LET n     == mem[o].size
      found == {mem[w].tag : w \in Words(o + Header, Pad(n))}
  IN  IF n = 0 THEN Chunk(0, 0)
      ELSE [size |-> n,
            tag  |-> IF \E t \in Tags : found = {t}
                       THEN CHOOSE t \in Tags : found = {t} ELSE -1]

Init ==
  /\ head = 0 /\ tail = 0
  /\ mem = [o \in Offsets |-> HeaderWord(0, 0)]
  /\ rsvd = 0 /\ gapd = 0 /\ ppc = "idle" /\ want = 0 /\ tag = 0
  /\ written = 0 /\ sent = NoChunk
  /\ cpc = "idle" /\ seen = 0 /\ got = NoChunk /\ taken = NoChunk

-------------------------------------------------------------------------------
(* The producer. *)

(* What is writable, from the offsets as they are when tail is loaded. *)
Space == IF head = tail THEN Size - 1 ELSE ((tail - head + Size) % Size) - 1

(* Mutant of Fits: the headers are forgotten. *)
FitsBare(n, part) == Pad(n) <= part

(* A minimum of n bytes, with room for the header of a gap or of a next   *)
(* chunk, fits into a part of the ring.                                   *)
Fits(n, part) == 2 * Header + Pad(n) <= part

(* The parts before and after the end of the ring; the second is used only *)
(* where the writable space wraps.                                         *)
Wraps  == head + Space > Size
First  == IF Wraps THEN Size - head ELSE Space
Second == IF Wraps THEN (head + Space) % Size ELSE 0

(* Mutant of Room: the second part is not used. *)
RoomFirst(n) == Fits(n, First)

Room(n) == Fits(n, First) \/ Fits(n, Second)

Want(n) ==
  /\ ppc = "idle"
  /\ ppc' = "want" /\ want' = n
  /\ UNCHANGED <<ring, rsvd, gapd, tag, written, sent, consumer>>

(* varchunk_write_request_max returns a buffer.  The caller will write at  *)
(* most what it asked for or, if it looks at the maximum, up to that.      *)
WriteRequest ==
  /\ ppc = "want"
  /\ Room(want)
  /\ IF Fits(want, First)
       THEN rsvd' = First /\ gapd' = 0
       ELSE rsvd' = Second /\ gapd' = First
  /\ \/ written' \in {n \in Lengths : n <= want}
     \/ ToTheMax /\ written' = rsvd'
  /\ ppc' = "payload"
  /\ UNCHANGED <<ring, want, tag, sent, consumer>>

(* It returns NULL; the caller tries again. *)
WriteRefused ==
  /\ ppc = "want"
  /\ ~Room(want)
  /\ rsvd' = 0 /\ gapd' = 0
  /\ UNCHANGED <<ring, ppc, want, tag, written, sent, consumer>>

(* The caller drops what it wanted to write. *)
GiveUp ==
  /\ ppc = "want"
  /\ ppc' = "idle" /\ want' = 0
  /\ UNCHANGED <<ring, rsvd, gapd, tag, written, sent, consumer>>

(* Where the chunk goes. *)
Start == IF gapd > 0 THEN 0 ELSE head

WritePayload ==
  /\ ppc = "payload"
  /\ mem' = [o \in Offsets |->
              IF o \in Words(Start + Header, Pad(written))
                THEN PayloadWord(tag) ELSE mem[o]]
  /\ ppc' = "header"
  /\ UNCHANGED <<head, tail, rsvd, gapd, want, tag, written, sent, consumer>>

(* Mutant of WriteHeader: the gap is not marked. *)
WriteHeaderOnly ==
  /\ ppc = "header"
  /\ written <= rsvd
  /\ mem' = [mem EXCEPT ![Start] = HeaderWord(written, 0)]
  /\ ppc' = "publish"
  /\ UNCHANGED <<head, tail, rsvd, gapd, want, tag, written, sent, consumer>>

(* varchunk_write_advance up to its store: the headers of the gap, if      *)
(* there is one, and of the chunk.                                         *)
WriteHeader ==
  /\ ppc = "header"
  /\ written <= rsvd
  /\ mem' = [o \in Offsets |->
              IF o = Start THEN HeaderWord(written, 0)
              ELSE IF o = head /\ gapd > 0 THEN HeaderWord(gapd - Header, 1)
              ELSE mem[o]]
  /\ ppc' = "publish"
  /\ UNCHANGED <<head, tail, rsvd, gapd, want, tag, written, sent, consumer>>

(* Mutant of WriteAdvance: the payload is not padded. *)
WriteAdvanceUnpadded ==
  /\ ppc = "publish"
  /\ head' = (head + gapd + Header + 8 * (written \div 8)) % Size
  /\ ppc' = "idle" /\ want' = 0 /\ written' = 0
  /\ tag' = (tag + 1) % NumTags
  /\ sent' = Chunk(tag, written)
  /\ UNCHANGED <<tail, mem, rsvd, gapd, consumer>>

(* Mutant of WriteAdvance: the offset is not masked. *)
WriteAdvanceUnmasked ==
  /\ ppc = "publish"
  /\ head' = head + gapd + Header + Pad(written)
  /\ ppc' = "idle" /\ want' = 0 /\ written' = 0
  /\ tag' = (tag + 1) % NumTags
  /\ sent' = Chunk(tag, written)
  /\ UNCHANGED <<tail, mem, rsvd, gapd, consumer>>

(* _varchunk_write_advance_raw *)
WriteAdvance ==
  /\ ppc = "publish"
  /\ head' = (head + gapd + Header + Pad(written)) % Size
  /\ ppc' = "idle" /\ want' = 0 /\ written' = 0
  /\ tag' = (tag + 1) % NumTags
  /\ sent' = Chunk(tag, written)
  /\ UNCHANGED <<tail, mem, rsvd, gapd, consumer>>

-------------------------------------------------------------------------------
(* The consumer. *)

(* varchunk_read_request loads head: NULL if there is nothing to read. *)
ReadRequest ==
  /\ cpc = "idle"
  /\ head # tail
  /\ seen' = head
  /\ cpc' = "look"
  /\ UNCHANGED <<ring, producer, got, taken>>

Readable == (seen - tail + Size) % Size

AtGap == tail + Readable > Size /\ mem[tail].gap = 1

(* Mutant of SkipGap: the tail is moved only when the chunk is done with.  *)
SkipGapPastChunk ==
  /\ cpc = "look"
  /\ AtGap
  /\ tail' = (Header + Pad(mem[0].size)) % Size
  /\ UNCHANGED <<head, mem, producer, consumer>>

(* The first part is a gap: the tail goes to the beginning of the ring,    *)
(* where there will always be at least one element.                        *)
SkipGap ==
  /\ cpc = "look"
  /\ AtGap
  /\ tail' = (tail + (Size - tail)) % Size
  /\ UNCHANGED <<head, mem, producer, consumer>>

(* The chunk is returned, and its receiver reads it. *)
ReadChunk ==
  /\ cpc = "look"
  /\ ~AtGap
  /\ got' = ChunkAt(tail)
  /\ cpc' = "have"
  /\ UNCHANGED <<ring, producer, seen, taken>>

(* varchunk_read_advance: the size is read from the ring once more. *)
ReadAdvance ==
  /\ cpc = "have"
  /\ tail' = (tail + Header + Pad(mem[tail].size)) % Size
  /\ taken' = got
  /\ got' = NoChunk /\ seen' = 0 /\ cpc' = "idle"
  /\ UNCHANGED <<head, mem, producer>>

-------------------------------------------------------------------------------
Write == WriteRequest \/ WritePayload \/ WriteHeader \/ WriteAdvance
Read  == ReadRequest \/ SkipGap \/ ReadChunk \/ ReadAdvance

Next ==
  \/ \E n \in Lengths : Want(n)
  \/ WriteRefused \/ GiveUp
  \/ Write \/ Read

Spec == Init /\ [][Next]_vars

(* Both threads are scheduled, and the producer tries again when refused. *)
FairSpec == Spec /\ WF_vars(Write) /\ WF_vars(Read)
-------------------------------------------------------------------------------
(* Properties. *)

(* The chunks between tail and head, the oldest first: what a consumer     *)
(* that starts now will read.  No more than one chunk begins at a word.    *)
Contents ==
  LET from[k \in 0 .. Size] ==
        [o \in Offsets |->
          IF k = 0 \/ o = head THEN <<>>
          ELSE IF mem[o].gap = 1 /\ head < o THEN from[k - 1][0]
          ELSE <<ChunkAt(o)>> \o from[k - 1][(o + Header + Pad(mem[o].size)) % Size]]
  IN  from[Size][tail]

(* The words between tail and head, which are the consumer's. *)
Unread == IF tail <= head THEN Words(tail, head - tail)
                          ELSE Offsets \ Words(head, tail - head)

(* The words the producer writes to, from its request to its store. *)
InWriting ==
  IF ppc \notin {"payload", "header", "publish"} THEN {}
  ELSE Words(Start, Header + Pad(written)) \union (IF gapd > 0 THEN {head} ELSE {})

TypeOK ==
  /\ head \in Offsets /\ tail \in Offsets /\ seen \in Offsets
  /\ mem \in [Offsets -> [size : Spans, gap : {0, 1}, tag : Tags \union {-1}]]
  /\ rsvd \in Spans /\ gapd \in Spans
  /\ ppc \in {"idle", "want", "payload", "header", "publish"}
  /\ want \in Lengths \union {0} /\ written \in Spans /\ tag \in Tags
  /\ cpc \in {"idle", "look", "have"}
  /\ {got, sent, taken} \subseteq Chunks \union {NoChunk}

(* varchunk_write_request_max: what the producer is given to write in      *)
(* place is never part of what the consumer has yet to read, and does not  *)
(* reach over the end of the ring.                                         *)
WriterApart ==
  /\ InWriting \intersect Unread = {}
  /\ ppc \in {"payload", "header", "publish"} =>
       Start + Header + Pad(written) <= Size

(* The chunk a consumer has been given does not change under it, and is    *)
(* contiguous in the ring.                                                 *)
ChunkStable ==
  cpc = "have" =>
    /\ ChunkAt(tail) = got
    /\ tail + Header + Pad(got.size) <= Size

(* varchunk_read_request: "there will always be at least one element after *)
(* a gap"; while a consumer looks for a chunk there is one.                *)
ElementAfterGap ==
  cpc # "idle" =>
    /\ head # tail
    /\ mem[tail].gap = 1 /\ head < tail => head # 0 /\ mem[0].gap = 0

(* A ring that has been read empty takes any chunk of up to half its size, *)
(* wherever its offsets have come to rest.                                 *)
EmptyRingTakes ==
  head = tail => \A n \in Lengths : 2 * (2 * Header + Pad(n)) <= Size => Room(n)

(* The ring does what Fifo promises. *)
Queue == INSTANCE Fifo WITH queue <- Contents
ImplementsFifo == Queue!Spec

(* A producer that tries again until it succeeds gets its chunk written,   *)
(* if that takes up to half of the ring.                                   *)
Served ==
  \A n \in {m \in Lengths : 2 * (2 * Header + Pad(m)) <= Size} :
    (ppc = "want" /\ want = n) ~> ppc # "want"
===============================================================================
