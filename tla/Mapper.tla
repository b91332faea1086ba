------------------------------- MODULE Mapper -------------------------------
(***************************************************************************)
(* The URID map of src/mapper.lv2/mapper.lv2/mapper.h, as bin_init sets it *)
(* up: a hash table of pointers to strings, filled by compare-and-swap,    *)
(* whose strings come from the allocator Lfrtm.  All threads map URIs.     *)
(*                                                                         *)
(* A string is the URI it spells.  nstats is 0, as in both programs that   *)
(* use the map, so a URID is the number of a slot.                         *)
(***************************************************************************)
EXTENDS Lfrtm

CONSTANTS
  Callers,    \* the threads that map URIs
  Uris,
  Length,     \* strlen + 1 of each URI
  Hash,       \* mum_hash of each URI
  NItems,     \* mapper->nitems, a power of two
  NoCall

ASSUME MapAssumption ==
  /\ Callers \subseteq Threads /\ NoCall \notin Uris
  /\ NItems \in Nat \ {0}
  /\ Length \in [Uris -> 1..PoolSize] /\ Hash \in [Uris -> Nat]

Slots == 0..NItems - 1
NULL == -1

VARIABLES
  items,      \* the address each slot points to
  text,       \* the string written at an address
  usage,      \* mapper->usage
  uri,        \* the URI a thread is mapping
  probe,      \* i of the loop in _mapper_map
  clone,      \* uri_clone
  new,        \* ghost: the URI was in no slot when the call began
  answers     \* ghost: all pairs of a URI and its answer

mapVars == <<items, text, usage, uri, probe, clone, new, answers>>
vars == <<allocVars, mapVars>>

Taken(s) == items[s] # NULL
UriAt(s) == text[items[s]]
Mapped == {UriAt(s) : s \in {r \in Slots : Taken(r)}}

\* (hash + i*i) & nitems_mask; the wrap at 2^32 leaves the low bits alone.
SlotOf(u, i) == (Hash[u] + i * i) % NItems
Here(t) == SlotOf(uri[t], probe[t])

Init ==
  /\ AllocInit
  /\ pc = [t \in Threads |-> "idle"]
  /\ items = [s \in Slots |-> NULL]
  /\ text = << >>
  /\ usage = 0
  /\ uri = [t \in Threads |-> NoCall]
  /\ probe = [t \in Threads |-> 0]
  /\ clone = [t \in Threads |-> NULL]
  /\ new = [t \in Threads |-> FALSE]
  /\ answers = {}

----------------------------------------------------------------------------
(* _mapper_map *)

Call(t, u) ==
  /\ pc[t] = "idle"
  /\ Go(t, "load")
  /\ uri' = [uri EXCEPT ![t] = u]
  /\ new' = [new EXCEPT ![t] = u \notin Mapped]
  /\ UNCHANGED <<offset, pools, inject, at, scan, items, text, usage, probe, clone, answers>>

\* A clone that was not used is given to _mapper_free_rt, which does nothing.
Return(t, urid) ==
  /\ Go(t, "idle")
  /\ answers' = answers \cup {<<uri[t], urid>>}
  /\ uri' = [uri EXCEPT ![t] = NoCall]
  /\ probe' = [probe EXCEPT ![t] = 0]
  /\ clone' = [clone EXCEPT ![t] = NULL]
  /\ new' = [new EXCEPT ![t] = FALSE]
  /\ UNCHANGED <<offset, pools, inject, at, scan>>

\* Mutant of Find: memcmp leaves the terminator out, and a longer URI matches.
FindPrefix(t) ==
  /\ pc[t] = "load" /\ Taken(Here(t))
  /\ UriAt(Here(t)) = uri[t] \/ Length[UriAt(Here(t))] > Length[uri[t]]
  /\ Return(t, Here(t))
  /\ UNCHANGED <<items, text, usage>>

\* The slot holds this very URI: it is mapped already.
Find(t) ==
  /\ pc[t] = "load" /\ Taken(Here(t)) /\ UriAt(Here(t)) = uri[t]
  /\ Return(t, Here(t))
  /\ UNCHANGED <<items, text, usage>>

\* Mutant of NextSlot: the number of probes is not bounded.
NextSlotOn(t) ==
  /\ Taken(Here(t)) /\ UriAt(Here(t)) # uri[t]
  /\ probe' = [probe EXCEPT ![t] = @ + 1]
  /\ Go(t, "load")
  /\ UNCHANGED <<offset, pools, inject, at, scan, items, text, usage, uri, clone, new, answers>>

\* The slot holds another URI: on to the next one.
NextSlot(t) ==
  /\ Taken(Here(t)) /\ UriAt(Here(t)) # uri[t] /\ probe[t] + 1 < NItems
  /\ probe' = [probe EXCEPT ![t] = @ + 1]
  /\ Go(t, "load")
  /\ UNCHANGED <<offset, pools, inject, at, scan, items, text, usage, uri, clone, new, answers>>

Collide(t) == pc[t] = "load" /\ NextSlot(t)

\* "item buffer overflow"
Overflow(t) ==
  /\ pc[t] \in {"load", "claim"}
  /\ Taken(Here(t)) /\ UriAt(Here(t)) # uri[t] /\ probe[t] + 1 = NItems
  /\ Return(t, 0)
  /\ UNCHANGED <<items, text, usage>>

\* The slot is free: get a clone for it, unless there is one from before.
Vacant(t) ==
  /\ pc[t] = "load" /\ ~Taken(Here(t))
  /\ Go(t, IF clone[t] = NULL THEN "fetch" ELSE "claim")
  /\ UNCHANGED <<offset, pools, inject, at, scan, mapVars>>

\* The steps of the allocator, called with the length of the URI.
Alloc(t) ==
  /\ \/ FetchPastEnd(t)
     \/ FetchStraddling(t, Length[uri[t]])
     \/ FetchChunk(t, Length[uri[t]])
     \/ Await(t)
     \/ Request(t)
     \/ NoRequest(t)
     \/ Signal(t)
  /\ UNCHANGED mapVars

\* alloc has returned memory; memcpy.
Copy(t) ==
  /\ pc[t] = "got"
  /\ clone' = [clone EXCEPT ![t] = at[t]]
  /\ text' = [a \in DOMAIN text \cup {at[t]} |-> IF a = at[t] THEN uri[t] ELSE text[a]]
  /\ Go(t, "claim")
  /\ UNCHANGED <<offset, pools, inject, at, scan, items, usage, uri, probe, new, answers>>

\* "out-of-memory"
OutOfMemory(t) ==
  /\ pc[t] = "null"
  /\ Return(t, 0)
  /\ UNCHANGED <<items, text, usage>>

\* Mutant of Claim: the slot is stored to whatever has become of it.
ClaimBlind(t) ==
  /\ pc[t] = "claim"
  /\ items' = [items EXCEPT ![Here(t)] = clone[t]]
  /\ usage' = usage + 1
  /\ Return(t, Here(t))
  /\ UNCHANGED text

\* The compare-and-swap takes the slot.
Claim(t) ==
  /\ pc[t] = "claim" /\ ~Taken(Here(t))
  /\ items' = [items EXCEPT ![Here(t)] = clone[t]]
  /\ usage' = usage + 1
  /\ Return(t, Here(t))
  /\ UNCHANGED text

\* Another thread took it for the same URI ...
Stolen(t) ==
  /\ pc[t] = "claim" /\ Taken(Here(t)) /\ UriAt(Here(t)) = uri[t]
  /\ Return(t, Here(t))
  /\ UNCHANGED <<items, text, usage>>

\* Mutant of Lost: a lost race counts as taken, without a look at the string.
LostBlind(t) ==
  /\ pc[t] = "claim" /\ Taken(Here(t))
  /\ Return(t, Here(t))
  /\ UNCHANGED <<items, text, usage>>

\* ... or for another one.
Lost(t) == pc[t] = "claim" /\ NextSlot(t)

Inject(t) ==
  /\ \/ InjectHere(t, IF uri[t] = NoCall THEN "idle" ELSE "got")
     \/ InjectNext(t)
  /\ UNCHANGED mapVars

WorkerInject == TakeInject /\ UNCHANGED mapVars

Step(t) ==
  \/ Find(t) \/ Collide(t) \/ Overflow(t) \/ Vacant(t) \/ Alloc(t) \/ Copy(t)
  \/ OutOfMemory(t) \/ Claim(t) \/ Stolen(t) \/ Lost(t) \/ Inject(t)

Next ==
  \/ \E t \in Callers, u \in Uris : Call(t, u)
  \/ \E t \in Threads : Step(t)
  \/ WorkerInject

Spec == Init /\ [][Next]_vars

\* Every thread is scheduled, and bin_run comes round.
Fairness == (\A t \in Threads : WF_vars(Step(t))) /\ WF_vars(WorkerInject)
FairSpec == Spec /\ Fairness

----------------------------------------------------------------------------
(* Properties *)

\* _mapper_unmap, for a URID the map has given out; 0 is no URID.
Unmap(urid) == IF urid # 0 /\ Taken(urid) THEN UriAt(urid) ELSE NoCall

TypeOK ==
  /\ offset \in 0..End
  /\ pools \in [0..NumPools - 1 -> {"empty", "ongoing", "ready"}]
  /\ inject \in BOOLEAN
  /\ pc \in [Threads -> AllocPc \cup {"idle", "load", "claim"}]
  /\ at \in [Threads -> 0..End - 1]
  /\ scan \in [Threads -> 0..NumPools]
  /\ items \in [Slots -> {NULL} \cup 0..End - 1]
  /\ DOMAIN text \subseteq 0..End - 1 /\ \A a \in DOMAIN text : text[a] \in Uris
  /\ usage \in Nat
  /\ uri \in [Threads -> Uris \cup {NoCall}]
  /\ probe \in [Threads -> Slots]
  /\ clone \in [Threads -> {NULL} \cup DOMAIN text]
  /\ new \in [Threads -> BOOLEAN]
  /\ answers \subseteq Uris \X Slots

\* The chunks in use: strings written, and memory a thread has been given and
\* not yet written to, with their lengths.
Chunks == {<<a, Length[text[a]]>> : a \in DOMAIN text}
     \cup {<<at[t], Length[uri[t]]>> : t \in {r \in Threads : pc[r] \in {"more", "signal", "got"}}}

\* No two threads are given the same memory, none is given memory across the
\* end of a pool or in a pool that does not exist (lfrtm.h, lines 177 to 206).
ChunksApart ==
  /\ \A c, d \in Chunks : c = d \/ c[1] + c[2] <= d[1] \/ d[1] + d[2] <= c[1]
  /\ \A c \in Chunks : pools[PoolOf(c[1])] = "ready" /\ PoolOf(c[1]) = PoolOf(c[1] + c[2] - 1)

\* lfrtm_inject always finds the pool it was called for: each request leads to
\* one injection, whoever makes it (lfrtm.h, line 158, "double injection").
OneInjection == \A t \in Threads : ~DoubleInjection(t)

\* Memory is refused only when the last pool is used up, however slow the
\* thread that asks for the next pool is (lfrtm.h, line 200).
NullAtEndOnly == \A t \in Threads : pc[t] = "null" => offset = End

\* A URI has one URID for all threads and all time (mapper.h, lines 98 to 177);
\* a call that was refused gave none.
OneUrid == \A p, q \in answers : p[1] = q[1] /\ p[2] # 0 /\ q[2] # 0 => p[2] = q[2]

\* A URID, once given out, is always turned back into its URI.
RoundTrip == \A p \in answers : p[2] # 0 => Unmap(p[2]) = p[1]

SlotWith(u) == CHOOSE s \in Slots : Taken(s) /\ UriAt(s) = u

Table == INSTANCE UridTable WITH
  Threads <- Threads, Urids <- Slots, call <- uri,
  table <- [u \in Mapped |-> SlotWith(u)]

\* The map is a table: what is entered stays, and a URI that is in it when it is
\* asked for is found, through all races for slots and memory.
ImplementsTable == Table!Spec

\* Every call returns: no thread spins for ever for a pool (lfrtm.h, line 196).
EveryCallEnds == \A t \in Callers : pc[t] = "load" ~> pc[t] = "idle"
=============================================================================
