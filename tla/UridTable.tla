----------------------------- MODULE UridTable -----------------------------
(***************************************************************************)
(* What the URID map promises its callers (LV2's urid extension, used by   *)
(* every thread of the host and by plugins): a table that only grows, in   *)
(* which every URI has one URID and every URID one URI.  A call may be     *)
(* refused, but never for a URI that was in the table when it was made.    *)
(***************************************************************************)
EXTENDS Naturals

CONSTANTS Threads, Uris, Urids, NoCall

VARIABLES
  table,      \* from the URIs mapped so far to their URIDs
  call,       \* the URI a thread is asking for
  new,        \* that URI was not in the table when the call was made
  answers     \* all pairs of a URI and the URID it was answered with, 0 if refused

vars == <<table, call, new, answers>>

Init ==
  /\ table = [u \in {} |-> 0]
  /\ call = [t \in Threads |-> NoCall]
  /\ new = [t \in Threads |-> FALSE]
  /\ answers = {}

Call(t, u) ==
  /\ call[t] = NoCall
  /\ call' = [call EXCEPT ![t] = u]
  /\ new' = [new EXCEPT ![t] = u \notin DOMAIN table]
  /\ UNCHANGED <<table, answers>>

Return(t, urid) ==
  /\ answers' = answers \cup {<<call[t], urid>>}
  /\ call' = [call EXCEPT ![t] = NoCall]
  /\ new' = [new EXCEPT ![t] = FALSE]

Enter(t, urid) ==
  /\ call[t] # NoCall /\ call[t] \notin DOMAIN table /\ (\A u \in DOMAIN table : table[u] # urid)
  /\ table' = [u \in DOMAIN table \cup {call[t]} |-> IF u \in DOMAIN table THEN table[u] ELSE urid]
  /\ Return(t, urid)

Find(t) ==
  /\ call[t] \in DOMAIN table
  /\ Return(t, table[call[t]])
  /\ UNCHANGED table

Refuse(t) ==
  /\ call[t] # NoCall /\ new[t]
  /\ Return(t, 0)
  /\ UNCHANGED table

Next == \E t \in Threads :
  \/ \E u \in Uris : Call(t, u)
  \/ \E urid \in Urids : Enter(t, urid)
  \/ Find(t)
  \/ Refuse(t)

Spec == Init /\ [][Next]_vars
=============================================================================
