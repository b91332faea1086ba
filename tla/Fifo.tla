---------------------------------- MODULE Fifo ----------------------------------
(***************************************************************************)
(* What a varchunk ring promises its two threads: chunks come out whole,   *)
(* each once and in the order they went in.                                *)
(***************************************************************************)
EXTENDS Naturals, Sequences

CONSTANTS
  Chunks,  \* the chunks a producer may write
  NoChunk  \* none of them

VARIABLES
  queue,  \* the chunks written and not yet read
  sent,   \* the chunk written last
  taken   \* the chunk read last

Init == queue = <<>> /\ sent = NoChunk /\ taken = NoChunk

Write ==
  /\ sent' \in Chunks
  /\ queue' = Append(queue, sent')
  /\ UNCHANGED taken

Read ==
  /\ queue # <<>>
  /\ taken' = Head(queue)
  /\ queue' = Tail(queue)
  /\ UNCHANGED sent

Next == Write \/ Read

Spec == Init /\ [][Next]_<<queue, sent, taken>>
=================================================================================
