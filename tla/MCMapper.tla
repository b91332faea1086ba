------------------------------ MODULE MCMapper ------------------------------
(***************************************************************************)
(* Three URIs whose probe sequences meet, in a table of four slots of      *)
(* which a sequence reaches two, with pools of a few bytes.                *)
(***************************************************************************)
EXTENDS Mapper, TLC

CONSTANTS u1, u2, u3

MCUris == {u1, u2, u3}
MCLength == u1 :> 1 @@ u2 :> 2 @@ u3 :> 1
MCHash == u1 :> 4 @@ u2 :> 0 @@ u3 :> 1
=============================================================================
