----------------------------- MODULE MCRoundTrip -----------------------------
(***************************************************************************)
(* A small instance of RoundTrip for TLC.                                  *)
(***************************************************************************)
EXTENDS RoundTrip

(* Small; at the limit, which encryption then crosses; larger than a narrow *)
(* field can say, compressed well and not.                                  *)
MCBodies == {[fsize |-> 1, psize |-> 1], [fsize |-> 4, psize |-> 4],
             [fsize |-> 6, psize |-> 1], [fsize |-> 3, psize |-> 7]}
=============================================================================
