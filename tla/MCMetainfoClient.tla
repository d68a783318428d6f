-------------------------- MODULE MCMetainfoClient --------------------------
(* TLC instances of MetainfoClient. *)
EXTENDS MetainfoClient
=============================================================================
