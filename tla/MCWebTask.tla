------------------------------ MODULE MCWebTask ------------------------------
(* Instances of WebTask for TLC. *)
EXTENDS WebTask

CONSTANTS d1, d2, db, proxy

MCOne == {d1}
MCTwo == {d1, d2}
MCOrder == <<db, proxy>>
=============================================================================
