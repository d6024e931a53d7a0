------------------------------ MODULE MCGateway ------------------------------
(***************************************************************************)
(* Small instances of Gateway: constant values for the .cfg files.          *)
(***************************************************************************)
EXTENDS Gateway

CONSTANTS s1, t1

OneContact == {<<s1, t1>>}
=============================================================================
