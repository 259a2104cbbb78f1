------------------------------ MODULE MCBcache ------------------------------
(* Instances of Bcache for TLC. *)
EXTENDS Bcache

\* Two devices, one with two blocks in use.
MCKey == {<<"sda", 1>>, <<"sda", 2>>, <<"sdb", 1>>}
=============================================================================
