------------------------------ MODULE MCPlugins ------------------------------
(***************************************************************************)
(* Instances of Plugins for TLC.                                           *)
(***************************************************************************)
EXTENDS Plugins

CONSTANTS after, every, x1, x2
==============================================================================
