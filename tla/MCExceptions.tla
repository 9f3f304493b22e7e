---------------------------- MODULE MCExceptions ----------------------------
(***************************************************************************)
(* Exceptions on small programs: try statements of three sorts, one with a *)
(* typed catch, one with a catch of everything and a finally, and one with *)
(* a finally only.                                                         *)
(***************************************************************************)
EXTENDS Exceptions

CONSTANTS x1, x2

MCException == {x1, x2}

MCClause == {[type |-> x1, finally |-> FALSE],
             [type |-> CatchAll, finally |-> TRUE],
             [type |-> NoCatch, finally |-> TRUE]}
=============================================================================
