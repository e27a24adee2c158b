----------------------------- MODULE MCCommands -----------------------------
(* Commands for TLC: a declaration with two overloads. *)
EXTENDS Commands

TwoOverloads ==
  {<< <<[kind |-> "int", optional |-> FALSE]>>,
      <<[kind |-> "int", optional |-> FALSE], [kind |-> "actor", optional |-> TRUE]>> >>}
=============================================================================
