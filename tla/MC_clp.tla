------------------------------ MODULE MC_clp ------------------------------
(* clp for TLC: a 6-byte line buffer (four characters before the overflow *)
(* reset), the characters m, g, '.' and space, and a menu shaped like the *)
(* one lums_menuInit builds: a root command (help), a root menu "m" with  *)
(* a command and a nested menu, whose own command ends the nesting, and a *)
(* child added under the root command g although g has a call-back.       *)
EXTENDS clp

MC_Menu ==
  << [cmd |-> <<"g">>, parent |-> 0, cb |-> TRUE],
     [cmd |-> <<"m">>, parent |-> 0, cb |-> FALSE],
     [cmd |-> <<"g">>, parent |-> 2, cb |-> TRUE],
     [cmd |-> <<"m">>, parent |-> 2, cb |-> FALSE],
     [cmd |-> <<"g">>, parent |-> 4, cb |-> TRUE],
     [cmd |-> <<"m">>, parent |-> 1, cb |-> TRUE] >>
=============================================================================
