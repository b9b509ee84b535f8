------------------------------ MODULE MCDisplay ------------------------------
(***************************************************************************)
(* An instance of Display for TLC.                                         *)
(***************************************************************************)
EXTENDS Display

\* Lines shorter than the display, as long, and longer.
MCTexts ==
  {[line1 |-> <<"a">>, line2 |-> <<"b", "b", "b">>], [line1 |-> <<"c", "c">>, line2 |-> <<>>]}

=============================================================================
