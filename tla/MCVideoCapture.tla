--------------------------- MODULE MCVideoCapture ---------------------------
(***************************************************************************)
(* VideoCapture with small instances for TLC.                              *)
(***************************************************************************)
EXTENDS VideoCapture

\* Every method, and changes of the method between routines.
CommandLines ==
  {<<"f", "s">>, <<"u", "f">>, <<"f", "r", "f", "m", "f">>, <<"r", "s", "f">>}

=============================================================================
