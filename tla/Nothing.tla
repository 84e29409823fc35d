------------------------------ MODULE Nothing ------------------------------
(* What the program has no value for: Python's None, a row or an entry     *)
(* that is not there.  Shared by the modules that are reasoned about       *)
(* together.                                                               *)
CONSTANT None
=============================================================================
