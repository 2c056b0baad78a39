------------------------------- MODULE SqlNull -------------------------------
(* NULL of a column and None of Python, for the modules that have it alike.  *)
CONSTANT NULL
=============================================================================
