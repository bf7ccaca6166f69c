-------------------------- MODULE MCGroupOperation --------------------------
(* A group of two entries under each of the two programs that can own it.  *)
EXTENDS GroupOperation
=============================================================================
