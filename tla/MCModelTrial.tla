----------------------------- MODULE MCModelTrial -----------------------------
(* A small instance of ModelTrial for TLC. *)
EXTENDS ModelTrial

CONSTANTS t1, h1, h2

MCOneTrial == {t1}
MCHandlers == {h1, h2}
===============================================================================
