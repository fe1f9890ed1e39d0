----------------------------- MODULE MCSession -----------------------------
(* Session on a small instance: a second channel that can meet what the      *)
(* first one left, and lines enough to open, answer and replace prompts.     *)
EXTENDS Session
=============================================================================
