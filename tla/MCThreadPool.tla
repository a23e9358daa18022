----------------------------- MODULE MCThreadPool -----------------------------
(* ThreadPool for TLC; the constants are given in the .cfg. *)
EXTENDS ThreadPool
===============================================================================
