----------------------------- MODULE MCLogStream -----------------------------
(***************************************************************************)
(* LogStream with two readers and channels smaller than the log.           *)
(***************************************************************************)
EXTENDS LogStream
=============================================================================
