----------------------------- MODULE MCRequests -----------------------------
(* The small instances of Session, with the status a request began from. *)
EXTENDS MCSession, SessionRequests
=============================================================================
