---------------------------- MODULE MCSession ----------------------------
(* An administrator and another user share a browser tab. *)
EXTENDS Session
=============================================================================
