---------------------------- MODULE MCHttp1Conn ----------------------------
(* Instances of Http1Conn for model checking.                             *)
EXTENDS Http1Conn, TLC
=============================================================================
