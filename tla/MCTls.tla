-------------------------------- MODULE MCTls --------------------------------
(***************************************************************************)
(* A TLS connection and the one after it, for model checking.              *)
(***************************************************************************)
EXTENDS TlsConn
=============================================================================
