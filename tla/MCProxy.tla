------------------------------- MODULE MCProxy -------------------------------
(***************************************************************************)
(* Proxy for TLC.  ListenSock is 3, the first descriptor after the         *)
(* standard streams; every run names the descriptors the kernel may hand   *)
(* out, the length of the table and the requests one read may complete.    *)
(***************************************************************************)
EXTENDS Proxy
=============================================================================
