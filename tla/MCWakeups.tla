------------------------------ MODULE MCWakeups ------------------------------
(***************************************************************************)
(* Wakeups for TLC: a client and the server of its CONNECT, a tunnel or an *)
(* intercepted pair.                                                       *)
(***************************************************************************)
EXTENDS Wakeups

MCClientOf == <<1, 1, 3>>
MCConnected == {2}
=============================================================================
