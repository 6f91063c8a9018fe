---------------------------- MODULE MCUdpServer ----------------------------
(* A server with a small table, a few client addresses and a short time.   *)
EXTENDS UdpServer

(* No definition tells two client addresses apart.                         *)
AddrSymmetry == Permutations(Addrs)

(* Arguments of "target": one client, and all but one.                     *)
MCTargets == {1, -2}
============================================================================
