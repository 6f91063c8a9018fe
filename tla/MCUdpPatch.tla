----------------------------- MODULE MCUdpPatch ----------------------------
EXTENDS UdpPatch, TLC

(* No atom, one atom, and two that do not fit into a byte.                 *)
MCLists == {<<>>, <<7>>, <<256, -1>>}

(* Nothing tells one descriptor or one port from another.                  *)
MCSymmetry == Permutations(Fds) \cup Permutations(Ports)
============================================================================
