------------------------- MODULE MCTransportAdapter -------------------------
(***************************************************************************)
(* Reads with and without a timeout of their own and writes, at the limits *)
(* of addresses, counts and timeouts.                                      *)
(***************************************************************************)
EXTENDS TransportAdapter

MCRequests ==
  [op : {"read"}, address : {0, 65411, 65412, 65535, 65536}, count : {0, 1, 125, 126},
   timeout : {None, 0, 2000, MaxTimeout}]
  \cup [op : {"write"}, address : {0, 65413, 65414, 65535}, count : {1, 2, 123, 124}, timeout : {None}]
=============================================================================
