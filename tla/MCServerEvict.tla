--------------------------- MODULE MCServerEvict ---------------------------
(* The sessions of one source address, one of which replaces another. *)
EXTENDS ServerSessions

OneAddress ==
  {[transport |-> "udp", arriving |-> Addresses, shown |-> {}, dataV2 |-> {FALSE},
    mayFail |-> {FALSE}, floating |-> {}, closes |-> FALSE, maxClients |-> 1,
    sessions |-> MaxSessions]}
=============================================================================
