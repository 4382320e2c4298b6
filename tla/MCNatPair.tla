----------------------------- MODULE MCNatPair -----------------------------
(***************************************************************************)
(* A small network for TLC: one client and one router, two hosts.  Records *)
(* of both directions, close enough in time to pair, too far apart, in the *)
(* wrong order, of a flow inside the LAN, and of one that shows a private  *)
(* address in WAN.  The router gives the client's flows a port of its own. *)
(***************************************************************************)
EXTENDS NatPair

CONSTANTS client, router, host1, host2

MCPrivate == {client}
MCPublic  == {host1, host2}

MCPorts   == {1, 2}

At(ip) == [ip |-> ip, port |-> IF ip = router THEN 2 ELSE 1]

Seen(scope, src, dst, first, last) ==
  [scope |-> scope, src |-> At(src), dst |-> At(dst), first |-> first,
   last |-> last]

MCInputs ==
  {Seen("LAN", client, host1, 1, 1), Seen("WAN", router, host1, 2, 3),
   Seen("LAN", client, host1, 5, 5), Seen("WAN", router, host1, 5, 5),
   Seen("LAN", host1, client, 2, 2), Seen("WAN", host1, router, 1, 1),
   Seen("LAN", client, client, 1, 1), Seen("WAN", router, host2, 1, 1),
   Seen("WAN", client, host1, 2, 2),
   Seen("WAN", router, host1, 0, 1)}
=============================================================================
