---------------------------- MODULE MCLinkTraffic ----------------------------
(***************************************************************************)
(* link_traffic alone, with links that rise, as in the configuration file  *)
(* that comes with the module (link_traff_conf.cfg.example).               *)
(***************************************************************************)
EXTENDS TrafficStats

MCTools     == {"link"}
MCLinkFiles == {<<[val |-> 0, name |-> "nix2"], [val |-> 1, name |-> "nix3"]>>}
MCProtocols == <<>>
=============================================================================
