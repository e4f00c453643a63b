---------------------------- MODULE MCDiscovery ----------------------------
EXTENDS Discovery, TLC

CONSTANTS netconfig, lldp, arp

MCKind == (netconfig :> "JSON") @@ (lldp :> "SWITCH") @@ (arp :> "ARP")
=============================================================================
