---------------------------- MODULE MCTapDevice -----------------------------
EXTENDS TapDevice

Adapter(k, g, c, d, r) == [kind |-> k, guid |-> g, conn |-> c, desc |-> d, readable |-> r]

(* Two TAP adapters of one driver, one of them named; one half installed;    *)
(* Wintun; an Ethernet card with the name of the network; an unreadable one. *)
AdapterSet ==
    {Adapter("tap", "{1}", "vpn", "TAP-Windows", TRUE),
     Adapter("tap", "{2}", "empty", "TAP-Windows", TRUE),
     Adapter("tap", "empty", "empty", "TAP-Windows", TRUE),
     Adapter("tun", "{3}", "vpn", "Wintun", TRUE),
     Adapter("other", "{4}", "vpn", "Ethernet", TRUE),
     Adapter("tap", "{5}", "vpn", "TAP-Windows", FALSE)}
=============================================================================
