------------------------------ MODULE MCDevices -------------------------------
(*****************************************************************************)
(* An instance of DevicesSuite for TLC.                                      *)
(*****************************************************************************)
EXTENDS DevicesSuite

\* One object of BlueZ is one device.
Own(p) == p

TwoSsids == "a1" :> "n1" @@ "a2" :> "n2"

\* No number, and numbers on both sides of every boundary of two and of four bits.
SourceNumbers == {-1000, -3, 2, 4, 20}

Rsn(t) == [oui |-> "rsn", type |-> t]
Wpa(t) == [oui |-> "wpa", type |-> t]
Other == [oui |-> "vendor", type |-> 2]

Absent == [there |-> FALSE, pairwise |-> <<>>, akm |-> <<>>]
Element(pairwise, akm) == [there |-> TRUE, pairwise |-> pairwise, akm |-> akm]
Config(privacy, rsn, wpa) == [privacy |-> privacy, rsn |-> rsn, wpa |-> wpa]

\* Access points of every generation, with one that differs from another only in
\* what its label does not show.
WifiConfigs ==
    {Config(FALSE, Absent, Absent),
     Config(TRUE, Absent, Absent),
     Config(TRUE, Element(<<Rsn(4)>>, <<Rsn(2)>>), Absent),
     Config(TRUE, Element(<<Rsn(4), Rsn(2)>>, <<Rsn(6), Rsn(4)>>), Absent),
     Config(TRUE, Element(<<Rsn(4)>>, <<Rsn(2), Rsn(9)>>), Element(<<Wpa(2)>>, <<Wpa(1)>>)),
     Config(TRUE, Element(<<Other>>, <<Other, Rsn(3)>>), Absent)}

\* A wifi client that probes and associates, an access point, bluetooth devices that
\* change their address, one that does not, and two sensors with the same id.
Octets == "mac" :> 2 @@ "ap" :> 6 @@ "rpa1" :> 64 @@ "rpa2" :> 127 @@ "static" :> 219 @@ "public" :> 200

Ble(address, type) ==
    [kind |-> "bluetooth", payload |-> [frame_type |-> "advertisement", address |-> address, address_type |-> type]]
Named(address, type, name) ==
    [kind |-> "bluetooth", payload |-> [frame_type |-> "advertisement", address |-> address,
                                        address_type |-> type, name |-> name]]

AllFrames ==
    {[kind |-> "wifi", payload |-> [frame_type |-> "probe_request", src_mac |-> "mac"]],
     [kind |-> "wifi", payload |-> [frame_type |-> "association_request", src_mac |-> "mac", target_bssid |-> "ap"]],
     [kind |-> "wifi", payload |-> [frame_type |-> "beacon", bssid |-> "ap"]],
     Ble("rpa1", "random"), Named("rpa1", "random", "phone"), Named("rpa2", "random", "phone"),
     Ble("static", "random"), Named("public", "public", "phone")}
        \cup {[kind |-> k, payload |-> [id |-> "7"]] : k \in {"tpms", "subghz"}}
=============================================================================
