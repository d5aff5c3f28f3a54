------------------------------ MODULE WpaCtrl ------------------------------
(***************************************************************************)
(* The datagrams of the wpa_supplicant control interface, as the device    *)
(* (esp_wifi.c) builds and parses them and the mock daemon                 *)
(* (mock-wpa-supplicant.py) answers them.                                  *)
(***************************************************************************)
EXTENDS Integers, Sequences

CONSTANTS
    Creds,       \* values of the SSID and of the passphrase registers
    Subnets,     \* the /24 subnets of the addresses a STATUS reply can carry
    Aps,         \* access point records a STATUS reply can carry
    NetIds,      \* what atoi() reads from a reply to ADD_NETWORK
    DumpSizes,   \* numbers of parsable lines of a SCAN_RESULTS reply
    Nothing      \* 0 / empty in a register that holds a model value

ASSUME CredsAssumption  == Nothing \notin Creds
ASSUME SubnetAssumption == Nothing \notin Subnets
ASSUME ApsAssumption    == Nothing \notin Aps /\ "rssi" \notin Aps
ASSUME NetIdAssumption  == NetIds \subseteq Int /\ 0 \in NetIds
ASSUME DumpAssumption   == DumpSizes \subseteq Nat

CmdNames == {"ATTACH", "DETACH", "SCAN", "SCAN_RESULTS", "ADD_NETWORK",
             "SET_SSID", "SET_PSK", "SELECT_NETWORK", "DISABLE_NETWORK", "STATUS"}

\* SET_SSID and SET_PSK are the two SET_NETWORK commands the device builds.
Cmds == [cmd : CmdNames, id : NetIds \cup {-1}, val : Creds \cup {Nothing}]

Plain(c)      == [cmd |-> c, id |-> -1, val |-> Nothing]
OnNet(c, id)  == [cmd |-> c, id |-> id, val |-> Nothing]
Set(c, id, v) == [cmd |-> c, id |-> id, val |-> v]

\* Unsolicited "<3>CTRL-EVENT-..." datagrams.
CtrlEvents == {"EV_SCAN_RESULTS", "EV_CONNECTED", "EV_DISCONNECTED"}

\* "FAIL" is any other text as well: an event the device does not know is taken
\* for a reply.
Replies == [kind : {"OK", "FAIL"}]
             \cup [kind : {"ID"}, id : NetIds]
             \cup [kind : {"DUMP"}, n : DumpSizes]
             \cup [kind : {"STATUS"}, ip : Subnets \cup {Nothing}, ap : Aps]

Msgs == [kind : CtrlEvents] \cup Replies
=============================================================================
