--------------------------- MODULE MCEthernetPolicy ---------------------------
(***************************************************************************)
(* EthernetPolicy with the board's NIC and the BMC's gadget.               *)
(***************************************************************************)
EXTENDS EthernetPolicy

MCText == {"a", "b", "net", "bad"}
MCIp == {"a", "b", "net"}
MCUnicast == {<<"a", "net">>, <<"b", "net">>}

Entry(addr, mask, gw) ==
  [f \in StaticField |-> CASE f = "addr" -> addr [] f = "mask" -> mask [] f = "gw" -> gw]

MCBody == {
  [dhcp |-> "on", static |-> <<>>, servers |-> <<>>],
  [dhcp |-> "off", static |-> <<Entry("a", "net", "b")>>, servers |-> <<"a", "b">>],
  [dhcp |-> "empty", static |-> <<Unreadable>>, servers |-> <<>>],
  [dhcp |-> "absent", static |-> <<Entry("", "bad", "a")>>, servers |-> <<>>]}

Page(dhcp, addr, mask, gw, dns1, dns2) ==
  [q \in Question |->
     CASE q = "dhcp" -> dhcp [] q = "addr" -> addr [] q = "mask" -> mask
       [] q = "gw" -> gw [] q = "dns1" -> dns1 [] q = "dns2" -> dns2 [] OTHER -> ""]

MCSetupConfig == {Page("off", "", "net", "a", "", "b")}

\* Members as another firmware left them, one with a configuration of its own.
MCKnown == {Bare, [ver |-> 1, dhcp |-> "off", mac |-> "",
                   static |-> <<Entry("b", "net", "a")>>, servers |-> <<"b">>]}

\* A static configuration made in the native form.
MCOwnIp4 == {[f \in Ip4Field |->
                CASE f = "dhcp" -> "off" [] f = "mask" -> "net" [] f \in {"dns1", "dns2"} -> ""
                  [] OTHER -> "b"]}
=============================================================================
