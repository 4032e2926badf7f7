--------------------------- MODULE MCWanoPipeline ---------------------------
(***************************************************************************)
(* Plug-in lists for the model checker, in the order in which the pipeline *)
(* keeps them: by priority, then by name.                                  *)
(***************************************************************************)
EXTENDS WanoPipeline

IPv4 == {"ipv4"}
IPv6 == {"ipv6"}
Both == IPv4 \cup IPv6
All == Both \cup {"other"}

(* ethclient, vlan, pppoe, dhcpv4, dhcpv6 *)
DefaultMask == <<All, All, Both, IPv4, IPv6>>
DefaultSays == <<{"DETACH", "SKIP", "ABORT"}, {"SKIP", "BUSY", "RESERVED"},
                 {"SKIP", "OK_OWN"}, {"OK", "ERROR"}, {"OK", "SKIP"}>>

(* The default list meets what ExclusionCorrect and UplinkCorrect assume. *)
ASSUME DefaultInOrder == Mask = DefaultMask => MaskOrder /\ RestartsPlain

(* static_ipv4, cmts, dhcpv6 *)
MixedMask == <<IPv4, All, IPv6>>
MixedSays == <<{"SKIP", "ERROR", "OK"}, {"OK", "RESTART"}, {"SKIP", "OK"}>>

(* ethclient, dhcpv4 *)
SmallMask == <<All, IPv4>>
SmallSays == <<{"DETACH", "SKIP"}, {"OK"}>>
=============================================================================
