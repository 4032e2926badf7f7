--------------------------- MODULE MCOswConfsync ---------------------------
(***************************************************************************)
(* A radio with two access points, each off or on with one of two          *)
(* settings.                                                               *)
(***************************************************************************)
EXTENDS OswConfsync

Off == [on |-> FALSE, set |-> 1, mbss |-> 0]
On(s) == [on |-> TRUE, set |-> s, mbss |-> 0]
OnMbss(m) == [on |-> TRUE, set |-> 1, mbss |-> m]

AllOff == {[v \in Vifs |-> Off]}

PlainConfs == [Vifs -> {Off, On(1), On(2)}] \union {[v \in Vifs |-> OnMbss(1)]}

MbssConfs == [Vifs -> {On(1), OnMbss(1)}]
MbssBoots == {[v \in Vifs |-> On(1)]}
=============================================================================
