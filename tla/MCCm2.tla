------------------------------- MODULE MCCm2 -------------------------------
(***************************************************************************)
(* Which addresses answer, for the model checker.                          *)
(***************************************************************************)
EXTENDS Cm2

\* IPv6 does not get through, and of the IPv4 addresses only the first.
V4First == [host : Hosts, fam : {"v4"}, idx : {0}]

\* Of the IPv4 addresses only the last.
V4Last == [host : Hosts, fam : {"v4"}, idx : {MaxAddrs - 1}]
=============================================================================
