---------------------------- MODULE MCDhcpLinkUp ----------------------------
(***************************************************************************)
(* The DHCP client with two servers when the link changes.                 *)
(***************************************************************************)
EXTENDS Dhcp

CONSTANTS s1, s2
MCOptions == {[lease |-> l, renew |-> NotGiven, rebind |-> NotGiven, mask |-> TRUE,
               router |-> TRUE] : l \in {6, SECS_MAX}}
=============================================================================
