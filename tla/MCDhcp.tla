------------------------------- MODULE MCDhcp -------------------------------
(***************************************************************************)
(* The DHCP client with periods of a few ticks and counters a few bits     *)
(* wide, in two settings.  "lease": two servers, three kinds of lease and  *)
(* an ageing lease, every call but a restart and a change of link.         *)
(* "retries": one server, every call, and an allocation that fails.        *)
(***************************************************************************)
EXTENDS Dhcp

CONSTANTS s1, s2
VARIABLE setting

\* A lease with everything given, an infinite one with only its time, and one
\* whose rebind period ends in the tick of the renewal.
MCOptions ==
  {[lease |-> 6, renew |-> NotGiven, rebind |-> NotGiven, mask |-> TRUE, router |-> TRUE],
   [lease |-> SECS_MAX, renew |-> NotGiven, rebind |-> NotGiven, mask |-> FALSE, router |-> FALSE],
   [lease |-> 8, renew |-> 0, rebind |-> 1, mask |-> TRUE, router |-> FALSE]}

MCOneOption == {[lease |-> 6, renew |-> NotGiven, rebind |-> NotGiven,
                 mask |-> TRUE, router |-> TRUE]}

R == INSTANCE Dhcp WITH Server <- {s1}, Options <- MCOneOption, ERR_MEM <- 1,
       Calls <- {"start", "restart", "stop", "release", "renew", "link_up"},
       TIMER_MAX <- 2, SECS_MAX <- 15, TRIES_MAX <- 2, SELECT_TRIES <- 1, REBIND_TRIES <- 1,
       AGE_MAX <- 0

MCInit == (setting = "lease" /\ Init) \/ (setting = "retries" /\ R!Init)
MCNext ==
  /\ UNCHANGED setting
  /\ (setting = "lease" /\ Next) \/ (setting = "retries" /\ R!Next)

\* sys_check_timeouts runs both timers for ever (module LwipTimers); nothing
\* is assumed of the servers.
MCSpec ==
  /\ MCInit /\ [][MCNext]_<<vars, setting>>
  /\ WF_vars(setting = "retries" /\ R!dhcp_fine_tmr)
  /\ WF_vars(setting = "retries" /\ R!dhcp_coarse_tmr)

-----------------------------------------------------------------------------
\* An interface that is up under a lease uses an address that its server
\* holds leased to this client, with the mask and the gateway of that lease,
\* whatever replies of earlier transactions arrive.
LeaseHeld == setting = "lease" => TypeOK /\ AddressGranted /\ OneLease

\* A client that has not renewed its lease when the rebind period ends no
\* longer counts on its server.
RebindInTime == setting = "lease" => RebindDue

\* Whatever is called, and with an allocation that fails, a client that waits
\* for an answer has a timeout running, and no request is repeated for ever:
\* with no answer at all the client gives up, or the rebind timer ends the
\* renewal (dhcp_timeout).
GivesUp ==
  /\ [](setting = "retries" => R!TypeOK /\ R!Retrying)
  /\ \A st \in Waiting : []<>(setting = "retries" => dhcp.state # st)
=============================================================================
