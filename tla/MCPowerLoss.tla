---------------------------- MODULE MCPowerLoss ----------------------------
(* The instance of PowerLoss that TLC checks. *)
EXTENDS PowerLossInv

\* Hosts with a resolv.conf, whose sysctl a session changes and that have no interface
\* with our name; the others are for the runs of Lifecycle.
PlainPowerInit ==
    /\ PowerInit
    /\ original.ipv6 = "0" /\ original.tun = NoTun /\ original.resolv.kind # "absent"

PlainPowerSpec == PlainPowerInit /\ [][PowerNext]_<<vars, diskVars>>

\* The disk is of no consequence once no power loss can come: no step reads it.  States
\* that differ in nothing else are explored once.
WhatMatters == IF faults > 0 THEN <<vars, diskVars>> ELSE <<vars>>
=============================================================================
