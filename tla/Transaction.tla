---------------------------- MODULE Transaction ----------------------------
(***************************************************************************)
(* What outline-fedora promises about the host, without saying how: the    *)
(* host is changed only inside a transaction that began by saving it, and  *)
(* a transaction ends only when the host is as it was saved.               *)
(***************************************************************************)
CONSTANTS HostStates,
          None  \* no transaction is open; not a member of HostStates

VARIABLES
    host,   \* the present state of the host
    base,   \* the state its administrator gave it
    saved   \* the state saved by the open transaction, or None

txVars == <<host, base, saved>>

TxInit == host \in HostStates /\ base = host /\ saved = None

\* The administrator changes the host; only while no transaction is open.
Edit ==
    /\ saved = None
    /\ base' \in HostStates /\ host' = base'
    /\ UNCHANGED saved

Begin == saved = None /\ saved' = host /\ UNCHANGED <<host, base>>

\* Inside a transaction anything may happen to the host.
Mutate == saved # None /\ host' \in HostStates /\ UNCHANGED <<base, saved>>

End == saved # None /\ host = saved /\ saved' = None /\ UNCHANGED <<host, base>>

TxNext == Edit \/ Begin \/ Mutate \/ End

TxSpec == TxInit /\ [][TxNext]_txVars
=============================================================================
