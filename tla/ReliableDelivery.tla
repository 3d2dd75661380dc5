-------------------------- MODULE ReliableDelivery --------------------------
(***************************************************************************)
(* What the forward path of a Sensor promises about its rows, whatever the *)
(* network does: a row is owed from the moment it is captured until it is  *)
(* acknowledged or expires, and it is acknowledged only after the          *)
(* Standalone settled it (stored it, or decided that it cannot be stored). *)
(* SensorForwarding is shown to implement this.                            *)
(***************************************************************************)
CONSTANT Rows

VARIABLES produced, \* rows captured so far
          owed,     \* rows still to be delivered
          acked,    \* rows known to be delivered
          settled   \* rows the Standalone has decided about

Init == produced = {} /\ owed = {} /\ acked = {} /\ settled = {}

\* A row is captured once, and owed from then on.
Produce ==
    /\ \E r \in Rows \ produced : produced' = produced \cup {r} /\ owed' = owed \cup {r}
    /\ UNCHANGED <<acked, settled>>

\* The Standalone settles a row that was captured.
Settle ==
    /\ \E r \in produced : settled' = settled \cup {r}
    /\ UNCHANGED <<produced, owed, acked>>

\* Settled rows are acknowledged; an acknowledged row is never owed again.
Acknowledge ==
    /\ \E R \in SUBSET (owed \cap settled) : owed' = owed \ R /\ acked' = acked \cup R
    /\ UNCHANGED <<produced, settled>>

\* Rows expire, delivered or not.
Expire ==
    /\ \E R \in SUBSET Rows : owed' = owed \ R /\ acked' = acked \ R
    /\ UNCHANGED <<produced, settled>>

Next == Produce \/ Settle \/ Acknowledge \/ Expire

Spec == Init /\ [][Next]_<<produced, owed, acked, settled>>
=============================================================================
