----------------------------- MODULE AlertOnce ------------------------------
(***************************************************************************)
(* What the dibs watcher promises the riders it texts: one message for a    *)
(* claim at most, and none once the claim has been given up and no message  *)
(* was on its way.                                                          *)
(***************************************************************************)
CONSTANTS Alerts

VARIABLES alert

AlertInit == alert = [a \in Alerts |-> "open"]

Tell(a)  == alert[a] = "open" /\ alert' = [alert EXCEPT ![a] = "told"]
Close(a) == alert[a] = "open" /\ alert' = [alert EXCEPT ![a] = "closed"]

AlertNext == \E a \in Alerts : Tell(a) \/ Close(a)

AlertSpec == AlertInit /\ [][AlertNext]_alert
=============================================================================
