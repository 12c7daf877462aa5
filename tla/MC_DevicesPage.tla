---------------------------- MODULE MC_DevicesPage ----------------------------
(* Two tabs, two devices and a bare alert id.  Page lengths 1 and 2 stand for  *)
(* the first two of 5, 7, 10 and 25, the simple tables' 5 and the page's own   *)
(* 7, so that three rows make up to three pages.                               *)
EXTENDS DevicesPage, TLC

CONSTANTS t1, t2, d1, d2, k1

MCTabs      == {t1, t2}
MCDevices   == {d1, d2}
MCAlertKeys == {k1}
MCMenu      == <<1, 2>>
MCOrders    == {"id", "status"}

Symmetry == Permutations(MCTabs) \cup Permutations(MCDevices)
=============================================================================
