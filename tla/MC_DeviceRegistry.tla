------------------------- MODULE MC_DeviceRegistry -------------------------
(* Two devices, one bare alert id, one id nobody knows, two requests. *)
EXTENDS DeviceRegistry, TLC

CONSTANTS d1, d2, k1, u1, r1, r2

MCDevices    == {d1, d2}
MCAlertKeys  == {k1}
MCUnknownIds == {u1}
MCRequests   == {r1, r2}
MCAllOps     == AllOps
MCWebOps     == WebToggles \cup {"webDetails", "apiIsActive"}

Symmetry == Permutations(MCDevices) \cup Permutations(MCRequests)
=============================================================================
