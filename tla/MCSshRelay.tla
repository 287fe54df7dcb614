------------------------------ MODULE MCSshRelay ------------------------------
(***************************************************************************)
(* Two Bridges of one device and one of another, whose credential disagrees*)
(* with theirs about the host key; two connections, of any of the devices. *)
(***************************************************************************)
EXTENDS SshRelay

CONSTANTS d1, d2, d3, n1, n2, g1, g2

MCNickOf == [d \in Dialers |-> IF d = d3 THEN n2 ELSE n1]
MCConfigOf == [d \in Dialers |-> IF d = d3 THEN g2 ELSE g1]
===============================================================================
