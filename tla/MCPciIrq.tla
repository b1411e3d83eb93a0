------------------------------ MODULE MCPciIrq ------------------------------
(* Instance of PciIrq: the wiring of the interrupt lines. *)
EXTENDS PciIrq, TLC

CONSTANTS i1, i2, g1, g2

\* Each device has an input of its own.
OwnLines == i1 :> g1 @@ i2 :> g2
=============================================================================
