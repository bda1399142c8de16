---- MODULE MCAtomicOrders ----
(***************************************************************************)
(* The atomic order book on the small desks of MCDesk.                     *)
(***************************************************************************)
EXTENDS AtomicOrders, MCDesk
====
