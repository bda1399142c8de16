---- MODULE MCBlotterConsole ----
(***************************************************************************)
(* Two orders on two pages; filters for all of them, for the later one,    *)
(* and for those in the status they were created in.                       *)
(***************************************************************************)
EXTENDS BlotterConsole

MCOrders == {1, 2}
MCFilter(ks, fresh) == [orders |-> ks, fresh |-> fresh]
MCFilters == {MCFilter({1, 2}, FALSE), MCFilter({1, 2}, TRUE)}
====
