---- MODULE MCOrderTransactions ----
(***************************************************************************)
(* Two or three workers on the small desks of MCDesk.  Keys and workers    *)
(* are interchangeable: no definition singles one out.                     *)
(***************************************************************************)
EXTENDS OrderTransactions, MCDesk

CONSTANTS w1, w2, w3

MCSymmetry == Permutations(Workers) \cup MCKeySymmetry
====
