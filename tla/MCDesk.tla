---- MODULE MCDesk ----
(***************************************************************************)
(* Values for the constants of TradeDesk: one product with a QDII quota    *)
(* and one without, a day of three instants whose last is past the cutoff. *)
(***************************************************************************)
EXTENDS TradeDesk, TLC

CONSTANTS qdii, plain, k1, k2

MCBoth == {qdii, plain}
MCQdii == {qdii}
MCKeys == {k1, k2}
MCTotal == [p \in Products |-> IF p = qdii THEN 2 ELSE 0]
MCCutoff == [p \in Products |-> 2]
MCOffset == [p \in Products |-> 0]
\* The market of qdii is one instant ahead of the database session's day.
MCAhead == [p \in Products |-> IF p = qdii THEN 1 ELSE 0]

Pay(p, f, a) == [product |-> p, form |-> f, amount |-> a]
Seed(p, s, t, a) == NewOrder(p, s, t, a)

\* Two amounts that each fit the quota of 2 and exceed it together.
MCRacePayloads == {Pay(qdii, "ok", 1), Pay(qdii, "ok", 2)}
MCNoSeeds == {}

\* Every form, a zero amount, both products.
MCFormPayloads ==
    {Pay(qdii, "ok", 1), Pay(plain, "ok", 1), Pay(plain, "ok", 0), Pay(qdii, "ok", 0)}
        \cup {Pay(plain, f, 1) : f \in Forms}
MCBookPayloads == MCFormPayloads \cup {Pay(qdii, "ok", 2)}

\* Seeded orders, pending and confirmed and settled.
MCDeskPayloads == {Pay(qdii, "ok", 2), Pay(plain, "ok", 1)}
MCSeeds ==
    {Seed(qdii, "PENDING", 0, 1), Seed(plain, "CONFIRMED", 0, 1),
     Seed(plain, "SETTLED", 0, 1)}

MCKeySymmetry == Permutations(Keys)
====
