---- MODULE MCCashLadder ----
(***************************************************************************)
(* Three products in two currencies and two markets, one market ahead of   *)
(* the session's clock, around the weekend of days 5 and 6.                *)
(***************************************************************************)
EXTENDS CashLadder, TLC

CONSTANTS near, twin, far, o1, o2

MCProducts == {near, twin, far}
MCMarket == [p \in MCProducts |-> IF p = far THEN "HK" ELSE "US"]
MCCurrency == [p \in MCProducts |-> IF p = twin THEN "HKD" ELSE "USD"]
MCCutoff == [p \in MCProducts |-> 2]
MCOffset == [p \in MCProducts |-> IF p = far THEN 1 ELSE 0]

Closed(us, hk) == [m \in {"US", "HK"} |-> IF m = "US" THEN us ELSE hk]

\* No holidays; a holiday on either side of the weekend; a market closed until
\* the second business day is the last one the query looks at.
MCCalendars ==
    {Closed({}, {7}), Closed({4}, {7, 8, 10}), Closed(4 .. 21, {}),
     Closed({7}, 4 .. 21)}

Row(p, type, s, t, dated) ==
    [product |-> p, type |-> type, amount |-> 2, status |-> s,
     submitted |-> t, dated |-> dated]
MCLoaded ==
    {Row(near, "CREATION", "PENDING", 9, TRUE),
     Row(far, "REDEMPTION", "CONFIRMED", 10, FALSE),
     Row(twin, "REDEMPTION", "SETTLED", 9, TRUE)}

\* Windows that end and that begin amid the settlement days, and a single day.
MCQueries == {<<3, 7>>, <<9, 15>>, <<7, 1>>}

Same == Permutations({o1, o2})
====
