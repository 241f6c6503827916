--------------------------- MODULE MCCorpActions ---------------------------
(* Two symbols and three trading days.  Each calendar brings together the   *)
(* events whose order, repetition or competition for cash matters.          *)
EXTENDS CorpActions

Half(s) == [kind |-> "split", sym |-> s, num |-> 1, den |-> 2]
Pays(s, tax) == [kind |-> "dividend", sym |-> s, dps |-> 3, tax |-> tax]
Call(s, price, join) ==
    [kind |-> "rights", sym |-> s, num |-> 1, den |-> 1, price |-> price, join |-> join]
Gone(s, zero, price) == [kind |-> "delist", sym |-> s, zero |-> zero, price |-> price]

MCCalendars ==
    {<< <<>>, <<Half(1), Pays(1, TRUE), Half(1)>>, <<Gone(1, FALSE, 2)>> >>,
     << <<>>, <<Call(1, 2, TRUE), Call(2, 2, TRUE)>>, <<Half(1), Pays(2, TRUE)>> >>,
     << <<>>, <<Pays(1, FALSE), Call(1, 3, FALSE), Call(2, 9, TRUE)>>, <<Gone(2, TRUE, 0)>> >>,
     << <<Gone(1, FALSE, 0)>>, <<Gone(1, FALSE, 2)>>, <<Pays(1, TRUE)>> >>,
     << <<>>, <<Call(1, 1, TRUE), Gone(1, FALSE, 2)>>, <<Pays(1, TRUE)>> >>}

MCOrders == {[sym |-> s, side |-> "buy", qty |-> 3, price |-> 2] : s \in Symbols}
            \cup {[sym |-> 1, side |-> "sell", qty |-> q, price |-> 2] : q \in {2, 3}}
MCDateOf == <<1, 20, 380>>
MCLotId == <<2, 1, 4, 3, 6, 5, 8, 7, 10, 9, 12, 11>>
=============================================================================
