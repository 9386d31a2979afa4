----------------------------- MODULE MCAlertPolicy -----------------------------
(* AlertPolicy for TLC: figures of markets and preferences of a user. *)
EXTENDS AlertPolicy

\* Figures at their extremes and some in between: still, rising and falling prices,
\* two-sided and one-sided books, empty and deep ones; no external features, those
\* yet to be computed, and a poor or a rich consensus about a market at 20, 50 or 90.
SomeBooks == {<<49, 50>>, <<45, 55>>, <<30, 60>>, <<99, 0>>}
NoFeatures == {[external |-> x, mappings |-> 1, price |-> 50, forecasts |-> <<>>,
                quotes |-> <<>>, news |-> FALSE] : x \in {"unmapped", "blank"}}
SomeFeatures ==
    [external : {"computed"}, mappings : {1}, price : {20, 50, 90},
     forecasts : {<<-1>>, <<50>>, <<80>>},
     quotes : {<<>>, <<[probability |-> -1, odds |-> -300]>>}, news : BOOLEAN]
SomeSituations ==
    {[prices |-> p, bid |-> b[1], ask |-> b[2], liquidity |-> l, volume |-> v, bids |-> q,
      asks |-> 0, events |-> n, hours |-> 500, external |-> f.external,
      mappings |-> f.mappings, price |-> f.price, forecasts |-> f.forecasts,
      quotes |-> f.quotes, news |-> f.news] :
        p \in {<<>>, <<50, 0>>, <<30, 35, 40, 45, 50>>, <<60, 50, 40>>}, b \in SomeBooks, l \in {0, 10000},
        v \in {0, 30000}, q \in {0, 100}, n \in {0, 20}, f \in NoFeatures \cup SomeFeatures}
\* Over midnight, within a day, none; in the zone of the engine and in another one.
SomeRules == {r \in [enabled : BOOLEAN, start : {1, 5}, end : {1, 3}, zone : {0, 2},
                     critical : BOOLEAN, daytime : BOOLEAN] :
                 r.enabled \/ r.start # r.end}
=============================================================================
