------------------------------- MODULE MCVisit -------------------------------
(* Small link structures: a chain, a loop through the start, a loop below it, *)
(* two ways to one group, links out of creation order, an empty subgroup.     *)
EXTENDS Visit

G(n, t) == [kind |-> "group", to |-> n, crt |-> t]
D(t) == [kind |-> "data", to |-> 9, crt |-> t]
S(t) == [kind |-> "soft", to |-> 9, crt |-> t]

MCGraphs == {
    1 :> <<G(2, 2), D(1)>>      @@ 2 :> <<D(3), G(3, 1)>> @@ 3 :> <<S(1)>>,
    1 :> <<D(1), G(2, 2)>>      @@ 2 :> <<G(1, 1), S(2)>> @@ 3 :> <<>>,
    1 :> <<G(2, 1), G(2, 2)>>   @@ 2 :> <<G(3, 2)>>       @@ 3 :> <<G(2, 1)>>,
    1 :> <<G(1, 2), G(3, 1)>>   @@ 2 :> <<>>              @@ 3 :> <<>>,
    1 :> <<D(2), S(3), D(1)>>   @@ 2 :> <<>>              @@ 3 :> <<>>,
    1 :> <<G(2, 2), G(3, 1)>>   @@ 2 :> <<G(3, 1)>>       @@ 3 :> <<D(1), G(2, 2)>>,
    1 :> <<>>                   @@ 2 :> <<>>              @@ 3 :> <<>> }
=============================================================================
