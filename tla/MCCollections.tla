--------------------------- MODULE MCCollections ---------------------------
(* Small instances of Collections: the rows that the sources hold.         *)
EXTENDS Collections, TLC

SeqsUpTo(S, n) == UNION {[1..k -> S] : k \in 0..n}

Numbered(list) == [k \in DOMAIN list |-> list[k] @@ [id |-> k]]

Times == {0, 1, 3, 4}

Results(from, n) ==
    {[k \in DOMAIN ts |-> [id |-> from + k, time |-> ts[k]]] :
        ts \in SeqsUpTo(Times, n)}

Endpoint(id, match, results) == [id |-> id, match |-> match, results |-> results]

MCGatusReplies ==
    {<< >>}
    \cup {<<Endpoint(1, m, rs)>> : m \in {"key", "alias", "none"},
                                  rs \in Results(10, 3)}
    \cup {<<Endpoint(1, m, rs), Endpoint(2, n, qs)>> :
             m \in {"key", "alias", "none"}, n \in {"key", "alias", "none"},
             rs \in Results(10, 1), qs \in Results(20, 1)}

MCDockerReplies ==
    {Numbered(list) : list \in SeqsUpTo([named : BOOLEAN], 3)}

Stream(name, labels) == [name |-> name, labels |-> labels]

MCLokiSources ==
    {[lines |-> Numbered(list), streams |-> streams, honours |-> h] :
        list \in {l \in SeqsUpTo([stream : {1, 2}, time : {1, 3, 4, 5},
                                  usable : BOOLEAN], 3) :
                    \A j, k \in DOMAIN l : j < k => l[j].time >= l[k].time},
        streams \in {<<Stream(1, 1), Stream(2, 2)>>, <<Stream(1, 1), Stream(2, 1)>>},
        h \in BOOLEAN}

(* Bindings with and without a status, and no service at all.              *)
MCFilters ==
    [criteria : {{"tags"}}, status : {"", "up", "down"}]
    \cup {[criteria |-> {}, status |-> ""]}

MCHealthchecksReplies ==
    {[checks |-> Numbered(list), filter |-> f] :
        list \in SeqsUpTo([meets : SUBSET {"tags"},
                          state : {"up", "down", "grace"}], 2),
        f \in MCFilters}

MCNtfyReplies ==
    {[messages |-> Numbered(list), truncated |-> t] :
        list \in SeqsUpTo([mid : 0..2, time : {0, 1, 3}, message : BOOLEAN], 2)
                 \cup [1..3 -> [mid : 0..3, time : {3, 4}, message : {TRUE}]],
        t \in BOOLEAN}

MCWindows == {[start |-> 2, end |-> 4]}
=============================================================================
