------------------------------ MODULE MCRacInit ------------------------------
EXTENDS RacInit

AllGraphs == {g \in [Units -> SUBSET Units] : \A u \in Units : u \in {1, N} \/ u \notin g[u]}

\* Every dependency graph, over units that start no process.
Orders == [deps : AllGraphs, kind : {[u \in Units |-> "none"]}, restart : {[u \in Units |-> "no"]}]

\* Two services, the second after the first and kept alive.
Services ==
    [deps : {[u \in Units |-> IF u = 2 THEN {1} ELSE {}]},
     kind : {[u \in Units |-> IF u = 1 THEN "simple" ELSE IF u = 2 THEN k ELSE "none"] :
               k \in {"simple", "oneshot"}},
     restart : {[u \in Units |-> IF u = 1 THEN r ELSE IF u = 2 THEN "always" ELSE "no"] :
               r \in Policies}]

MCConfigs == Orders \cup Services

===============================================================================
