----------------------------- MODULE MCLogPages -----------------------------
(* Callers, setters and readers meet only in the queue and the table, so a  *)
(* behaviour has one kind of them with the producers, not their product.    *)
EXTENDS LogPages

CONSTANTS c1, c2, s1, s2, r1

Records(ids, seconds) == {[id |-> n, timestamp |-> t, level |-> IF n = 2 THEN 6 ELSE 0] :
                             n \in ids, t \in seconds}

MCMixes == {[clients |-> {c1, c2}, records |-> Records({1, 2}, {0})],
            [clients |-> {c1},     records |-> Records({1, 2, 3}, {0})],
            [clients |-> {s1, s2}, records |-> Records({2}, {0})],
            [clients |-> {r1},     records |-> Records({1, 2}, {0}) \union Records({1, 3}, {1})],
            [clients |-> {c1, s1}, records |-> Records({2}, {0})]}
=============================================================================
