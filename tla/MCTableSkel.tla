----------------------------- MODULE MCTableSkel -----------------------------
(* Instances of TableSkel for TLC: which operations the clients use. *)
EXTENDS TableSkel, TLC

CONSTANTS h1, h2, h3, k1, k2, v1, v2

HandlerSymmetry == Permutations(Handlers)

TwoHandlers   == {h1, h2}
ThreeHandlers == {h1, h2, h3}
OneKey    == {k1}
TwoKeys   == {k1, k2}
OneValue  == {v1}
TwoValues == {v1, v2}

Writers     == {"PUT", "DEL"}
PutSize     == {"PUT", "SIZE"}
\* Bounds: a behaviour ends when both monitors are broken, since nothing is claimed
\* of it then, and does not go on for ever with the stats broken.
OneWorks == broken # Monitors /\ ("stats" \in broken => executed \in 0..IntMax)
=============================================================================
