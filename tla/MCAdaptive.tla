------------------------------ MODULE MCAdaptive ------------------------------
(***************************************************************************)
(* AdaptiveFailover with shortened windows, over a grid *)
(* of measurements on both sides of the thresholds.                        *)
(***************************************************************************)
EXTENDS AdaptiveFailover

MCMetrics ==
    [latency : {15, 100, 150}, loss : {0, 30, 120}, jitter : {2, 9}, util : {25},
     risk : {0, 16, 30}, flaps : {0, 3}]

(* Too short for a trend, a fall, a rise.                                  *)
MCPasts ==
    {[entries |-> 1, total |-> 10000], [entries |-> 2, total |-> 20000],
     [entries |-> 5, total |-> 0]}
=============================================================================
