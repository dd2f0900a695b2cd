--------------------------- MODULE MCDe2Programs ---------------------------
(* A small network for TLC: 2x2 pooled planes, two filters, three classes. *)
EXTENDS De2Programs, TLC

\* Images of 6x6 pixels and the byte behind them, from extremes to a ramp.
Picture(f(_)) == [k \in 0 .. IMG * IMG |-> f(k)]
Bright(past)  == Picture(LAMBDA k : IF k = IMG * IMG THEN past ELSE 127)
Ramp(past)    == Picture(LAMBDA k : IF k = IMG * IMG THEN past ELSE (k * 11) % 128)
Stroke(past)  == Picture(LAMBDA k : IF k = IMG * IMG THEN past
                                    ELSE IF k % IMG = 3 THEN 127 ELSE (k \div IMG) * 5)
Dark(past)    == Picture(LAMBDA k : IF k = IMG * IMG THEN past ELSE 0)

Net(w(_), b(_), fw(_), fb(_)) ==
    [conv1_weights |-> [k \in 0 .. 9 * FILTERS - 1 |-> w(k)],
     conv1_bias    |-> [c \in Filters |-> b(c)],
     fc_weights    |-> [k \in 0 .. CLASSES * FLAT - 1 |-> fw(k)],
     fc_bias       |-> [k \in Classes |-> fb(k)]]

Pair(a, b) == (0 :> a) @@ (1 :> b)

\* Mixed signs; a score that is negative for some images.
Mixed   == Net(LAMBDA k : ((k * 37) % 200) - 97, LAMBDA c : 925 - 3000 * c,
               LAMBDA k : ((k * 53) % 255) - 127, LAMBDA k : 505 - 600 * k)
\* Weights at their largest, one score far below zero.
Extreme == Net(LAMBDA k : 127, LAMBDA c : 7011, LAMBDA k : 127 * ((k \div FLAT) - 1),
               LAMBDA k : 2429)
\* All classes tie, or all scores are negative.
Ties    == Net(LAMBDA k : 8 - k, LAMBDA c : -690, LAMBDA k : 1, LAMBDA k : -20)

MCWorlds ==
    {[net |-> Mixed,   images |-> Pair(Ramp(-128), Stroke(127))],
     [net |-> Extreme, images |-> Pair(Bright(-128), Ramp(0))],
     [net |-> Ties,    images |-> Pair(Stroke(-1), Dark(-128))]}

\* KEY[3] and the first switches; the switch after the last image selects none.
MCSwitches == {{3}, {3, 4}, {3, 5}, {4, 5}, {6}}
=============================================================================
