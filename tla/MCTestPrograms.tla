--------------------------- MODULE MCTestPrograms ---------------------------
(* Narrow words, a few counter values, and calls on two buffers of eight    *)
(* bytes, for TLC.                                                          *)
EXTENDS TestPrograms

MCCounts == {<<7, 2>>, <<309, 100>>, <<99999999 \div 5, 12345>>, <<21000000, 4000000>>}
MCValues == {0, 9, 10, 105, 1757, 2147483647, -1, -10, -2147483647}

Words(Bytes) == [1 .. 4 -> Bytes]
HasNul(w)    == \E k \in 1 .. 4 : w[k] = 0
Nul          == <<0, 1, 2, 3>>
Full         == <<1, 3, 1, 2>>
Old          == <<3, 3, 3, 3, 3, 3, 3, 3>>

\* Addresses count from 0.
Ram(first, second) == [a \in 0 .. 15 |-> (first \o second)[a + 1]]

\* Strings of every word: it is the first one, or one follows it, or one comes before.
Strings(Bytes) == {w \o Nul : w \in Words(Bytes)}
                  \cup {Full \o w : w \in {v \in Words(Bytes) : HasNul(v)}}

Call(r, d, s, m, b, c) == [routine |-> r, dst |-> d, src |-> 8 + s, n |-> m, ram |-> Ram(b, c)]

MCCalls ==
    {Call("strcpy", 0, 0, 0, Old, c) : c \in Strings(0 .. 3)}
    \cup {Call("strcpy", 2, 0, 0, Old, w \o Nul) : w \in Words(0 .. 3)}
    \cup {Call("strcpy", d, 2, 0, Old, c) : d \in {0, 2}, c \in Strings({0, 2})}
    \cup {Call("strcmp", 0, 0, 0, b \o Nul, c \o Nul) : b \in Words({0, 1, 3}), c \in Words({0, 1, 3})}
    \cup {Call("strcmp", d, s, 0, b, c) :
             d \in {0, 3}, s \in {0, 3}, b \in Strings({0, 3}), c \in Strings({0, 3})}
    \cup {Call(r, d, 0, m, Old, Nul \o Full) : r \in {"memcpy", "memset"}, d \in {0, 3}, m \in 0 .. 5}
    \cup {Call("print", 0, 0, 0, Old, Old)}
=============================================================================
