-------------------------- MODULE MCTokenAssemble --------------------------
(***************************************************************************)
(* TokenAssemble on every list of up to MaxAnswers of the records below,   *)
(* and on one long list in reverse order, the case with the most scans.    *)
(***************************************************************************)
EXTENDS TokenAssemble, FiniteSets

CONSTANTS MaxAnswers, LongChain

Digit(d) == 48 + d
Rr(a, b, ttl, size) == [type |-> TXT, ttl |-> ttl, rdlength |-> 4 + size,
                        tag |-> <<a, b>>, sep |-> COLON]

One      == Rr(48, 49, 3, 2)                        \* "01:.."
OneCopy  == Rr(48, 49, 1, 0)                        \* "01:", sooner to expire
OneLoose == Rr(49, 120, 2, 1)                       \* "1x:."
Two      == Rr(48, 50, 2, 1)                        \* "02:."
TwoSign  == Rr(PLUS, 50, 4, 0)                      \* "+2:"
Three    == Rr(48, 51, 1, 1)                        \* "03:."
MinusOne == Rr(MINUS, 49, 0, 1)                     \* "-1:."
Alias    == [Two EXCEPT !.type = 5, !.ttl = 0]      \* a CNAME among the answers
Short    == [One EXCEPT !.rdlength = 3, !.ttl = 0]  \* too short for a tag
NoColon  == [One EXCEPT !.sep = 46, !.ttl = 0]      \* "01."

Pieces == {One, OneCopy, OneLoose, Two, TwoSign, Three, MinusOne, Alias, Short, NoColon}

Reversed(n) == [i \in 1 .. n |-> LET k == n + 1 - i
                                 IN  Rr(Digit(k \div 10), Digit(k % 10), k % 4, k % 2)]

MCAnswers == UNION {[1 .. n -> Pieces] : n \in 1 .. MaxAnswers} \union {Reversed(LongChain)}

=============================================================================
