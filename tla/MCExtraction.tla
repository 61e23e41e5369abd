---- MODULE MCExtraction ----
\* TLC instance of Extraction.
EXTENDS Extraction, TLC

CONSTANTS e1, e2, u1, u2

\* e1 serves both URLs by itself; e2 has no host but accepts u2 when it is pinned.
OwnHosts == {e1} \X {u1, u2}
Taken == OwnHosts \cup {<<e2, u2>>}

\* A link without and one with a pin.
SomeLinks == {[url |-> u1, pin |-> NoExtractor], [url |-> u2, pin |-> e2]}

====
