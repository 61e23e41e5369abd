---- MODULE MCSession ----
\* TLC instance of Session.
EXTENDS Session, TLC

CONSTANTS p, q

\* p has two mirrors, q one; the catalog has one of its own.
TwoAndOne == (p :> <<"a", "b">>) @@ (q :> <<"c">>)
Lists == {<<"d">>}

====
