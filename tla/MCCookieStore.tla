---- MODULE MCCookieStore ----
\* TLC instance of CookieStore.
EXTENDS CookieStore, TLC

CONSTANTS r1, r2

Site == <<"com", "site">>
Www == <<"com", "site", "www">>
Root == <<"">>
App == <<"app">>

Cookie(value, domain, path, expires) ==
    [name |-> "sid", value |-> value, dotted |-> FALSE, domain |-> domain, path |-> path,
     expires |-> expires, secure |-> path = App, sub |-> domain = Site]

\* A session is set, renewed for a while, deleted with a date in the past; a second
\* one of the same name belongs to a part of one host.
SomeCookies == {Cookie("old", Site, Root, Never), Cookie("new", Site, Root, 3),
                Cookie("gone", Site, Root, 1), Cookie("app", Www, App, Never)}

\* ... and deleted as servers commonly do.
AndEpoch == SomeCookies \cup {Cookie("gone", Site, Root, 0)}

\* As the curl backend writes it.
CurlLine == [Line(Cookie("old", Site, Root, Never)) EXCEPT !.dotted = TRUE]
CurlLines == {CurlLine}

\* As another process of this backend wrote it.
OtherLines == {Line(Cookie("other", Site, Root, Never))}

SomeUrls == {[host |-> Site, path |-> Root, secure |-> TRUE],
             [host |-> Www, path |-> <<"app", "x">>, secure |-> TRUE],
             [host |-> Www, path |-> App, secure |-> FALSE]}

Symmetry == Permutations({r1, r2})

====
