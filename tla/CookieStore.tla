---------------------------- MODULE CookieStore ----------------------------
(***************************************************************************)
(* CookieStore, the cookies of one session: concurrent requests read it    *)
(* when they are built and write it when their responses arrive, the host  *)
(* saves it as Netscape lines and restores it in another process, maybe    *)
(* with another backend.  Time is in seconds since the epoch.              *)
(***************************************************************************)
EXTENDS Naturals, FiniteSets, SequencesExt, Subsequences

CONSTANTS
    Requests,       \* requests that can be in flight at once
    Urls,           \* what they can go to: [host, path, secure]
    Cookies,        \* what servers can set
    ForeignLines,   \* lines another backend of the library saved
    Never,          \* expires = std::nullopt
    MaxCookies,     \* bound: cookies of one response
    MaxTime         \* bound of the clock

\* dotted: the domain is written with a leading dot; sub: it was given, not the host's.
IsCookie(c) ==
    /\ c = [name |-> c.name, value |-> c.value, dotted |-> c.dotted, domain |-> c.domain,
            path |-> c.path, expires |-> c.expires, secure |-> c.secure, sub |-> c.sub]
    /\ c.expires \in Nat \cup {Never}

ASSUME CookieStoreAssumption ==
    /\ \A c \in Cookies : IsCookie(c)
    /\ \A line \in ForeignLines : IsCookie(line) /\ line.expires \in Nat
    /\ MaxCookies \in Nat /\ MaxTime \in Nat \ {0} /\ Never \notin Nat

VARIABLES
    cookies,        \* cookies_, in the order they were first stored
    now,            \* the system clock
    sent,           \* the requests in flight
    arriving,       \* per request: what is left of its response to store
    lines,          \* the lines the host has saved
    latest,         \* history: per scope the cookie stored last
    saved           \* history: latest, when the lines were saved

jarVars == <<cookies, now, sent, arriving, lines, latest, saved>>

-----------------------------------------------------------------------------
(* The rules of one cookie.  A domain or host is the sequence of its labels *)
(* from the top-level one down, and dotted says that it is written with a   *)
(* leading dot; a path is the sequence of what stands between its slashes,  *)
(* so that the last one of "/app/" is "".                                   *)

IsExpired(cookie, time) == cookie.expires # Never /\ cookie.expires <= time

Identity(cookie) == <<cookie.name, cookie.dotted, cookie.domain, cookie.path>>

\* What a server means by "the same cookie": the dot is notation.
Scope(cookie) == <<cookie.name, cookie.domain, cookie.path>>

DomainMatches(cookie, host) ==
    /\ cookie.domain # <<>>
    /\ \/ host = cookie.domain
       \/ (cookie.sub \/ cookie.dotted) /\ IsPrefix(cookie.domain, host)

PathMatches(cookie, path) ==
    LET scope == cookie.path
        whole == IF path = <<>> THEN <<"">> ELSE path
    IN  \/ scope \in {<<>>, <<"">>}
        \/ IsPrefix(scope, whole)
        \/ Last(scope) = "" /\ IsPrefix(Front(scope), whole) /\ Len(whole) >= Len(scope)

Applies(cookie, url) ==
    /\ cookie.secure => url.secure
    /\ DomainMatches(cookie, url.host)
    /\ PathMatches(cookie, url.path)

-----------------------------------------------------------------------------
(* The operations, each under the store's mutex *)

\* A variant that takes cookies of one name for the same.
StoredByName(store, cookie) ==
    LET i == SelectInSeq(store, LAMBDA c : c.name = cookie.name)
    IN  IF i = 0 THEN Append(store, cookie) ELSE [store EXCEPT ![i] = cookie]

\* A variant that never replaces.
StoredAppending(store, cookie) == Append(store, cookie)

\* set()
Stored(store, cookie) ==
    LET i == SelectInSeq(store, LAMBDA c : Identity(c) = Identity(cookie))
    IN  IF i = 0 THEN Append(store, cookie) ELSE [store EXCEPT ![i] = cookie]

Pruned(store, time) == Entries(store, {i \in DOMAIN store : ~IsExpired(store[i], time)})

\* cookies_for(), which keeps the pruned store.
CookiesFor(store, url, time) ==
    LET alive == Pruned(store, time)
    IN  Entries(alive, {i \in DOMAIN alive : Applies(alive[i], url)})

\* to_netscape_line() and parse_netscape_line(): no expiry is written as 0.
Line(cookie) == [cookie EXCEPT !.expires = IF @ = Never THEN 0 ELSE @]
Parsed(line) == [line EXCEPT !.expires = IF @ = 0 THEN Never ELSE @]

\* serialize() and deserialize().
Written(store) == [i \in DOMAIN store |-> Line(store[i])]
Read(from) == [i \in DOMAIN from |-> Parsed(from[i])]

-----------------------------------------------------------------------------

AllCookies == Cookies \cup {Parsed(line) : line \in ForeignLines}

\* What the store can keep: saving loses that a cookie expired at the epoch.
Kept == AllCookies \cup {Parsed(Line(c)) : c \in AllCookies}

Scopes == {Scope(c) : c \in AllCookies}
NoCookie == [expires |-> 0]

\* Each scope's cookie once this one was stored.
Latest(known, cookie) == [known EXCEPT ![Scope(cookie)] = cookie]

Nothing == [s \in Scopes |-> NoCookie]

JarTypeOK ==
    /\ cookies \in Seq(Kept)
    /\ \A i, j \in DOMAIN cookies : Identity(cookies[i]) = Identity(cookies[j]) => i = j
    /\ now \in 1..MaxTime
    /\ sent \in SUBSET Requests
    /\ arriving \in [Requests -> BoundedSeq(Cookies, MaxCookies)]
    /\ lines \in Seq({Line(c) : c \in Kept})
    /\ latest \in [Scopes -> Kept \cup {NoCookie}]
    /\ saved \in [Scopes -> Kept \cup {NoCookie}]

JarInit ==
    /\ cookies = <<>>
    /\ now = 1
    /\ sent = {}
    /\ arriving = [r \in Requests |-> <<>>]
    /\ lines = <<>>
    /\ latest = Nothing
    /\ saved = Nothing

\* apply_cookies(): a request that brings a Cookie header of its own reads no jar.
Send(r, explicit) ==
    /\ r \notin sent
    /\ arriving[r] = <<>>
    /\ sent' = sent \cup {r}
    /\ cookies' = IF explicit THEN cookies ELSE Pruned(cookies, now)
    /\ UNCHANGED <<now, arriving, lines, latest, saved>>

\* The transport answers, with cookies to store or none.
Answer(r, response) ==
    /\ r \in sent
    /\ sent' = sent \ {r}
    /\ arriving' = [arriving EXCEPT ![r] = response]
    /\ UNCHANGED <<cookies, now, lines, latest, saved>>

\* harvest_cookies() stores them one at a time; others' steps come in between.
Harvest(r) ==
    /\ arriving[r] # <<>>
    /\ LET cookie == Head(arriving[r]) IN
        /\ cookies' = Stored(cookies, cookie)
        /\ latest' = Latest(latest, cookie)
    /\ arriving' = [arriving EXCEPT ![r] = Tail(@)]
    /\ UNCHANGED <<now, sent, lines, saved>>

\* The host: clear() ends the session, serialize() saves it.
Clear ==
    /\ cookies' = <<>>
    /\ latest' = Nothing
    /\ UNCHANGED <<now, sent, arriving, lines, saved>>

Save ==
    /\ lines' = Written(cookies)
    /\ saved' = latest
    /\ UNCHANGED <<cookies, now, sent, arriving, latest>>

\* deserialize(), of what this backend saved or another one.
Restore(from, known) ==
    /\ cookies' = Read(from)
    /\ latest' = known
    /\ UNCHANGED <<now, sent, arriving, lines, saved>>

\* The process ends; the lines are on disk.
Restart ==
    /\ cookies' = <<>>
    /\ latest' = Nothing
    /\ sent' = {}
    /\ arriving' = [r \in Requests |-> <<>>]
    /\ UNCHANGED <<now, lines, saved>>

Tick ==
    /\ now < MaxTime
    /\ now' = now + 1
    /\ UNCHANGED <<cookies, sent, arriving, lines, latest, saved>>

JarNext ==
    \/ \E r \in Requests :
        \/ \E explicit \in BOOLEAN : Send(r, explicit)
        \/ \E response \in BoundedSeq(Cookies, MaxCookies) : Answer(r, response)
        \/ Harvest(r)
    \/ Clear
    \/ Save
    \/ Restore(lines, saved)
    \/ \E line \in ForeignLines : Restore(<<line>>, Latest(Nothing, Parsed(line)))
    \/ Restart
    \/ Tick

JarSpec == JarInit /\ [][JarNext]_jarVars

-----------------------------------------------------------------------------
(* Properties *)

\* Whenever a request is built it carries, for its host, path and transport, the
\* cookies stored last that are still alive, and nothing else: none a server replaced
\* or expired, none twice, none from before clear(); and the same after a session was
\* saved and restored, also if cookies expired in the meantime.
RequestsCarryTheLatest ==
    \A url \in Urls :
        LET carried == CookiesFor(cookies, url, now)
            live == {c \in {latest[s] : s \in Scopes} : c # NoCookie /\ ~IsExpired(c, now)}
        IN  /\ ToSet(carried) = {c \in live : Applies(c, url)}
            /\ Len(carried) = Cardinality(ToSet(carried))

=============================================================================
