--------------------------- MODULE SessionProofs ---------------------------
EXTENDS Session, CookieStore, Inputs, AlgorithmProofs, SequenceTheorems, FunctionTheorems

-----------------------------------------------------------------------------
(***************************************************************************)
(* For any parsers, and any number of configs and logins, configs that are *)
(* derived, adopted, logged in, saved and restored in any order keep their *)
(* cookie sessions apart and name the right parser.                        *)
(*                                                                         *)
(* Jars: a config gets the jar of the one it is copied from, with its      *)
(* session and its parser, or none, and a new jar is one no config had, so *)
(* that whoever has a jar is of the parser its session was opened for.     *)
(* Headers: one entry names the parser and at most one is a credential, so *)
(* set() on one name leaves the other alone; what is saved is that one     *)
(* entry or none.                                                          *)
(***************************************************************************)

\* A name that has exactly one entry, with this value; a name that has no second entry.
Once(headers, name, value) ==
    \E i \in DOMAIN headers : Named(headers, name) = {i} /\ headers[i].value = value
AtMostOnce(headers, name) == \A i, j \in Named(headers, name) : i = j

ParserConfigs ==
    [parser : Parsers \cup {NoParser}, jar : Nat, headers : HeaderList,
     param : {None} \cup Logins, alt : Alts, session : Nat]

AuthStates ==
    [parser : Parsers \cup {NoParser}, cookie : {None} \cup DOMAIN logins,
     headers : HeaderList, param : {None} \cup Logins, alt : Alts]

Shape ==
    /\ configs \in Seq(ParserConfigs)
    /\ Len(configs) \in 1..MaxConfigs
    /\ jars \in Seq({None} \cup DOMAIN logins)
    /\ contexts \subseteq DOMAIN configs
    /\ state \in AuthStates
    /\ logins \in Seq(Parsers)
    /\ Len(logins) <= MaxLogins

\* What holds of each config's headers, and of those that were saved.
Proper(config) ==
    /\ config.parser # NoParser => Once(config.headers, Agent, config.parser)
    /\ AtMostOnce(config.headers, Authorization)

Saved ==
    /\ Len(state.headers) <= 1
    /\ \A i \in DOMAIN state.headers : state.headers[i].name = Authorization

\* Two configs with one jar are of one derivation and of one parser.
SharedJars ==
    \A j, k \in DOMAIN configs :
        configs[j].jar # None /\ configs[j].jar = configs[k].jar
            => configs[j].session = configs[k].session /\ configs[j].parser = configs[k].parser

SavedIsOwn == state.cookie # None => logins[state.cookie] = state.parser

IInv ==
    /\ Shape
    /\ \A k \in DOMAIN configs : configs[k].jar <= Len(jars) /\ Proper(configs[k])
    /\ SharedJars
    /\ CookiesAreOwn
    /\ Saved
    /\ SavedIsOwn

\* What a step must keep of the cookie sessions there are.
CookiesKept == \A k \in DOMAIN configs : CookieOf(k) # None => CookieOf(k)' # None

-----------------------------------------------------------------------------
(* Headers *)

\* Taking out entries of other names leaves what a name has.
LEMMA OtherEntriesStay ==
    ASSUME NEW X, NEW headers \in Seq(X), NEW I \in SUBSET DOMAIN headers, NEW name
    PROVE  /\ Entries(headers, I) \in Seq(X)
           /\ \A value : Named(headers, name) \subseteq I /\ Once(headers, name, value)
                           => Once(Entries(headers, I), name, value)
           /\ AtMostOnce(headers, name) => AtMostOnce(Entries(headers, I), name)
           /\ Named(headers, name) \cap I = {} => Named(Entries(headers, I), name) = {}
<1> DEFINE t == Entries(headers, I)
<1>0. PICK e : t \in Seq(X) /\ Places(e, t, headers, I)
  BY EntriesByIndex
<1>1. /\ e \in [DOMAIN t -> I]
      /\ \A i \in I : \E k \in DOMAIN t : e[k] = i
      /\ \A j, k \in DOMAIN t : e[j] = e[k] => j = k
      /\ \A k \in DOMAIN t : t[k] = headers[e[k]]
  BY <1>0 DEF Places
<1>2. t \in Seq(X)
  BY <1>0
<1> HIDE DEF t
<1>3. ASSUME NEW k \in DOMAIN t PROVE k \in Named(t, name) <=> e[k] \in Named(headers, name)
  BY <1>1 DEF Named
<1>4. ASSUME NEW value, Named(headers, name) \subseteq I, Once(headers, name, value)
      PROVE  Once(t, name, value)
  <2>1. PICK i \in DOMAIN headers : Named(headers, name) = {i} /\ headers[i].value = value
    BY <1>4 DEF Once
  <2>2. PICK k \in DOMAIN t : e[k] = i
    BY <1>1, <1>4, <2>1
  <2>3. t[k].value = value
    BY <1>1, <2>1, <2>2
  <2>4. Named(t, name) = {k}
    <3>1. Named(t, name) \subseteq DOMAIN t
      BY DEF Named
    <3> QED BY <1>1, <1>3, <2>1, <2>2, <3>1
  <2> QED BY <2>3, <2>4 DEF Once
<1>5. ASSUME AtMostOnce(headers, name) PROVE AtMostOnce(t, name)
  <2>1. Named(t, name) \subseteq DOMAIN t
    BY DEF Named
  <2> QED BY <1>1, <1>3, <1>5, <2>1 DEF AtMostOnce
<1>6. ASSUME Named(headers, name) \cap I = {} PROVE Named(t, name) = {}
  <2>1. Named(t, name) \subseteq DOMAIN t
    BY DEF Named
  <2> QED BY <1>1, <1>3, <1>6, <2>1
<1> QED BY <1>2, <1>4, <1>5, <1>6 DEF t

\* set() leaves one entry of its name, with the value, and every other name as it was.
LEMMA SetsOneName ==
    ASSUME NEW X, NEW headers \in Seq(X), NEW name, NEW value, Header(name, value) \in X
    PROVE  /\ Set(headers, name, value) \in Seq(X)
           /\ Once(Set(headers, name, value), name, value)
           /\ AtMostOnce(Set(headers, name, value), name)
           /\ GetAll(Set(headers, name, value), name) = <<Header(name, value)>>
           /\ \A other : other # name =>
                /\ \A v : Once(headers, other, v) => Once(Set(headers, name, value), other, v)
                /\ AtMostOnce(headers, other) => AtMostOnce(Set(headers, name, value), other)
<1> DEFINE I == DOMAIN headers \ Named(headers, name)
           t == Erase(headers, name)
           h == Header(name, value)
           u == Set(headers, name, value)
           n == Len(u)
<1>1. /\ I \in SUBSET DOMAIN headers /\ Named(headers, name) \cap I = {}
      /\ \A other : other # name => Named(headers, other) \subseteq I
  BY DEF Named
<1>2. /\ t \in Seq(X) /\ Named(t, name) = {}
      /\ \A other : other # name =>
           /\ \A v : Once(headers, other, v) => Once(t, other, v)
           /\ AtMostOnce(headers, other) => AtMostOnce(t, other)
  BY <1>1, OtherEntriesStay DEF Erase
<1>3. h \in X /\ h.name = name /\ h.value = value
  BY DEF Header
<1>4. u = Append(t, h)
  BY DEF Set
<1> HIDE DEF t, h, u, I
<1>5. /\ u \in Seq(X) /\ n = Len(t) + 1 /\ u[n] = h /\ n \in DOMAIN u /\ n \notin DOMAIN t
      /\ DOMAIN u = DOMAIN t \cup {n}
      /\ \A i \in DOMAIN t : u[i] = t[i]
  BY <1>2, <1>3, <1>4
<1> HIDE DEF n
<1>6. Named(u, name) = {n}
  BY <1>2, <1>3, <1>5 DEF Named
<1>7. \A other : other # name => Named(u, other) = Named(t, other)
  BY <1>3, <1>5 DEF Named
<1>8. Once(u, name, value) /\ AtMostOnce(u, name)
  BY <1>3, <1>5, <1>6 DEF Once, AtMostOnce
<1>9. GetAll(u, name) = <<h>>
  BY <1>5, <1>6, FewEntries DEF GetAll
<1>10. ASSUME NEW other, other # name
       PROVE  /\ \A v : Once(headers, other, v) => Once(u, other, v)
              /\ AtMostOnce(headers, other) => AtMostOnce(u, other)
  <2>1. Named(u, other) = Named(t, other)
    BY <1>7, <1>10
  <2>2. \A v : Once(t, other, v) => Once(u, other, v)
    BY <1>5, <2>1 DEF Once
  <2>3. AtMostOnce(t, other) => AtMostOnce(u, other)
    BY <2>1 DEF AtMostOnce
  <2> QED BY <1>2, <1>10, <2>2, <2>3
<1> QED BY <1>5, <1>8, <1>9, <1>10 DEF u, h

\* Nothing saved is restored by doing nothing, one header by set().
LEMMA SetsTheOne ==
    ASSUME NEW X, NEW headers, NEW other \in Seq(X), Len(other) <= 1
    PROVE  SetAll(headers, other)
             = IF other = <<>> THEN headers ELSE Set(headers, other[1].name, other[1].value)
<1> DEFINE Recursion(f) == f = [n \in 0..Len(other) |->
                IF n = 0 THEN headers ELSE Set(f[n - 1], other[n].name, other[n].value)]
           set == CHOOSE f : Recursion(f)
           once == Set(headers, other[1].name, other[1].value)
           g == [n \in 0..Len(other) |-> IF n = 0 THEN headers ELSE once]
<1>1. Recursion(g)
  <2>1. \A n \in 0..Len(other) : n = 0 \/ n = 1
    OBVIOUS
  <2>2. g[0] = headers
    OBVIOUS
  <2>3. \A n \in 0..Len(other) :
          g[n] = IF n = 0 THEN headers ELSE Set(g[n - 1], other[n].name, other[n].value)
    BY <2>1, <2>2
  <2>4. g = [n \in 0..Len(other) |-> g[n]]
    OBVIOUS
  <2> HIDE DEF g
  <2> QED BY <2>3, <2>4
<1>2. Recursion(set)
  <2> HIDE DEF Recursion, g
  <2> QED BY <1>1, Zenon
<1>3. SetAll(headers, other) = set[Len(other)]
  BY Zenon DEF SetAll
<1> HIDE DEF set
<1>4. CASE other = <<>>
  BY <1>2, <1>3, <1>4
<1>5. CASE other # <<>>
  <2>1. Len(other) = 1
    <3>1. Len(other) \in Nat /\ Len(other) # 0
      BY <1>5, EmptySeq
    <3>2. \A n \in Nat : n # 0 /\ n <= 1 => n = 1
      OBVIOUS
    <3> QED BY <3>1, <3>2
  <2>2. set[0] = headers /\ set[1] = Set(set[0], other[1].name, other[1].value)
    BY <1>2, <2>1
  <2> QED BY <1>3, <1>5, <2>1, <2>2
<1> QED BY <1>4, <1>5

-----------------------------------------------------------------------------
(* The invariant *)

\* The application's own context is fine, with a jar and without.
LEMMA InitInv == Init => IInv
<1> SUFFICES ASSUME Init PROVE IInv
  OBVIOUS
<1>1. <<>> \in HeaderList /\ Named(<<>>, Authorization) = {}
  BY DEF HeaderList, Named
<1>2. PICK first : /\ configs = <<first>>
                   /\ \/ first = [Config(NoParser) EXCEPT !.jar = 1] /\ jars = <<None>>
                      \/ first = Config(NoParser) /\ jars = <<>>
  BY DEF Init
<1>3. /\ first \in ParserConfigs /\ first.parser = NoParser /\ first.headers = <<>>
      /\ \/ first.jar = 1 /\ jars = <<None>>
         \/ first.jar = None /\ jars = <<>>
  BY <1>1, <1>2 DEF Config, ParserConfigs, None, Alts
<1>4. Proper(first)
  BY <1>1, <1>3 DEF Proper, AtMostOnce
<1>5. contexts = {1} /\ logins = <<>> /\ state = NoState
  BY DEF Init
<1>6. /\ configs \in Seq(ParserConfigs) /\ Len(configs) = 1 /\ configs[1] = first
      /\ DOMAIN configs = {1}
  BY <1>2, <1>3
<1>7. /\ jars \in Seq({None} \cup DOMAIN logins) /\ Len(jars) \in Nat
      /\ first.jar <= Len(jars) /\ (first.jar # None => jars[first.jar] = None)
      /\ logins \in Seq(Parsers) /\ Len(logins) = 0
  <2>1. <<>> \in Seq(Parsers) /\ Len(<<>>) = 0 /\ Len(<<None>>) = 1 /\ <<None>>[1] = None
    OBVIOUS
  <2>2. <<>> \in Seq({None} \cup DOMAIN logins) /\ <<None>> \in Seq({None} \cup DOMAIN logins)
    <3> DEFINE X == {None} \cup DOMAIN logins
    <3>1. None \in X
      OBVIOUS
    <3> HIDE DEF X
    <3>2. <<>> \in Seq(X) /\ <<None>> \in Seq(X)
      BY <3>1
    <3> QED BY <3>2 DEF X
  <2>3. CASE first.jar = 1 /\ jars = <<None>>
    <3> HIDE DEF None
    <3> QED BY <1>5, <2>1, <2>2, <2>3
  <2>4. CASE first.jar = None /\ jars = <<>>
    BY <1>5, <2>1, <2>2, <2>4 DEF None
  <2> QED BY <1>3, <2>3, <2>4
<1>8. state \in AuthStates /\ state.headers = <<>> /\ state.cookie = None
  BY <1>1, <1>5 DEF NoState, State, AuthStates, Alts
<1>9. Len(state.headers) = 0 /\ DOMAIN state.headers = {}
  BY <1>8
<1>10. CookieOf(1) = None
  BY <1>6, <1>7 DEF CookieOf
<1>11. Shape
  BY <1>5, <1>6, <1>7, <1>8, SessionAssumption DEF Shape
<1>12. SharedJars /\ CookiesAreOwn
  BY <1>6, <1>10 DEF SharedJars, CookiesAreOwn
<1> QED
  BY <1>4, <1>6, <1>7, <1>8, <1>9, <1>11, <1>12 DEF IInv, Saved, SavedIsOwn

\* The logins only get more.
MoreLogins ==
    /\ logins' \in Seq(Parsers) /\ Len(logins') <= MaxLogins
    /\ DOMAIN logins \subseteq DOMAIN logins'
    /\ \A l \in DOMAIN logins : logins'[l] = logins[l]

\* The session a config has is a login.
LEMMA CookieIs ==
    ASSUME IInv, NEW k \in DOMAIN configs
    PROVE  CookieOf(k) \in {None} \cup DOMAIN logins
<1>1. /\ configs[k].jar \in Nat /\ configs[k].jar <= Len(jars)
      /\ jars \in Seq({None} \cup DOMAIN logins)
  <2>1. /\ configs \in Seq(ParserConfigs) /\ jars \in Seq({None} \cup DOMAIN logins)
        /\ configs[k].jar <= Len(jars)
    BY DEF IInv, Shape
  <2>2. configs[k] \in ParserConfigs
    BY <2>1
  <2> QED BY <2>1, <2>2 DEF ParserConfigs
<1>2. configs[k].jar # None => configs[k].jar \in 1..Len(jars)
  BY <1>1 DEF None
<1> QED BY <1>1, <1>2 DEF CookieOf

\* A config is added that has no jar, or the jar, the session and the parser of another one.
LEMMA ConfigAdded ==
    ASSUME IInv, NEW new \in ParserConfigs, Proper(new),
           new.jar = None \/ \E c \in DOMAIN configs :
                               /\ new.jar = configs[c].jar /\ new.session = configs[c].session
                               /\ new.parser = configs[c].parser,
           configs' = Append(configs, new), Len(configs) < MaxConfigs,
           UNCHANGED <<jars, contexts, state>>, MoreLogins
    PROVE  IInv' /\ CookiesKept
<1> DEFINE n == Len(configs) + 1
<1>1. /\ configs' \in Seq(ParserConfigs) /\ Len(configs') = n /\ n \in 1..MaxConfigs
      /\ configs'[n] = new /\ n \notin DOMAIN configs
      /\ DOMAIN configs' = DOMAIN configs \cup {n}
      /\ \A k \in DOMAIN configs : configs'[k] = configs[k]
  BY SessionAssumption DEF IInv, Shape
<1> HIDE DEF n
<1>2. Shape'
  <2>1. jars' \in Seq({None} \cup DOMAIN logins')
    <3>1. jars \in Seq({None} \cup DOMAIN logins)
      BY DEF IInv, Shape
    <3> QED BY <3>1, SeqMonotonic DEF MoreLogins
  <2>2. state' \in AuthStates'
    BY DEF IInv, Shape, AuthStates, MoreLogins
  <2>3. contexts' \subseteq DOMAIN configs'
    BY <1>1 DEF IInv, Shape
  <2> QED BY <1>1, <2>1, <2>2, <2>3 DEF Shape, MoreLogins
<1>3. \A k \in DOMAIN configs' : configs'[k].jar <= Len(jars') /\ Proper(configs'[k])
  <2>1. new.jar <= Len(jars)
    BY DEF IInv, Shape, None
  <2> QED BY <1>1, <2>1 DEF IInv
<1>4. SharedJars'
  BY <1>1 DEF IInv, SharedJars
<1>5. \A k \in DOMAIN configs : CookieOf(k)' = CookieOf(k)
  BY <1>1 DEF CookieOf
<1>6. CookiesAreOwn'
  <2> SUFFICES ASSUME NEW k \in DOMAIN configs', CookieOf(k)' # None
               PROVE  logins'[CookieOf(k)'] = configs'[k].parser
    BY DEF CookiesAreOwn
  <2>1. PICK c \in DOMAIN configs : CookieOf(k)' = CookieOf(c) /\ configs'[k].parser = configs[c].parser
    <3>1. CASE k \in DOMAIN configs
      BY <1>1, <1>5, <3>1
    <3>2. CASE k = n
      <4>1. new.jar # None
        BY <1>1, <3>2 DEF CookieOf
      <4>2. PICK c \in DOMAIN configs : new.jar = configs[c].jar /\ new.parser = configs[c].parser
        BY <4>1
      <4> QED BY <1>1, <3>2, <4>2 DEF CookieOf
    <3> QED BY <1>1, <3>1, <3>2
  <2>2. CookieOf(c) \in DOMAIN logins /\ logins[CookieOf(c)] = configs[c].parser
    BY <2>1, CookieIs DEF IInv, CookiesAreOwn
  <2> QED BY <2>1, <2>2 DEF MoreLogins
<1>7. Saved' /\ SavedIsOwn'
  <2>1. state.cookie \in {None} \cup DOMAIN logins
    BY DEF IInv, Shape, AuthStates
  <2> QED BY <2>1 DEF IInv, Saved, SavedIsOwn, MoreLogins
<1> QED BY <1>2, <1>3, <1>4, <1>5, <1>6, <1>7 DEF IInv, CookiesKept

\* A jar has a new session: one of the parser of a config that has the jar.
NewCookie(k, cookie) ==
    IF configs[k].jar = None \/ cookie = None THEN jars ELSE [jars EXCEPT ![configs[k].jar] = cookie]

\* Every config still has a session for its own parser then, and none has lost the one it had.
LEMMA CookieStored ==
    ASSUME IInv, NEW k \in DOMAIN configs, MoreLogins,
           NEW cookie \in {None} \cup DOMAIN logins',
           cookie # None => logins'[cookie] = configs[k].parser,
           jars' = NewCookie(k, cookie),
           DOMAIN configs' = DOMAIN configs,
           \A j \in DOMAIN configs : /\ configs'[j].jar = configs[j].jar
                                     /\ configs'[j].parser = configs[j].parser
    PROVE  /\ jars' \in Seq({None} \cup DOMAIN logins') /\ Len(jars') = Len(jars)
           /\ CookiesAreOwn' /\ CookiesKept
<1> DEFINE X == {None} \cup DOMAIN logins'
<1>1. jars \in Seq(X) /\ jars \in Seq({None} \cup DOMAIN logins)
  <2>1. jars \in Seq({None} \cup DOMAIN logins)
    BY DEF IInv, Shape
  <2> QED BY <2>1, SeqMonotonic DEF MoreLogins
<1>2. \A j \in DOMAIN configs : configs[j].jar \in Nat /\ configs[j].jar <= Len(jars)
  <2> TAKE j \in DOMAIN configs
  <2>1. configs \in Seq(ParserConfigs) /\ configs[j].jar <= Len(jars)
    BY DEF IInv, Shape
  <2>2. configs[j] \in ParserConfigs
    BY <2>1
  <2> QED BY <2>1, <2>2 DEF ParserConfigs
<1>3. Len(jars) \in Nat
  BY <1>1
<1>4. \A j \in DOMAIN configs : configs[j].jar # None => configs[j].jar \in 1..Len(jars)
  BY <1>2, <1>3 DEF None
<1>5. /\ jars' \in Seq(X) /\ Len(jars') = Len(jars)
      /\ \A i \in 1..Len(jars) :
           jars'[i] = IF cookie # None /\ configs[k].jar = i THEN cookie ELSE jars[i]
  <2>1. CASE configs[k].jar = None \/ cookie = None
    BY <1>1, <1>3, <2>1 DEF NewCookie, None
  <2>2. CASE configs[k].jar # None /\ cookie # None
    <3>1. jars' = [jars EXCEPT ![configs[k].jar] = cookie] /\ configs[k].jar \in 1..Len(jars)
      BY <1>4, <2>2 DEF NewCookie
    <3> HIDE DEF X
    <3>2. cookie \in X
      BY DEF X
    <3> QED BY <1>1, <2>2, <3>1, <3>2, ExceptSeq
  <2> QED BY <2>1, <2>2
<1> HIDE DEF X
<1>6. ASSUME NEW j \in DOMAIN configs
      PROVE  CookieOf(j)' = IF cookie # None /\ configs[j].jar # None /\ configs[j].jar = configs[k].jar
                            THEN cookie ELSE CookieOf(j)
  BY <1>4, <1>5 DEF CookieOf
<1>7. CookiesAreOwn'
  <2> SUFFICES ASSUME NEW j \in DOMAIN configs, CookieOf(j)' # None
               PROVE  logins'[CookieOf(j)'] = configs[j].parser
    BY DEF CookiesAreOwn
  <2>1. CASE cookie # None /\ configs[j].jar # None /\ configs[j].jar = configs[k].jar
    <3>1. configs[j].parser = configs[k].parser
      BY <2>1 DEF IInv, SharedJars
    <3> QED BY <1>6, <2>1, <3>1
  <2>2. CASE ~(cookie # None /\ configs[j].jar # None /\ configs[j].jar = configs[k].jar)
    <3>1. CookieOf(j)' = CookieOf(j)
      BY <1>6, <2>2
    <3>2. CookieOf(j) \in DOMAIN logins /\ logins[CookieOf(j)] = configs[j].parser
      BY <3>1, CookieIs DEF IInv, CookiesAreOwn
    <3> QED BY <3>1, <3>2 DEF MoreLogins
  <2> QED BY <2>1, <2>2
<1>8. CookiesKept
  BY <1>6 DEF CookiesKept
<1> QED BY <1>5, <1>7, <1>8 DEF X

\* A config is changed, but for its jar, its session and its parser; its jar may get a
\* session of that parser.
LEMMA ConfigChanged ==
    ASSUME IInv, NEW k \in DOMAIN configs, NEW new \in ParserConfigs, Proper(new),
           new.jar = configs[k].jar, new.session = configs[k].session,
           new.parser = configs[k].parser,
           configs' = [configs EXCEPT ![k] = new],
           NEW cookie \in {None} \cup DOMAIN logins,
           cookie # None => logins[cookie] = configs[k].parser,
           jars' = NewCookie(k, cookie),
           UNCHANGED <<contexts, state, logins>>
    PROVE  IInv' /\ CookiesKept
<1>1. /\ configs' \in Seq(ParserConfigs) /\ Len(configs') = Len(configs)
      /\ DOMAIN configs' = DOMAIN configs
      /\ \A j \in DOMAIN configs : configs'[j] = IF j = k THEN new ELSE configs[j]
  BY DEF IInv, Shape
<1>2. /\ jars' \in Seq({None} \cup DOMAIN logins) /\ Len(jars') = Len(jars)
      /\ CookiesAreOwn' /\ CookiesKept
  <2>1. MoreLogins
    BY DEF IInv, Shape, MoreLogins
  <2>2. \A j \in DOMAIN configs : configs'[j].jar = configs[j].jar /\ configs'[j].parser = configs[j].parser
    BY <1>1
  <2> QED BY <1>1, <2>1, <2>2, CookieStored
<1>3. Shape'
  BY <1>1, <1>2 DEF IInv, Shape, AuthStates
<1>4. \A j \in DOMAIN configs' : configs'[j].jar <= Len(jars') /\ Proper(configs'[j])
  BY <1>1, <1>2 DEF IInv
<1>5. SharedJars'
  BY <1>1 DEF IInv, SharedJars
<1>6. Saved' /\ SavedIsOwn'
  BY DEF IInv, Saved, SavedIsOwn
<1> QED BY <1>2, <1>3, <1>4, <1>5, <1>6 DEF IInv

\* What a config is.
LEMMA ConfigIs ==
    ASSUME IInv, NEW k \in DOMAIN configs
    PROVE  /\ configs[k] \in ParserConfigs /\ Proper(configs[k])
           /\ configs[k].headers \in HeaderList /\ configs[k].jar \in 0..Len(jars)
<1>1. configs[k] \in ParserConfigs /\ Proper(configs[k]) /\ configs[k].jar <= Len(jars)
  BY DEF IInv, Shape
<1>2. Len(jars) \in Nat
  BY DEF IInv, Shape
<1> QED BY <1>1, <1>2 DEF ParserConfigs

\* set() of the parser's own header, or of a credential, keeps headers what they are.
LEMMA SetsProperly ==
    ASSUME NEW headers \in HeaderList
    PROVE  /\ \A p \in Parsers :
                /\ Set(headers, Agent, p) \in HeaderList
                /\ Once(Set(headers, Agent, p), Agent, p)
                /\ AtMostOnce(headers, Authorization)
                     => AtMostOnce(Set(headers, Agent, p), Authorization)
           /\ \A login \in Parsers \cup Logins :
                /\ Set(headers, Authorization, login) \in HeaderList
                /\ AtMostOnce(Set(headers, Authorization, login), Authorization)
                /\ \A p : Once(headers, Agent, p) => Once(Set(headers, Authorization, login), Agent, p)
<1> DEFINE X == [name : {Agent, Authorization}, value : Parsers \cup Logins]
<1>1. headers \in Seq(X) /\ HeaderList = Seq(X)
  BY DEF HeaderList
<1>2. Agent # Authorization
  BY DEF Agent, Authorization
<1>3. ASSUME NEW p \in Parsers PROVE Header(Agent, p) \in X
  BY DEF Header
<1>4. ASSUME NEW login \in Parsers \cup Logins PROVE Header(Authorization, login) \in X
  BY DEF Header
<1> HIDE DEF X
<1> QED BY <1>1, <1>2, <1>3, <1>4, SetsOneName

\* make_config() gives a config a name of its own and no jar.
LEMMA MakeConfigStep ==
    ASSUME IInv, NEW c \in contexts, NEW p \in Parsers, MakeConfig(p, c) PROVE IInv' /\ CookiesKept
<1>1. c \in DOMAIN configs
  BY DEF IInv, Shape
<1>2. configs[c] \in ParserConfigs /\ Proper(configs[c]) /\ configs[c].headers \in HeaderList
  BY <1>1, ConfigIs
<1> DEFINE new == Derived(p, configs[c])
           headers == Set(configs[c].headers, Agent, p)
<1>3. headers \in HeaderList /\ Once(headers, Agent, p) /\ AtMostOnce(headers, Authorization)
  BY <1>2, SetsProperly DEF Proper
<1>4. Len(configs) \in Nat
  BY DEF IInv, Shape
<1>5. /\ new \in ParserConfigs
      /\ new.parser = p /\ new.headers = headers /\ new.jar = None
  <2> HIDE DEF headers
  <2>1. new = [configs[c] EXCEPT !.jar = None, !.parser = p, !.headers = headers,
                                 !.session = Len(configs)]
    BY DEF Derived, headers
  <2> HIDE DEF new
  <2> QED BY <1>2, <1>3, <1>4, <2>1 DEF ParserConfigs, None
<1>6. /\ configs' = Append(configs, new) /\ Len(configs) < MaxConfigs
      /\ UNCHANGED <<jars, contexts, state, logins>>
  BY DEF MakeConfig
<1>7. MoreLogins
  BY <1>6 DEF IInv, Shape, MoreLogins
<1> HIDE DEF new, headers
<1>8. Proper(new)
  BY <1>3, <1>5 DEF Proper
<1> QED BY <1>5, <1>6, <1>7, <1>8, ConfigAdded

\* A login is for the parser of the context it is made in.
LEMMA OneMoreLogin ==
    ASSUME IInv, NEW c \in DOMAIN configs, NewLogin(c)
    PROVE  /\ MoreLogins /\ Len(logins') \in Logins
           /\ Len(logins') \in DOMAIN logins'
           /\ logins'[Len(logins')] = configs[c].parser
<1>1. /\ logins \in Seq(Parsers) /\ Len(logins) < MaxLogins /\ configs[c].parser \in Parsers
      /\ logins' = Append(logins, configs[c].parser)
  BY ConfigIs DEF IInv, Shape, NewLogin, ParserConfigs
<1>2. /\ logins' \in Seq(Parsers) /\ Len(logins') = Len(logins) + 1
      /\ DOMAIN logins \subseteq DOMAIN logins' /\ Len(logins') \in DOMAIN logins'
      /\ logins'[Len(logins')] = configs[c].parser
      /\ \A l \in DOMAIN logins : logins'[l] = logins[l]
  BY <1>1
<1> QED BY <1>1, <1>2, SessionAssumption DEF MoreLogins, Logins

\* A login by cookie changes the jar alone.
LEMMA CookieLoginStep ==
    ASSUME IInv, NEW c \in contexts, CookieLogin(c) PROVE IInv' /\ CookiesKept
<1>1. c \in DOMAIN configs /\ NewLogin(c)
  BY DEF IInv, Shape, CookieLogin
<1>2. /\ MoreLogins /\ Len(logins') \in Logins /\ Len(logins') \in DOMAIN logins'
      /\ logins'[Len(logins')] = configs[c].parser
  BY <1>1, OneMoreLogin
<1>3. configs' = configs /\ contexts' = contexts /\ state' = state
  BY DEF CookieLogin
<1>4. jars' = NewCookie(c, Len(logins'))
  BY <1>2 DEF CookieLogin, NewCookie, Logins, None
<1>5. /\ jars' \in Seq({None} \cup DOMAIN logins') /\ Len(jars') = Len(jars)
      /\ CookiesAreOwn' /\ CookiesKept
  BY <1>1, <1>2, <1>3, <1>4, CookieStored
<1>6. Shape'
  BY <1>2, <1>3, <1>5 DEF IInv, Shape, AuthStates, MoreLogins
<1>7. SharedJars' /\ Saved' /\ SavedIsOwn'
  <2>1. state.cookie \in {None} \cup DOMAIN logins
    BY DEF IInv, Shape, AuthStates
  <2> QED BY <1>2, <1>3, <2>1 DEF IInv, SharedJars, Saved, SavedIsOwn, MoreLogins
<1> QED BY <1>3, <1>5, <1>6, <1>7 DEF IInv

\* A booru login copies the config, jar and session included.
LEMMA BooruLoginStep ==
    ASSUME IInv, NEW c \in contexts, BooruLogin(c) PROVE IInv' /\ CookiesKept
<1>1. c \in DOMAIN configs /\ NewLogin(c)
  BY DEF IInv, Shape, BooruLogin
<1>2. MoreLogins /\ Len(logins') \in Logins
  BY <1>1, OneMoreLogin
<1>3. configs[c] \in ParserConfigs /\ Proper(configs[c])
  BY <1>1, ConfigIs
<1> DEFINE new == [configs[c] EXCEPT !.param = Len(logins')]
<1>4. /\ new \in ParserConfigs /\ new.jar = configs[c].jar /\ new.session = configs[c].session
      /\ new.headers = configs[c].headers /\ new.parser = configs[c].parser
  BY <1>2, <1>3 DEF ParserConfigs
<1>5. /\ configs' = Append(configs, new) /\ Len(configs) < MaxConfigs
      /\ UNCHANGED <<jars, contexts, state>>
  BY DEF BooruLogin
<1> HIDE DEF new
<1>6. Proper(new)
  BY <1>3, <1>4 DEF Proper
<1> QED BY <1>1, <1>2, <1>4, <1>5, <1>6, ConfigAdded

\* A login by token copies the config without its jar.
LEMMA TokenLoginStep ==
    ASSUME IInv, NEW c \in contexts, TokenLogin(c) PROVE IInv' /\ CookiesKept
<1>1. c \in DOMAIN configs /\ NewLogin(c)
  BY DEF IInv, Shape, TokenLogin
<1>2. MoreLogins /\ Len(logins') \in Logins
  BY <1>1, OneMoreLogin
<1>3. configs[c] \in ParserConfigs /\ Proper(configs[c]) /\ configs[c].headers \in HeaderList
  BY <1>1, ConfigIs
<1> DEFINE headers == Set(configs[c].headers, Authorization, Len(logins'))
           new == [configs[c] EXCEPT !.jar = None, !.session = Len(configs), !.headers = headers]
<1>4. /\ headers \in HeaderList /\ AtMostOnce(headers, Authorization)
      /\ \A p : Once(configs[c].headers, Agent, p) => Once(headers, Agent, p)
  BY <1>2, <1>3, SetsProperly
<1>5. Len(configs) \in Nat
  BY DEF IInv, Shape
<1>6. /\ configs' = Append(configs, new) /\ Len(configs) < MaxConfigs
      /\ UNCHANGED <<jars, contexts, state>>
  BY DEF TokenLogin
<1> HIDE DEF headers
<1>7. /\ new \in ParserConfigs /\ new.jar = None
      /\ new.headers = headers /\ new.parser = configs[c].parser
  BY <1>3, <1>4, <1>5 DEF ParserConfigs, None
<1> HIDE DEF new
<1>8. Proper(new)
  BY <1>3, <1>4, <1>7 DEF Proper
<1> QED BY <1>2, <1>6, <1>7, <1>8, ConfigAdded

\* Another mirror is written into the config.
LEMMA SetAltLinkStep ==
    ASSUME IInv, NEW c \in contexts, NEW alt \in Alts, SetAltLink(c, alt) PROVE IInv' /\ CookiesKept
<1>1. c \in DOMAIN configs
  BY DEF IInv, Shape
<1>2. configs[c] \in ParserConfigs /\ Proper(configs[c])
  BY <1>1, ConfigIs
<1> DEFINE new == [configs[c] EXCEPT !.alt = alt]
<1>3. /\ new \in ParserConfigs /\ new.jar = configs[c].jar /\ new.session = configs[c].session
      /\ new.headers = configs[c].headers /\ new.parser = configs[c].parser
  BY <1>2 DEF ParserConfigs
<1>4. configs' = [configs EXCEPT ![c] = new] /\ UNCHANGED <<jars, contexts, state, logins>>
  BY DEF SetAltLink
<1>5. jars' = NewCookie(c, None)
  BY <1>4 DEF NewCookie
<1> HIDE DEF new
<1>6. Proper(new)
  BY <1>2, <1>3 DEF Proper
<1> QED BY <1>1, <1>3, <1>4, <1>5, <1>6, ConfigChanged

\* A config is adopted with the jar it has, with a new one, or without.
LEMMA AdoptStep ==
    ASSUME IInv, NEW k \in DOMAIN configs, Adopt(k) PROVE IInv' /\ CookiesKept
<1>1. contexts' = contexts \cup {k} /\ UNCHANGED <<state, logins>>
  BY DEF Adopt
<1>2. CASE UNCHANGED <<configs, jars>>
  <2>1. Shape'
    BY <1>1, <1>2 DEF IInv, Shape, AuthStates
  <2>2. SharedJars' /\ Saved' /\ SavedIsOwn' /\ CookiesAreOwn' /\ CookiesKept
    BY <1>1, <1>2 DEF IInv, SharedJars, Saved, SavedIsOwn, CookiesAreOwn, CookiesKept, CookieOf
  <2> QED BY <1>1, <1>2, <2>1, <2>2 DEF IInv
<1>3. ASSUME configs[k].jar = None, jars' = Append(jars, None),
             configs' = [configs EXCEPT ![k].jar = Len(jars')]
      PROVE  IInv' /\ CookiesKept
  <2>1. /\ jars' \in Seq({None} \cup DOMAIN logins) /\ Len(jars') = Len(jars) + 1
        /\ Len(jars) \in Nat /\ jars'[Len(jars')] = None
        /\ \A i \in 1..Len(jars) : jars'[i] = jars[i]
    BY <1>3 DEF IInv, Shape
  <2> DEFINE new == [configs[k] EXCEPT !.jar = Len(jars')]
  <2>2. configs[k] \in ParserConfigs /\ Proper(configs[k])
    BY ConfigIs
  <2>3. /\ new \in ParserConfigs /\ new.jar = Len(jars')
        /\ new.headers = configs[k].headers /\ new.parser = configs[k].parser
    BY <2>1, <2>2 DEF ParserConfigs
  <2>4. configs' = [configs EXCEPT ![k] = new]
    BY <1>3
  <2> HIDE DEF new
  <2>5. Proper(new)
    BY <2>2, <2>3 DEF Proper
  <2>6. /\ configs' \in Seq(ParserConfigs) /\ Len(configs') = Len(configs)
        /\ DOMAIN configs' = DOMAIN configs
        /\ \A j \in DOMAIN configs : configs'[j] = IF j = k THEN new ELSE configs[j]
    BY <2>3, <2>4 DEF IInv, Shape
  <2>7. Shape'
    BY <1>1, <2>1, <2>6 DEF IInv, Shape, AuthStates
  <2>8. \A j \in DOMAIN configs : configs[j].jar \in Nat /\ configs[j].jar <= Len(jars)
    BY ConfigIs, <2>1
  <2>9. \A j \in DOMAIN configs' : configs'[j].jar <= Len(jars') /\ Proper(configs'[j])
    BY <2>1, <2>3, <2>5, <2>6, <2>8 DEF IInv
  <2>10. ASSUME NEW j \in DOMAIN configs PROVE CookieOf(j)' = CookieOf(j)
    <3>1. CASE j = k
      BY <1>3, <2>1, <2>3, <2>6, <3>1 DEF CookieOf
    <3>2. CASE j # k
      <4>1. configs[j].jar # None => configs[j].jar \in 1..Len(jars)
        BY <2>1, <2>8 DEF None
      <4> QED BY <2>1, <2>6, <3>2, <4>1 DEF CookieOf
    <3> QED BY <3>1, <3>2
  <2>11. SharedJars'
    <3>1. \A j \in DOMAIN configs : configs[j].jar # new.jar
      BY <2>1, <2>3, <2>8
    <3> QED BY <2>6, <3>1 DEF IInv, SharedJars
  <2>12. CookiesAreOwn' /\ CookiesKept
    <3>1. \A j \in DOMAIN configs : configs'[j].parser = configs[j].parser
      BY <2>3, <2>6
    <3> QED BY <1>1, <2>6, <2>10, <3>1 DEF IInv, CookiesAreOwn, CookiesKept
  <2>13. Saved' /\ SavedIsOwn'
    BY <1>1 DEF IInv, Saved, SavedIsOwn
  <2> QED BY <2>7, <2>9, <2>11, <2>12, <2>13 DEF IInv
<1> QED BY <1>2, <1>3 DEF Adopt

\* What is saved is a credential or none.
LEMMA ExportAuthStep ==
    ASSUME IInv, NEW k \in DOMAIN configs, ExportAuth(k) PROVE IInv' /\ CookiesKept
<1>1. state' = Exported(k) /\ UNCHANGED <<configs, jars, contexts, logins>>
  BY DEF ExportAuth
<1>2. configs[k] \in ParserConfigs /\ Proper(configs[k]) /\ configs[k].headers \in HeaderList
      /\ configs[k].jar \in 0..Len(jars)
  BY ConfigIs
<1> DEFINE headers == configs[k].headers
           authorized == GetAll(headers, Authorization)
           cookie == CookieOf(k)
<1>3. authorized \in HeaderList /\ Len(authorized) <= 1 /\ \A i \in DOMAIN authorized : authorized[i].name = Authorization
  <2>1. CASE Named(headers, Authorization) = {}
    <3>1. authorized = <<>>
      BY <1>2, <2>1, FewEntries DEF GetAll, HeaderList
    <3>2. <<>> \in HeaderList /\ Len(<<>>) = 0 /\ DOMAIN <<>> = {}
      BY DEF HeaderList
    <3> HIDE DEF authorized
    <3> QED BY <3>1, <3>2
  <2>2. ASSUME NEW i \in Named(headers, Authorization)
        PROVE  authorized \in HeaderList /\ Len(authorized) <= 1
               /\ \A j \in DOMAIN authorized : authorized[j].name = Authorization
    <3>1. Named(headers, Authorization) = {i}
      BY <1>2 DEF Proper, AtMostOnce
    <3>2. i \in DOMAIN headers /\ headers[i].name = Authorization
      BY DEF Named
    <3>3. authorized = <<headers[i]>>
      BY <1>2, <3>1, <3>2, FewEntries DEF GetAll, HeaderList
    <3>4. <<headers[i]>> \in HeaderList
      <4> DEFINE X == [name : {Agent, Authorization}, value : Parsers \cup Logins]
      <4>1. headers \in Seq(X) /\ HeaderList = Seq(X)
        BY <1>2 DEF HeaderList
      <4> HIDE DEF X, headers
      <4>2. headers[i] \in X
        BY <3>2, <4>1
      <4> QED BY <4>1, <4>2
    <3> HIDE DEF authorized
    <3> QED BY <3>2, <3>3, <3>4
  <2> QED BY <2>1, <2>2
<1>4. /\ cookie \in {None} \cup DOMAIN logins
      /\ cookie # None => logins[cookie] = configs[k].parser
  BY CookieIs DEF IInv, CookiesAreOwn
<1> HIDE DEF headers, authorized, cookie
<1>5. /\ state' \in AuthStates /\ state'.headers = authorized
      /\ state'.cookie = cookie /\ state'.parser = configs[k].parser
  <2>1. state' = State(configs[k].parser, cookie, authorized, configs[k].param, configs[k].alt)
    BY <1>1 DEF Exported, headers, authorized, cookie
  <2> QED BY <1>2, <1>3, <1>4, <2>1 DEF State, AuthStates, ParserConfigs
<1>6. Shape'
  BY <1>1, <1>5 DEF IInv, Shape, AuthStates
<1>7. SharedJars' /\ CookiesAreOwn' /\ CookiesKept
  BY <1>1 DEF IInv, SharedJars, CookiesAreOwn, CookiesKept, CookieOf
<1>8. Saved' /\ SavedIsOwn'
  BY <1>1, <1>3, <1>4, <1>5 DEF Saved, SavedIsOwn
<1> QED BY <1>1, <1>6, <1>7, <1>8 DEF IInv

\* What is restored is set into the headers that are there.
LEMMA RestoredHeaders ==
    ASSUME IInv, NEW k \in DOMAIN configs
    PROVE  LET headers == SetAll(configs[k].headers, state.headers) IN
           /\ headers \in HeaderList
           /\ AtMostOnce(headers, Authorization)
           /\ \A p : Once(configs[k].headers, Agent, p) => Once(headers, Agent, p)
           /\ state.headers # <<>> => GetAll(headers, Authorization) = state.headers
<1> DEFINE X == [name : {Agent, Authorization}, value : Parsers \cup Logins]
           old == configs[k].headers
           authorized == state.headers
           headers == SetAll(old, authorized)
<1>1. old \in HeaderList /\ AtMostOnce(old, Authorization)
  BY ConfigIs DEF Proper
<1>2. /\ authorized \in HeaderList /\ Len(authorized) <= 1
      /\ \A i \in DOMAIN authorized : authorized[i].name = Authorization
  BY DEF IInv, Shape, AuthStates, Saved
<1> HIDE DEF old, authorized
<1>3. headers = IF authorized = <<>> THEN old ELSE Set(old, authorized[1].name, authorized[1].value)
  BY <1>2, SetsTheOne DEF HeaderList
<1>4. CASE authorized = <<>>
  <2> HIDE DEF headers
  <2> QED BY <1>1, <1>3, <1>4 DEF headers, authorized, old
<1>5. CASE authorized # <<>>
  <2>1. Len(authorized) = 1 /\ 1 \in DOMAIN authorized /\ authorized = <<authorized[1]>> /\ authorized[1] \in X
    <3>1. authorized \in Seq(X)
      BY <1>2 DEF HeaderList
    <3>2. Len(authorized) \in Nat /\ Len(authorized) # 0
      BY <1>5, <3>1, EmptySeq
    <3>3. \A n \in Nat : n # 0 /\ n <= 1 => n = 1
      OBVIOUS
    <3>4. Len(authorized) = 1
      BY <1>2, <3>2, <3>3
    <3> HIDE DEF X
    <3> QED BY <3>1, <3>4
  <2> DEFINE login == authorized[1].value
  <2>2. authorized[1].name = Authorization /\ login \in Parsers \cup Logins
        /\ authorized[1] = Header(Authorization, login)
    BY <1>2, <2>1 DEF Header
  <2>3. headers = Set(old, Authorization, login)
    BY <1>3, <1>5, <2>2
  <2> HIDE DEF login, headers
  <2>4. /\ headers \in HeaderList /\ AtMostOnce(headers, Authorization)
        /\ \A p : Once(old, Agent, p) => Once(headers, Agent, p)
    BY <1>1, <2>2, <2>3, SetsProperly
  <2>5. GetAll(headers, Authorization) = <<Header(Authorization, login)>>
    <3>1. Header(Authorization, login) \in X
      BY <2>2 DEF Header
    <3> HIDE DEF X
    <3>2. old \in Seq(X)
      BY <1>1 DEF HeaderList, X
    <3> QED BY <2>3, <3>1, <3>2, SetsOneName
  <2> QED BY <2>1, <2>2, <2>4, <2>5 DEF headers, old, authorized
<1> QED BY <1>4, <1>5

\* A saved session is restored into a config.
LEMMA ImportAuthStep ==
    ASSUME IInv, NEW k \in DOMAIN configs, ImportAuth(k)
    PROVE  /\ IInv' /\ CookiesKept
           /\ DOMAIN configs' = DOMAIN configs
           /\ configs'[k].jar = configs[k].jar
           /\ configs'[k].headers = SetAll(configs[k].headers, state.headers)
           /\ state.param # None => configs'[k].param = state.param
           /\ configs'[k].alt = state.alt
<1> DEFINE headers == SetAll(configs[k].headers, state.headers)
           param == IF state.param = None THEN configs[k].param ELSE state.param
           new == [configs[k] EXCEPT !.headers = headers, !.param = param, !.alt = state.alt]
<1>1. configs[k] \in ParserConfigs /\ Proper(configs[k]) /\ configs[k].jar \in 0..Len(jars)
  BY ConfigIs
<1>2. /\ headers \in HeaderList /\ AtMostOnce(headers, Authorization)
      /\ \A p : Once(configs[k].headers, Agent, p) => Once(headers, Agent, p)
  BY RestoredHeaders
<1>3. /\ state.param \in {None} \cup Logins /\ state.alt \in Alts
      /\ state.cookie \in {None} \cup DOMAIN logins
  BY DEF IInv, Shape, AuthStates
<1>4. configs' = [configs EXCEPT ![k] = new]
  <2>1. configs' = [configs EXCEPT ![k].headers = headers, ![k].param = param, ![k].alt = state.alt]
    BY DEF ImportAuth
  <2> HIDE DEF headers, param
  <2> QED BY <2>1 DEF IInv, Shape
<1>5. param \in {None} \cup Logins
  BY <1>1, <1>3 DEF ParserConfigs
<1> HIDE DEF headers
<1>6. state.param # None => param = state.param
  OBVIOUS
<1> HIDE DEF param
<1>7. /\ new \in ParserConfigs /\ new.jar = configs[k].jar /\ new.session = configs[k].session
      /\ new.headers = headers /\ new.parser = configs[k].parser
      /\ new.param = param /\ new.alt = state.alt
  BY <1>1, <1>2, <1>3, <1>5 DEF ParserConfigs
<1> HIDE DEF new
<1>8. Proper(new)
  BY <1>1, <1>2, <1>7 DEF Proper
<1>9. /\ jars' = NewCookie(k, state.cookie)
      /\ state.cookie # None => logins[state.cookie] = configs[k].parser
  BY DEF ImportAuth, NewCookie, IInv, SavedIsOwn
<1>10. UNCHANGED <<contexts, state, logins>>
  BY DEF ImportAuth
<1>11. IInv' /\ CookiesKept
  BY <1>3, <1>4, <1>7, <1>8, <1>9, <1>10, ConfigChanged
<1>12. DOMAIN configs' = DOMAIN configs /\ configs'[k] = new
  BY <1>4, <1>7 DEF IInv, Shape
<1> QED BY <1>6, <1>7, <1>11, <1>12 DEF headers

\* The invariant is preserved by every step.
LEMMA NextStep == IInv /\ [Next]_vars => IInv' /\ CookiesKept
<1> SUFFICES ASSUME IInv, [Next]_vars PROVE IInv' /\ CookiesKept
  OBVIOUS
<1>1. ASSUME NEW c \in contexts, NEW p \in Parsers, MakeConfig(p, c) PROVE IInv' /\ CookiesKept
  BY <1>1, MakeConfigStep
<1>2. ASSUME NEW c \in contexts, CookieLogin(c) \/ BooruLogin(c) \/ TokenLogin(c) PROVE IInv' /\ CookiesKept
  BY <1>2, CookieLoginStep, BooruLoginStep, TokenLoginStep
<1>3. ASSUME NEW c \in contexts, NEW alt \in Alts, SetAltLink(c, alt) PROVE IInv' /\ CookiesKept
  BY <1>3, SetAltLinkStep
<1>4. ASSUME NEW k \in DOMAIN configs, Adopt(k) \/ ExportAuth(k) \/ ImportAuth(k) PROVE IInv' /\ CookiesKept
  BY <1>4, AdoptStep, ExportAuthStep, ImportAuthStep
<1>5. CASE UNCHANGED vars
  BY <1>5 DEF vars, IInv, Shape, AuthStates, SharedJars, CookiesAreOwn, CookieOf, Saved, SavedIsOwn, CookiesKept
<1> QED BY <1>1, <1>2, <1>3, <1>4, <1>5 DEF Next

-----------------------------------------------------------------------------
(* The theorems *)

\* Configs, jars, contexts and saved sessions are what they should be.
THEOREM Typing == Spec => []TypeOK
<1>1. IInv => TypeOK
  <2> SUFFICES ASSUME IInv PROVE TypeOK
    OBVIOUS
  <2>1. \A k \in DOMAIN configs :
          /\ configs[k] \in ParserConfigs /\ configs[k].jar \in 0..Len(jars)
    BY ConfigIs
  <2> QED BY <2>1 DEF IInv, Shape, TypeOK, AuthStates, ParserConfigs
<1> QED BY InitInv, NextStep, <1>1, PTL DEF Spec

\* The one entry a request has of the parser's name is the config's, or the getter's own.
LEMMA NamesItsParser ==
    ASSUME NEW headers \in HeaderList, NEW p, Once(headers, Agent, p),
           NEW value, NEW own \in {<<>>, <<Header(Agent, value)>>}
    PROVE  GetAll(MergeMissing(own, headers), Agent)
             = IF own # <<>> THEN own ELSE <<Header(Agent, p)>>
<1> DEFINE X == [name : {Agent, Authorization}, value : Parsers \cup Logins]
           Y == X \cup {Header(Agent, value)}
           I == {i \in DOMAIN headers : ~HasHeader(own, headers[i].name)}
           t == Entries(headers, I)
<1>1. headers \in Seq(X) /\ headers \in Seq(Y)
  <2>1. headers \in Seq(X) /\ X \subseteq Y
    BY DEF HeaderList
  <2> HIDE DEF X, Y
  <2> QED BY <2>1, SeqMonotonic
<1>2. MergeMissing(own, headers) = own \o t
  BY DEF MergeMissing
<1>3. PICK i \in DOMAIN headers : Named(headers, Agent) = {i} /\ headers[i].value = p
  BY DEF Once
<1>4. CASE own = <<>>
  <2>1. \A j \in DOMAIN headers : ~HasHeader(own, headers[j].name)
    BY <1>4 DEF HasHeader, Named
  <2>2. I = DOMAIN headers
    BY <2>1
  <2>3. t \in Seq(X) /\ Once(t, Agent, p)
    <3>1. Named(headers, Agent) \subseteq I
      BY <1>3, <2>2
    <3> HIDE DEF X, I
    <3> QED BY <1>1, <2>2, <3>1, OtherEntriesStay
  <2> HIDE DEF t
  <2>4. own \o t = t
    BY <1>4, <2>3
  <2>5. PICK k \in DOMAIN t : Named(t, Agent) = {k} /\ t[k].value = p
    BY <2>3 DEF Once
  <2>6. t[k] = Header(Agent, p)
    <3>1. t[k] \in X
      <4> HIDE DEF X
      <4> QED BY <2>3, <2>5
    <3>2. t[k].name = Agent
      <4>1. k \in Named(t, Agent)
        BY <2>5
      <4> HIDE DEF X
      <4> QED BY <4>1 DEF Named
    <3> QED BY <2>5, <3>1, <3>2 DEF Header
  <2>7. GetAll(t, Agent) = <<t[k]>>
    BY <2>3, <2>5, FewEntries DEF GetAll
  <2> QED BY <1>2, <1>4, <2>4, <2>6, <2>7
<1>5. CASE own = <<Header(Agent, value)>>
  <2>1. Named(own, Agent) = {1} /\ own \in Seq(Y) /\ Len(own) = 1
    BY <1>5 DEF Named, Header
  <2>2. HasHeader(own, Agent)
    BY <2>1 DEF HasHeader
  <2>3. Named(headers, Agent) \cap I = {}
    BY <2>2 DEF Named
  <2>4. t \in Seq(Y) /\ Named(t, Agent) = {}
    <3>1. I \in SUBSET DOMAIN headers
      OBVIOUS
    <3> HIDE DEF Y, I
    <3> QED BY <1>1, <2>3, <3>1, OtherEntriesStay
  <2> HIDE DEF t, Y
  <2> DEFINE u == own \o t
  <2>5. /\ u \in Seq(Y) /\ DOMAIN u = 1..(1 + Len(t)) /\ Len(t) \in Nat
        /\ u[1] = own[1] /\ \A k \in DOMAIN u : k # 1 => k - 1 \in DOMAIN t /\ u[k] = t[k - 1]
    <3>1. /\ u \in Seq(Y) /\ Len(u) = 1 + Len(t) /\ Len(t) \in Nat
          /\ \A k \in 1..(1 + Len(t)) : u[k] = IF k <= 1 THEN own[k] ELSE t[k - 1]
      <4>1. own \in Seq(Y) /\ t \in Seq(Y)
        BY <2>1, <2>4
      <4>2. /\ own \o t \in Seq(Y) /\ Len(own \o t) = Len(own) + Len(t)
            /\ \A k \in 1..(Len(own) + Len(t)) :
                 (own \o t)[k] = IF k <= Len(own) THEN own[k] ELSE t[k - Len(own)]
        BY <4>1, ConcatProperties, Zenon
      <4> HIDE DEF u
      <4>3. Len(t) \in Nat
        BY <4>1
      <4> QED BY <2>1, <4>2, <4>3 DEF u
    <3> HIDE DEF u
    <3>2. DOMAIN u = 1..(1 + Len(t)) /\ DOMAIN t = 1..Len(t)
      BY <2>4, <3>1
    <3>3. 1 \in DOMAIN u /\ \A k \in DOMAIN u : k \in Nat /\ (k # 1 => k - 1 \in DOMAIN t /\ ~(k <= 1))
      BY <3>1, <3>2
    <3>4. u[1] = own[1] /\ \A k \in DOMAIN u : k # 1 => u[k] = t[k - 1]
      BY <3>1, <3>2, <3>3
    <3> QED BY <3>1, <3>2, <3>3, <3>4
  <2> HIDE DEF u
  <2>6. Named(u, Agent) = {1}
    <3>1. 1 \in Named(u, Agent)
      BY <2>1, <2>5 DEF Named
    <3>2. ASSUME NEW k \in Named(u, Agent), k # 1 PROVE FALSE
      BY <2>4, <2>5, <3>2 DEF Named
    <3> QED BY <3>1, <3>2
  <2>7. GetAll(u, Agent) = <<u[1]>>
    BY <2>5, <2>6, FewEntries DEF GetAll
  <2>8. own # <<>> /\ own = <<own[1]>>
    BY <1>5
  <2> QED BY <1>2, <2>5, <2>7, <2>8 DEF u
<1> QED BY <1>4, <1>5

\* However configs are derived, adopted with a jar or without, logged in, saved and restored,
\* two that stem from different derivations never have one cookie jar, the session a jar
\* holds was opened for the parser of everyone who has the jar, and each request names its
\* own parser once.
THEOREM SessionsAreSeparate == Spec => []SessionsStayApart
<1>1. IInv => SessionsStayApart
  <2> SUFFICES ASSUME IInv PROVE SessionsStayApart
    OBVIOUS
  <2>1. RequestsNameTheirParser
    <3> SUFFICES ASSUME NEW c \in contexts,
                        NEW own \in {<<>>, <<Header(Agent, "getter")>>},
                        configs[c].parser # NoParser
                 PROVE  GetAll(Configured(c, own), Agent)
                          = IF own # <<>> THEN own ELSE <<Header(Agent, configs[c].parser)>>
      BY DEF RequestsNameTheirParser
    <3>1. c \in DOMAIN configs
      BY DEF IInv, Shape
    <3>2. configs[c].headers \in HeaderList /\ Once(configs[c].headers, Agent, configs[c].parser)
      BY <3>1, ConfigIs DEF Proper
    <3>3. Configured(c, own) = MergeMissing(own, configs[c].headers)
      BY DEF Configured
    <3> QED BY <3>2, <3>3, NamesItsParser
  <2>2. JarsAreSeparate
    BY DEF IInv, SharedJars, JarsAreSeparate
  <2> QED BY <2>1, <2>2 DEF IInv, SessionsStayApart
<1> QED BY InitInv, NextStep, <1>1, PTL DEF Spec

\* What import_auth() restores into a config with a jar is what export_auth() would save
\* of it again.
THEOREM SavedSessionsAreRestored == Spec => ImportRestores
<1> DEFINE Restores == \A k \in DOMAIN configs : ImportAuth(k) /\ configs[k].jar # None => Restored(k)
<1>1. ASSUME IInv, NEW k \in DOMAIN configs, ImportAuth(k), configs[k].jar # None
      PROVE  Restored(k)
  <2> DEFINE new == configs'[k]
  <2>1. /\ new.jar = configs[k].jar
        /\ new.headers = SetAll(configs[k].headers, state.headers)
        /\ state.param # None => new.param = state.param
        /\ new.alt = state.alt
    BY <1>1, ImportAuthStep
  <2>2. state.headers # <<>> => GetAll(new.headers, Authorization) = state.headers
    BY <1>1, <2>1, RestoredHeaders
  <2>3. state.cookie # None => jars'[new.jar] = state.cookie
    <3>1. configs[k].jar \in DOMAIN jars
      BY <1>1, ConfigIs DEF IInv, Shape, None
    <3>2. state.cookie # None => jars' = [jars EXCEPT ![configs[k].jar] = state.cookie]
      BY <1>1 DEF ImportAuth
    <3> QED BY <2>1, <3>1, <3>2
  <2>4. new.jar # None
    BY <1>1, <2>1
  <2>5. Exported(k)' = State(new.parser, jars'[new.jar], GetAll(new.headers, Authorization),
                             new.param, new.alt)
    BY <2>4 DEF Exported, CookieOf
  <2> HIDE DEF new
  <2> QED BY <2>1, <2>2, <2>3, <2>5 DEF Restored, State
<1>2. IInv /\ [Next]_vars => [Restores]_vars
  BY <1>1
<1> QED BY InitInv, NextStep, <1>2, PTL DEF Spec, ImportRestores

\* No config ever loses the cookie session it has: not by being adopted again, nor by what is
\* derived from it, logged in beside it or restored into it.
THEOREM SessionsStay == Spec => SessionsAreKept
<1>1. IInv /\ [Next]_vars => [CookiesKept]_vars
  BY NextStep
<1> QED BY InitInv, NextStep, <1>1, PTL DEF Spec, SessionsAreKept, CookiesKept

-----------------------------------------------------------------------------

(***************************************************************************)
(* What a cookie keeps                                                     *)
(***************************************************************************)

\* No cookie is written with the dot in its domain here and without it there, and none
\* is deleted with the date 0.
PlainCookies ==
    /\ \A c, d \in AllCookies : Scope(c) = Scope(d) => c.dotted = d.dotted
    /\ \A c \in Cookies : c.expires # 0

\* Saving and restoring a cookie changes nothing of it but its expiry.
LEMMA ParsedLine ==
    ASSUME NEW c, IsCookie(c)
    PROVE  /\ IsCookie(Line(c)) /\ IsCookie(Parsed(c)) /\ IsCookie(Parsed(Line(c)))
           /\ Identity(Parsed(c)) = Identity(c) /\ Identity(Parsed(Line(c))) = Identity(c)
           /\ Scope(Parsed(Line(c))) = Scope(c)
           /\ Parsed(c).expires # 0
           /\ Parsed(Line(Parsed(Line(c)))) = Parsed(Line(c))
           /\ c.expires # 0 => Parsed(Line(c)) = c
<1> DEFINE Dated(e) == [name |-> c.name, value |-> c.value, dotted |-> c.dotted,
                        domain |-> c.domain, path |-> c.path, expires |-> e,
                        secure |-> c.secure, sub |-> c.sub]
           line == IF c.expires = Never THEN 0 ELSE c.expires
           read == IF c.expires = 0 THEN Never ELSE c.expires
<1>1. c = Dated(c.expires) /\ c.expires \in Nat \cup {Never} /\ Never # 0
  BY CookieStoreAssumption DEF IsCookie
<1>2. \A e : /\ Line(Dated(e)) = Dated(IF e = Never THEN 0 ELSE e)
             /\ Parsed(Dated(e)) = Dated(IF e = 0 THEN Never ELSE e)
             /\ Dated(e).expires = e
             /\ Identity(Dated(e)) = Identity(c) /\ Scope(Dated(e)) = Scope(c)
             /\ e \in Nat \cup {Never} => IsCookie(Dated(e))
  BY DEF Line, Parsed, Identity, Scope, IsCookie
<1> HIDE DEF Dated
<1>3. Line(c) = Dated(line) /\ Parsed(c) = Dated(read) /\ Parsed(Dated(line)) = Dated(read)
  BY <1>1, <1>2
<1>4. Line(Dated(read)) = Dated(line)
  BY <1>1, <1>2
<1>5. line \in Nat \cup {Never} /\ read \in Nat \cup {Never} /\ read # 0
  BY <1>1
<1>6. c.expires # 0 => read = c.expires
  OBVIOUS
<1> HIDE DEF line, read
<1>7. Parsed(Line(c)) = Dated(read) /\ Parsed(Line(Dated(read))) = Dated(read)
  BY <1>3, <1>4
<1>8. /\ IsCookie(Dated(line)) /\ Identity(Dated(read)) = Identity(c)
      /\ IsCookie(Dated(read)) /\ Scope(Dated(read)) = Scope(c) /\ Dated(read).expires = read
  BY <1>2, <1>5
<1> QED BY <1>1, <1>3, <1>5, <1>6, <1>7, <1>8

\* Every cookie the store can keep is a cookie of a scope.
LEMMA KeptCookies ==
    /\ \A c \in Kept : IsCookie(c) /\ Scope(c) \in Scopes /\ Parsed(Line(c)) \in Kept
    /\ Cookies \subseteq Kept
    /\ \A line \in ForeignLines : Parsed(line) \in Kept
<1>1. \A c \in AllCookies : IsCookie(c) /\ Scope(c) \in Scopes
  BY CookieStoreAssumption, ParsedLine DEF AllCookies, Scopes
<1>2. \A c \in AllCookies :
        /\ IsCookie(Parsed(Line(c))) /\ Scope(Parsed(Line(c))) = Scope(c)
        /\ Parsed(Line(Parsed(Line(c)))) = Parsed(Line(c))
  BY <1>1, ParsedLine
<1> QED BY <1>1, <1>2 DEF Kept, AllCookies

\* Of plain cookies there is one identity to a scope, and saving loses nothing.
LEMMA KeptPlain ==
    ASSUME PlainCookies
    PROVE  /\ \A c, d \in Kept : Scope(c) = Scope(d) => Identity(c) = Identity(d)
           /\ \A c \in Kept : Parsed(Line(c)) = c /\ c # NoCookie
<1>1. \A c \in AllCookies : IsCookie(c) /\ c.expires # 0
  <2>1. \A c \in Cookies : IsCookie(c) /\ c.expires # 0
    BY CookieStoreAssumption DEF PlainCookies
  <2>2. \A line \in ForeignLines : IsCookie(Parsed(line)) /\ Parsed(line).expires # 0
    BY CookieStoreAssumption, ParsedLine
  <2> QED BY <2>1, <2>2 DEF AllCookies
<1>2. \A c \in AllCookies : Parsed(Line(c)) = c
  BY <1>1, ParsedLine
<1>3. Kept = AllCookies
  BY <1>2 DEF Kept
<1>4. \A c, d \in AllCookies : Scope(c) = Scope(d) => Identity(c) = Identity(d)
  BY DEF Scope, Identity, PlainCookies
<1> QED BY <1>1, <1>2, <1>3, <1>4 DEF NoCookie

(***************************************************************************)
(* The operations on a store                                               *)
(***************************************************************************)

\* No cookie is stored twice.
Distinct(store) ==
    \A i, j \in DOMAIN store : Identity(store[i]) = Identity(store[j]) => i = j

\* set() replaces the cookie of the same identity, or appends.
LEMMA StoredIs ==
    ASSUME NEW store \in Seq(Kept), NEW cookie
    PROVE  \/ \E i \in DOMAIN store :
                /\ Identity(store[i]) = Identity(cookie)
                /\ Stored(store, cookie) = [store EXCEPT ![i] = cookie]
           \/ /\ \A i \in DOMAIN store : Identity(store[i]) # Identity(cookie)
              /\ Stored(store, cookie) = Append(store, cookie)
<1> DEFINE I == {i \in 1..Len(store) : Identity(store[i]) = Identity(cookie)}
           found == IF I # {} THEN Min(I) ELSE 0
<1>1. Stored(store, cookie) = IF found = 0 THEN Append(store, cookie)
                              ELSE [store EXCEPT ![found] = cookie]
  BY DEF Stored, SelectInSeq
<1>2. DOMAIN store = 1..Len(store)
  OBVIOUS
<1>3. CASE I = {}
  BY <1>1, <1>2, <1>3
<1>4. CASE I # {}
  <2>1. I \in SUBSET Nat
    OBVIOUS
  <2>2. \E n \in I : \A m \in I : n <= m
    BY <1>4, <2>1, LeastNumber
  <2>3. Min(I) \in I
    BY <2>2 DEF Min
  <2>4. found \in DOMAIN store /\ Identity(store[found]) = Identity(cookie) /\ found # 0
    BY <1>2, <1>4, <2>3
  <2> HIDE DEF found
  <2> QED BY <1>1, <2>4
<1> QED BY <1>3, <1>4

\* set() keeps the store's cookies distinct.
LEMMA StoredIsDistinct ==
    ASSUME NEW store \in Seq(Kept), Distinct(store), NEW cookie \in Kept
    PROVE  Stored(store, cookie) \in Seq(Kept) /\ Distinct(Stored(store, cookie))
<1>1. CASE \E i \in DOMAIN store :
             /\ Identity(store[i]) = Identity(cookie)
             /\ Stored(store, cookie) = [store EXCEPT ![i] = cookie]
  <2>1. PICK i \in DOMAIN store :
             /\ Identity(store[i]) = Identity(cookie)
             /\ Stored(store, cookie) = [store EXCEPT ![i] = cookie]
    BY <1>1
  <2> DEFINE t == [store EXCEPT ![i] = cookie]
  <2>2. t \in Seq(Kept) /\ DOMAIN t = DOMAIN store
    BY ExceptSeq
  <2>3. \A k \in DOMAIN store : Identity(t[k]) = Identity(store[k])
    BY <2>1
  <2> HIDE DEF t
  <2>4. Distinct(t)
    BY <2>2, <2>3 DEF Distinct
  <2> QED BY <2>1, <2>2, <2>4 DEF t
<1>2. CASE /\ \A i \in DOMAIN store : Identity(store[i]) # Identity(cookie)
           /\ Stored(store, cookie) = Append(store, cookie)
  <2> DEFINE t == Append(store, cookie)
  <2>1. /\ t \in Seq(Kept) /\ DOMAIN t = DOMAIN store \cup {Len(store) + 1}
        /\ \A k \in DOMAIN store : t[k] = store[k] /\ k # Len(store) + 1
        /\ t[Len(store) + 1] = cookie
    OBVIOUS
  <2> HIDE DEF t
  <2>2. Distinct(t)
    BY <1>2, <2>1 DEF Distinct
  <2> QED BY <1>2, <2>1, <2>2 DEF t
<1> QED BY <1>1, <1>2, StoredIs

\* Taking some of a store's cookies keeps them distinct.
LEMMA EntriesAreDistinct ==
    ASSUME NEW store \in Seq(Kept), Distinct(store), NEW I \in SUBSET DOMAIN store
    PROVE  /\ Entries(store, I) \in Seq(Kept) /\ Distinct(Entries(store, I))
           /\ ToSet(Entries(store, I)) = {store[i] : i \in I}
<1> DEFINE t == Entries(store, I)
<1>1. PICK e : t \in Seq(Kept) /\ Places(e, t, store, I)
  BY EntriesByIndex
<1> HIDE DEF t
<1>2. \A k \in DOMAIN t : e[k] \in DOMAIN store /\ t[k] = store[e[k]]
  BY <1>1 DEF Places
<1>3. Distinct(t)
  BY <1>1, <1>2 DEF Places, Distinct
<1>4. ToSet(t) = {store[i] : i \in I}
  BY <1>1 DEF Places, ToSet
<1> QED BY <1>1, <1>3, <1>4 DEF t

\* Saving and restoring keeps a store's cookies distinct.
LEMMA RestoredIsDistinct ==
    ASSUME NEW store \in Seq(Kept), Distinct(store)
    PROVE  /\ Written(store) \in Seq({Line(c) : c \in Kept})
           /\ Read(Written(store)) \in Seq(Kept) /\ Distinct(Read(Written(store)))
           /\ DOMAIN Read(Written(store)) = DOMAIN store
           /\ \A i \in DOMAIN store : Read(Written(store))[i] = Parsed(Line(store[i]))
<1> DEFINE t == Read(Written(store))
<1>1. t = [i \in DOMAIN store |-> Parsed(Line(store[i]))]
  BY DEF Written, Read
<1>2. \A i \in DOMAIN store :
        store[i] \in Kept /\ Parsed(Line(store[i])) \in Kept
        /\ Identity(Parsed(Line(store[i]))) = Identity(store[i])
  BY KeptCookies, ParsedLine
<1>3. t \in Seq(Kept) /\ Written(store) \in Seq({Line(c) : c \in Kept})
  BY <1>1, <1>2, SeqDef DEF Written
<1> HIDE DEF t
<1>4. Distinct(t)
  BY <1>1, <1>2 DEF Distinct
<1> QED BY <1>1, <1>3, <1>4 DEF t

\* As many cookies as there are different ones.
LEMMA DistinctAreCounted ==
    ASSUME NEW store \in Seq(Kept), Distinct(store)
    PROVE  Len(store) = Cardinality(ToSet(store))
<1> DEFINE S == ToSet(store)
<1>1. DOMAIN store = 1..Len(store) /\ Len(store) \in Nat
  OBVIOUS
<1>2. store \in [1..Len(store) -> S] /\ \A v \in S : \E i \in 1..Len(store) : store[i] = v
  BY <1>1 DEF ToSet
<1>3. \A i, j \in 1..Len(store) : store[i] = store[j] => i = j
  BY <1>1 DEF Distinct
<1> HIDE DEF S
<1>4. store \in Bijection(1..Len(store), S)
  BY <1>2, <1>3, Fun_IsBij
<1>5. ExistsBijection(1..Len(store), S)
  BY <1>4, Fun_ExistsBij
<1> QED BY <1>1, <1>5, FS_CountingElements DEF S

(***************************************************************************)
(* The store and what was stored last                                      *)
(***************************************************************************)

\* The store has each scope's cookie that was stored last unless it expired, and no other.
Faithful(store, known, time) ==
    /\ \A i \in DOMAIN store : known[Scope(store[i])] = store[i]
    /\ \A s \in Scopes :
        \/ known[s] = NoCookie
        \/ /\ Scope(known[s]) = s
           /\ IsExpired(known[s], time) \/ \E i \in DOMAIN store : store[i] = known[s]

\* Storing a cookie.
LEMMA StoredIsFaithful ==
    ASSUME PlainCookies, NEW store \in Seq(Kept), Distinct(store), NEW cookie \in Kept, NEW time,
           NEW known \in [Scopes -> Kept \cup {NoCookie}], Faithful(store, known, time)
    PROVE  /\ Latest(known, cookie) \in [Scopes -> Kept \cup {NoCookie}]
           /\ Faithful(Stored(store, cookie), Latest(known, cookie), time)
<1> DEFINE new == Latest(known, cookie)
           t == Stored(store, cookie)
<1>1. /\ new \in [Scopes -> Kept \cup {NoCookie}] /\ Scope(cookie) \in Scopes
      /\ new[Scope(cookie)] = cookie
      /\ \A s \in Scopes : s # Scope(cookie) => new[s] = known[s]
  BY KeptCookies DEF Latest
<1>2. /\ \E k \in DOMAIN t : t[k] = cookie
      /\ \A k \in DOMAIN t : \/ t[k] = cookie
                            \/ \E i \in DOMAIN store :
                                 t[k] = store[i] /\ Identity(store[i]) # Identity(cookie)
      /\ \A i \in DOMAIN store : Identity(store[i]) # Identity(cookie)
                                => \E k \in DOMAIN t : t[k] = store[i]
  <2>1. CASE \E i \in DOMAIN store :
               /\ Identity(store[i]) = Identity(cookie)
               /\ t = [store EXCEPT ![i] = cookie]
    <3>1. PICK i \in DOMAIN store :
               /\ Identity(store[i]) = Identity(cookie)
               /\ t = [store EXCEPT ![i] = cookie]
      BY <2>1
    <3>2. \A k \in DOMAIN store : k # i => Identity(store[k]) # Identity(cookie)
      BY <3>1 DEF Distinct
    <3>3. DOMAIN t = DOMAIN store /\ t[i] = cookie /\ \A k \in DOMAIN store : k # i => t[k] = store[k]
      BY <3>1
    <3> HIDE DEF t
    <3> QED BY <3>1, <3>2, <3>3
  <2>2. CASE /\ \A i \in DOMAIN store : Identity(store[i]) # Identity(cookie)
             /\ t = Append(store, cookie)
    <3>1. /\ DOMAIN t = DOMAIN store \cup {Len(store) + 1} /\ t[Len(store) + 1] = cookie
          /\ \A k \in DOMAIN store : t[k] = store[k]
      BY <2>2
    <3> HIDE DEF t
    <3> QED BY <2>2, <3>1
  <2> QED BY <2>1, <2>2, StoredIs
<1> HIDE DEF new, t
<1>3. \A i \in DOMAIN store :
        /\ store[i] \in Kept /\ Scope(store[i]) \in Scopes
        /\ Identity(store[i]) # Identity(cookie) => Scope(store[i]) # Scope(cookie)
  BY KeptCookies, KeptPlain
<1>4. ASSUME NEW k \in DOMAIN t PROVE new[Scope(t[k])] = t[k]
  BY <1>1, <1>2, <1>3 DEF Faithful
<1>5. ASSUME NEW s \in Scopes
      PROVE  \/ new[s] = NoCookie
             \/ /\ Scope(new[s]) = s
                /\ IsExpired(new[s], time) \/ \E k \in DOMAIN t : t[k] = new[s]
  <2>1. CASE s = Scope(cookie)
    BY <1>1, <1>2, <2>1
  <2>2. CASE s # Scope(cookie)
    <3>1. new[s] = known[s]
      BY <1>1, <2>2
    <3>2. ASSUME NEW i \in DOMAIN store, store[i] = known[s], Scope(known[s]) = s
          PROVE  \E k \in DOMAIN t : t[k] = known[s]
      <4>1. Identity(store[i]) # Identity(cookie)
        BY <2>2, <3>2 DEF Identity, Scope
      <4> QED BY <1>2, <3>2, <4>1
    <3> QED BY <3>1, <3>2 DEF Faithful
  <2> QED BY <2>1, <2>2
<1> QED BY <1>1, <1>4, <1>5 DEF Faithful, new, t

\* What is left of a store without its expired cookies.
LEMMA PrunedIs ==
    ASSUME NEW store \in Seq(Kept), Distinct(store), NEW time
    PROVE  /\ Pruned(store, time) \in Seq(Kept) /\ Distinct(Pruned(store, time))
           /\ ToSet(Pruned(store, time)) = {c \in ToSet(store) : ~IsExpired(c, time)}
<1> DEFINE I == {i \in DOMAIN store : ~IsExpired(store[i], time)}
<1>1. {store[i] : i \in I} = {c \in ToSet(store) : ~IsExpired(c, time)}
  BY DEF ToSet
<1>2. I \in SUBSET DOMAIN store /\ Pruned(store, time) = Entries(store, I)
  BY DEF Pruned
<1> HIDE DEF I
<1> QED BY <1>1, <1>2, EntriesAreDistinct

\* Pruning a store.
LEMMA PrunedIsFaithful ==
    ASSUME NEW store \in Seq(Kept), Distinct(store), NEW time, NEW known,
           Faithful(store, known, time)
    PROVE  Faithful(Pruned(store, time), known, time)
<1> DEFINE t == Pruned(store, time)
<1>1. ToSet(t) = {c \in ToSet(store) : ~IsExpired(c, time)}
  BY PrunedIs
<1> HIDE DEF t
<1>2. ASSUME NEW k \in DOMAIN t PROVE known[Scope(t[k])] = t[k]
  <2>1. t[k] \in ToSet(t)
    BY DEF ToSet
  <2>2. PICK i \in DOMAIN store : store[i] = t[k]
    BY <1>1, <2>1 DEF ToSet
  <2> QED BY <2>2 DEF Faithful
<1>3. ASSUME NEW i \in DOMAIN store, ~IsExpired(store[i], time)
      PROVE  \E k \in DOMAIN t : t[k] = store[i]
  <2>1. store[i] \in ToSet(store)
    BY DEF ToSet
  <2>2. store[i] \in ToSet(t)
    BY <1>1, <1>3, <2>1
  <2> QED BY <2>2 DEF ToSet
<1> QED BY <1>2, <1>3 DEF Faithful, t

\* Time passes.
LEMMA LaterIsFaithful ==
    ASSUME PlainCookies, NEW store, NEW time \in Nat,
           NEW known \in [Scopes -> Kept \cup {NoCookie}], Faithful(store, known, time)
    PROVE  Faithful(store, known, time + 1)
<1>1. ASSUME NEW s \in Scopes, known[s] # NoCookie, IsExpired(known[s], time)
      PROVE  IsExpired(known[s], time + 1)
  <2>1. known[s] \in Kept
    BY <1>1
  <2>2. known[s].expires \in Nat \cup {Never}
    BY <2>1, KeptCookies DEF IsCookie
  <2> QED BY <1>1, <2>2 DEF IsExpired
<1> QED BY <1>1 DEF Faithful

\* What was saved is what is restored.
LEMMA RestoredIsFaithful ==
    ASSUME PlainCookies, NEW store \in Seq(Kept)
    PROVE  Read(Written(store)) = store
<1>1. Read(Written(store)) = [i \in DOMAIN store |-> Parsed(Line(store[i]))]
  BY DEF Written, Read
<1>2. \A i \in DOMAIN store : Parsed(Line(store[i])) = store[i]
  BY KeptPlain
<1> QED BY <1>1, <1>2

(***************************************************************************)
(* The invariants                                                          *)
(***************************************************************************)

\* The store and what was saved of it are sequences of distinct cookies.
JarShape == JarTypeOK /\ Read(lines) \in Seq(Kept) /\ Distinct(Read(lines))

\* Of plain cookies, the store and what was saved of it are faithful.
JarInv ==
    /\ PlainCookies
    /\ Faithful(cookies, latest, now)
    /\ Faithful(Read(lines), saved, now)

\* Answers are short, and what is left of one is.
LEMMA ResponsesAreShort ==
    ASSUME NEW response \in BoundedSeq(Cookies, MaxCookies), response # <<>>
    PROVE  Head(response) \in Kept /\ Tail(response) \in BoundedSeq(Cookies, MaxCookies)
<1>1. PICK m \in 0..MaxCookies : response \in [1..m -> Cookies]
  BY DEF BoundedSeq, SeqOf
<1>2. response \in Seq(Cookies) /\ Len(response) = m /\ m \in Nat
  BY <1>1, CookieStoreAssumption, SeqDef
<1>3. Head(response) \in Cookies /\ m # 0
  BY <1>2
<1>4. Tail(response) \in [1..(m - 1) -> Cookies] /\ m - 1 \in 0..MaxCookies
  <2>1. Tail(response) \in Seq(Cookies) /\ Len(Tail(response)) = m - 1
    BY <1>2, <1>3, HeadTailProperties
  <2>2. m - 1 \in 0..MaxCookies
    BY <1>3, CookieStoreAssumption
  <2> QED BY <2>1, <2>2, LenProperties
<1> QED BY <1>3, <1>4, KeptCookies DEF BoundedSeq, SeqOf

\* The invariants hold initially.
LEMMA JarInitInv == JarInit => JarShape /\ (PlainCookies => JarInv)
<1> SUFFICES ASSUME JarInit PROVE JarShape /\ (PlainCookies => JarInv)
  OBVIOUS
<1>1. Read(lines) = <<>> /\ Distinct(<<>>) /\ <<>> \in Seq(Kept)
  BY DEF JarInit, Read, Distinct
<1>2. <<>> \in BoundedSeq(Cookies, MaxCookies)
  <2>1. <<>> \in [1..0 -> Cookies] /\ 0 \in 0..MaxCookies
    BY CookieStoreAssumption
  <2> QED BY <2>1 DEF BoundedSeq, SeqOf
<1>3. JarTypeOK
  <2>1. cookies = <<>> /\ lines = <<>> /\ now \in 1..MaxTime /\ sent \in SUBSET Requests
    BY CookieStoreAssumption DEF JarInit
  <2>2. arriving \in [Requests -> BoundedSeq(Cookies, MaxCookies)]
    BY <1>2 DEF JarInit
  <2>3. latest \in [Scopes -> Kept \cup {NoCookie}] /\ saved \in [Scopes -> Kept \cup {NoCookie}]
    BY DEF JarInit, Nothing
  <2>4. <<>> \in Seq({Line(c) : c \in Kept})
    OBVIOUS
  <2> QED BY <1>1, <2>1, <2>2, <2>3, <2>4 DEF JarTypeOK
<1>4. Faithful(<<>>, Nothing, now)
  BY DEF Faithful, Nothing
<1> QED BY <1>1, <1>3, <1>4 DEF JarShape, JarInv, JarInit

\* The parts of the state a step can disturb.
StoreOK(store, known) ==
    store \in Seq(Kept) /\ Distinct(store) /\ known \in [Scopes -> Kept \cup {NoCookie}]

\* Only the store and what was stored last change.
LEMMA StoreChanged ==
    ASSUME JarShape, UNCHANGED <<now, lines, saved>>, StoreOK(cookies', latest'),
           sent' \in SUBSET Requests,
           arriving' \in [Requests -> BoundedSeq(Cookies, MaxCookies)],
           JarInv => Faithful(cookies', latest', now)
    PROVE  JarShape' /\ (JarInv => JarInv')
<1>1. Read(lines') = Read(lines)
  BY DEF Read
<1>2. JarTypeOK'
  BY DEF JarShape, JarTypeOK, StoreOK, Distinct
<1>3. JarShape'
  BY <1>1, <1>2 DEF JarShape
<1>4. JarInv => JarInv'
  BY <1>1 DEF JarInv
<1> QED BY <1>3, <1>4

\* Before a step.
LEMMA StoreIsOK ==
    ASSUME JarShape
    PROVE  StoreOK(cookies, latest) /\ (JarInv => Faithful(cookies, latest, now))
  BY DEF JarShape, JarTypeOK, StoreOK, Distinct, JarInv

\* Send
LEMMA SendStep ==
    ASSUME JarShape, NEW r \in Requests, NEW explicit \in BOOLEAN, Send(r, explicit)
    PROVE  JarShape' /\ (JarInv => JarInv')
<1>1. sent' \in SUBSET Requests /\ arriving' \in [Requests -> BoundedSeq(Cookies, MaxCookies)]
  BY DEF Send, JarShape, JarTypeOK
<1>2. latest' = latest /\ UNCHANGED <<now, lines, saved>>
      /\ cookies' = IF explicit THEN cookies ELSE Pruned(cookies, now)
  BY DEF Send
<1>3. StoreOK(cookies', latest')
  BY <1>2, StoreIsOK, PrunedIs DEF StoreOK
<1>4. JarInv => Faithful(cookies', latest', now)
  BY <1>2, StoreIsOK, PrunedIsFaithful DEF StoreOK
<1> QED BY <1>1, <1>2, <1>3, <1>4, StoreChanged

\* Answer
LEMMA AnswerStep ==
    ASSUME JarShape, NEW r \in Requests, NEW response \in BoundedSeq(Cookies, MaxCookies),
           Answer(r, response)
    PROVE  JarShape' /\ (JarInv => JarInv')
<1>1. sent' \in SUBSET Requests /\ arriving' \in [Requests -> BoundedSeq(Cookies, MaxCookies)]
  BY DEF Answer, JarShape, JarTypeOK
<1>2. cookies' = cookies /\ latest' = latest /\ UNCHANGED <<now, lines, saved>>
  BY DEF Answer
<1> QED BY <1>1, <1>2, StoreIsOK, StoreChanged

\* Harvest
LEMMA HarvestStep ==
    ASSUME JarShape, NEW r \in Requests, Harvest(r)
    PROVE  JarShape' /\ (JarInv => JarInv')
<1> DEFINE cookie == Head(arriving[r])
<1>1. arriving[r] \in BoundedSeq(Cookies, MaxCookies) /\ arriving[r] # <<>>
  BY DEF Harvest, JarShape, JarTypeOK
<1>2. cookie \in Kept /\ Tail(arriving[r]) \in BoundedSeq(Cookies, MaxCookies)
  BY <1>1, ResponsesAreShort
<1>3. sent' \in SUBSET Requests /\ arriving' \in [Requests -> BoundedSeq(Cookies, MaxCookies)]
  BY <1>2 DEF Harvest, JarShape, JarTypeOK
<1>4. cookies' = Stored(cookies, cookie) /\ latest' = Latest(latest, cookie)
      /\ UNCHANGED <<now, lines, saved>>
  BY DEF Harvest
<1> HIDE DEF cookie
<1>5. Scope(cookie) \in Scopes
  BY <1>2, KeptCookies
<1>6. StoreOK(cookies', latest')
  <2>1. StoreOK(cookies, latest)
    BY StoreIsOK
  <2>2. cookies' \in Seq(Kept) /\ Distinct(cookies')
    BY <1>2, <1>4, <2>1, StoredIsDistinct DEF StoreOK
  <2>3. latest' \in [Scopes -> Kept \cup {NoCookie}]
    BY <1>2, <1>4, <1>5, <2>1 DEF StoreOK, Latest
  <2> QED BY <2>2, <2>3 DEF StoreOK
<1>7. JarInv => Faithful(cookies', latest', now)
  <2> SUFFICES ASSUME JarInv PROVE Faithful(cookies', latest', now)
    OBVIOUS
  <2>1. /\ cookies \in Seq(Kept) /\ Distinct(cookies) /\ PlainCookies
        /\ latest \in [Scopes -> Kept \cup {NoCookie}] /\ Faithful(cookies, latest, now)
    BY StoreIsOK DEF StoreOK, JarInv
  <2>2. Faithful(Stored(cookies, cookie), Latest(latest, cookie), now)
    BY <1>2, <2>1, StoredIsFaithful
  <2> QED BY <1>4, <2>2
<1> QED BY <1>3, <1>4, <1>6, <1>7, StoreChanged

\* An empty store and no scope's cookie.
LEMMA EmptyIsFaithful == StoreOK(<<>>, Nothing) /\ \A time : Faithful(<<>>, Nothing, time)
  BY DEF StoreOK, Distinct, Nothing, Faithful

\* Clear and Restart
LEMMA ClearStep ==
    ASSUME JarShape, Clear \/ Restart
    PROVE  JarShape' /\ (JarInv => JarInv')
<1>1. cookies' = <<>> /\ latest' = Nothing /\ UNCHANGED <<now, lines, saved>>
  BY DEF Clear, Restart
<1>2. sent' \in SUBSET Requests /\ arriving' \in [Requests -> BoundedSeq(Cookies, MaxCookies)]
  <2>1. CASE Clear
    BY <2>1 DEF Clear, JarShape, JarTypeOK
  <2>2. CASE Restart
    <3>1. <<>> \in BoundedSeq(Cookies, MaxCookies)
      <4>1. <<>> \in [1..0 -> Cookies] /\ 0 \in 0..MaxCookies
        BY CookieStoreAssumption
      <4> QED BY <4>1 DEF BoundedSeq, SeqOf
    <3> QED BY <2>2, <3>1 DEF Restart
  <2> QED BY <2>1, <2>2
<1> QED BY <1>1, <1>2, EmptyIsFaithful, StoreChanged

\* Save
LEMMA SaveStep ==
    ASSUME JarShape, Save
    PROVE  JarShape' /\ (JarInv => JarInv')
<1>1. StoreOK(cookies, latest)
  BY StoreIsOK
<1>2. /\ lines' = Written(cookies) /\ saved' = latest
      /\ UNCHANGED <<cookies, now, sent, arriving, latest>>
  BY DEF Save
<1>3. /\ Written(cookies) \in Seq({Line(c) : c \in Kept})
      /\ Read(Written(cookies)) \in Seq(Kept) /\ Distinct(Read(Written(cookies)))
  BY <1>1, RestoredIsDistinct DEF StoreOK
<1>4. JarTypeOK'
  BY <1>1, <1>2, <1>3 DEF JarShape, JarTypeOK, StoreOK
<1>5. Read(lines') = Read(Written(cookies))
  BY <1>2
<1>6. JarShape'
  BY <1>3, <1>4, <1>5 DEF JarShape
<1>7. JarInv => JarInv'
  <2> SUFFICES ASSUME JarInv PROVE JarInv'
    OBVIOUS
  <2>1. Read(lines') = cookies
    BY <1>1, <1>5, RestoredIsFaithful DEF JarInv, StoreOK
  <2> QED BY <1>2, <2>1 DEF JarInv
<1> QED BY <1>6, <1>7

\* Restore, of what was saved here
LEMMA RestoreStep ==
    ASSUME JarShape, Restore(lines, saved)
    PROVE  JarShape' /\ (JarInv => JarInv')
<1>1. cookies' = Read(lines) /\ latest' = saved /\ UNCHANGED <<now, sent, arriving, lines, saved>>
  BY DEF Restore
<1>2. StoreOK(cookies', latest')
  BY <1>1 DEF JarShape, JarTypeOK, StoreOK
<1>3. JarInv => Faithful(cookies', latest', now)
  BY <1>1 DEF JarInv
<1>4. sent' \in SUBSET Requests /\ arriving' \in [Requests -> BoundedSeq(Cookies, MaxCookies)]
  BY <1>1 DEF JarShape, JarTypeOK
<1> QED BY <1>1, <1>2, <1>3, <1>4, StoreChanged

\* Restore, of what was saved elsewhere
LEMMA ForeignStep ==
    ASSUME JarShape, NEW line \in ForeignLines,
           Restore(<<line>>, Latest(Nothing, Parsed(line)))
    PROVE  JarShape' /\ (JarInv => JarInv')
<1> DEFINE cookie == Parsed(line)
<1>1. /\ cookies' = Read(<<line>>) /\ latest' = Latest(Nothing, cookie)
      /\ UNCHANGED <<now, sent, arriving, lines, saved>>
  BY DEF Restore
<1>2. cookie \in Kept /\ Scope(cookie) \in Scopes
  BY KeptCookies
<1>3. Read(<<line>>) = <<cookie>>
  BY DEF Read
<1> HIDE DEF cookie
<1>4. /\ <<cookie>> \in Seq(Kept) /\ DOMAIN <<cookie>> = {1} /\ <<cookie>>[1] = cookie
      /\ Distinct(<<cookie>>)
  BY <1>2 DEF Distinct
<1>5. /\ latest' \in [Scopes -> Kept \cup {NoCookie}] /\ latest'[Scope(cookie)] = cookie
      /\ \A s \in Scopes : s # Scope(cookie) => latest'[s] = NoCookie
  BY <1>1, <1>2 DEF Latest, Nothing
<1>6. StoreOK(cookies', latest')
  BY <1>1, <1>3, <1>4, <1>5 DEF StoreOK
<1>7. Faithful(cookies', latest', now)
  <2> DEFINE store == <<cookie>>
  <2>1. cookies' = store /\ DOMAIN store = {1} /\ store[1] = cookie
    BY <1>1, <1>3, <1>4
  <2> HIDE DEF store
  <2> QED BY <1>5, <2>1 DEF Faithful
<1>8. sent' \in SUBSET Requests /\ arriving' \in [Requests -> BoundedSeq(Cookies, MaxCookies)]
  BY <1>1 DEF JarShape, JarTypeOK
<1> QED BY <1>1, <1>6, <1>7, <1>8, StoreChanged

\* Tick
LEMMA TickStep ==
    ASSUME JarShape, Tick
    PROVE  JarShape' /\ (JarInv => JarInv')
<1>1. now' = now + 1 /\ now' \in 1..MaxTime /\ now \in Nat
      /\ UNCHANGED <<cookies, sent, arriving, lines, latest, saved>>
  BY CookieStoreAssumption DEF Tick, JarShape, JarTypeOK
<1>2. Read(lines') = Read(lines)
  BY <1>1 DEF Read
<1>3. JarTypeOK'
  BY <1>1 DEF JarShape, JarTypeOK
<1>4. JarShape'
  BY <1>1, <1>2, <1>3 DEF JarShape
<1>5. JarInv => JarInv'
  <2> SUFFICES ASSUME JarInv PROVE JarInv'
    OBVIOUS
  <2>1. Faithful(cookies, latest, now + 1) /\ Faithful(Read(lines), saved, now + 1)
    BY <1>1, LaterIsFaithful DEF JarInv, JarShape, JarTypeOK
  <2> QED BY <1>1, <1>2, <2>1 DEF JarInv
<1> QED BY <1>4, <1>5

\* Every step preserves the invariants.
LEMMA JarNextStep == JarShape /\ [JarNext]_jarVars => JarShape' /\ (JarInv => JarInv')
<1> SUFFICES ASSUME JarShape, [JarNext]_jarVars PROVE JarShape' /\ (JarInv => JarInv')
  OBVIOUS
<1>1. ASSUME NEW r \in Requests, NEW explicit \in BOOLEAN, Send(r, explicit)
      PROVE  JarShape' /\ (JarInv => JarInv')
  BY <1>1, SendStep
<1>2. ASSUME NEW r \in Requests, NEW response \in BoundedSeq(Cookies, MaxCookies),
             Answer(r, response)
      PROVE  JarShape' /\ (JarInv => JarInv')
  BY <1>2, AnswerStep
<1>3. ASSUME NEW r \in Requests, Harvest(r) PROVE JarShape' /\ (JarInv => JarInv')
  BY <1>3, HarvestStep
<1>4. ASSUME NEW line \in ForeignLines, Restore(<<line>>, Latest(Nothing, Parsed(line)))
      PROVE  JarShape' /\ (JarInv => JarInv')
  BY <1>4, ForeignStep
<1>5. ASSUME Clear \/ Restart \/ Save \/ Restore(lines, saved) \/ Tick
      PROVE  JarShape' /\ (JarInv => JarInv')
  BY <1>5, ClearStep, SaveStep, RestoreStep, TickStep
<1>6. CASE UNCHANGED jarVars
  <2>1. UNCHANGED <<cookies, now, sent, arriving, lines, latest, saved>>
    BY <1>6 DEF jarVars
  <2>2. Read(lines') = Read(lines)
    BY <2>1 DEF Read
  <2> QED BY <2>1, <2>2 DEF JarShape, JarTypeOK, JarInv
<1> HIDE DEF JarShape, JarInv
<1> QED BY <1>1, <1>2, <1>3, <1>4, <1>5, <1>6 DEF JarNext

\* The store is a sequence of distinct cookies, and what is saved is lines of cookies.
THEOREM JarTyping == JarSpec => []JarTypeOK
<1>1. JarShape => JarTypeOK
  BY DEF JarShape
<1> QED BY JarInitInv, JarNextStep, <1>1, PTL DEF JarSpec

\* What a request carries, of a store that is faithful.
LEMMA CarriedAreLatest ==
    ASSUME JarShape, JarInv PROVE RequestsCarryTheLatest
<1> SUFFICES ASSUME NEW url \in Urls
             PROVE  LET carried == CookiesFor(cookies, url, now)
                        live == {c \in {latest[s] : s \in Scopes} : c # NoCookie /\ ~IsExpired(c, now)}
                    IN  /\ ToSet(carried) = {c \in live : Applies(c, url)}
                        /\ Len(carried) = Cardinality(ToSet(carried))
  BY DEF RequestsCarryTheLatest
<1> DEFINE alive == Pruned(cookies, now)
           I == {i \in DOMAIN alive : Applies(alive[i], url)}
           carried == Entries(alive, I)
           live == {c \in {latest[s] : s \in Scopes} : c # NoCookie /\ ~IsExpired(c, now)}
<1>1. CookiesFor(cookies, url, now) = carried
  BY DEF CookiesFor
<1>2. cookies \in Seq(Kept) /\ Distinct(cookies)
  BY StoreIsOK DEF StoreOK
<1>3. /\ alive \in Seq(Kept) /\ Distinct(alive)
      /\ ToSet(alive) = {c \in ToSet(cookies) : ~IsExpired(c, now)}
  BY <1>2, PrunedIs
<1> HIDE DEF alive
<1>4. I \in SUBSET DOMAIN alive /\ {alive[i] : i \in I} = {c \in ToSet(alive) : Applies(c, url)}
  BY DEF ToSet
<1> HIDE DEF I
<1>5. carried \in Seq(Kept) /\ Distinct(carried) /\ ToSet(carried) = {alive[i] : i \in I}
  BY <1>3, <1>4, EntriesAreDistinct
<1> HIDE DEF carried
<1>6. Len(carried) = Cardinality(ToSet(carried))
  BY <1>5, DistinctAreCounted
<1>7. {c \in ToSet(cookies) : ~IsExpired(c, now)} = live
  <2>1. ASSUME NEW c \in ToSet(cookies), ~IsExpired(c, now) PROVE c \in live
    <3>1. PICK i \in DOMAIN cookies : c = cookies[i]
      BY DEF ToSet
    <3>2. c \in Kept /\ Scope(c) \in Scopes /\ c # NoCookie
      BY <1>2, <3>1, KeptCookies, KeptPlain DEF JarInv
    <3>3. latest[Scope(c)] = c
      BY <3>1 DEF JarInv, Faithful
    <3> QED BY <2>1, <3>2, <3>3
  <2>2. ASSUME NEW c \in live PROVE c \in ToSet(cookies) /\ ~IsExpired(c, now)
    <3>1. PICK s \in Scopes : c = latest[s]
      OBVIOUS
    <3>2. c # NoCookie /\ ~IsExpired(c, now)
      OBVIOUS
    <3>3. \E i \in DOMAIN cookies : cookies[i] = c
      BY <3>1, <3>2 DEF JarInv, Faithful
    <3> QED BY <3>2, <3>3 DEF ToSet
  <2> HIDE DEF live
  <2> QED BY <2>1, <2>2
<1> HIDE DEF live
<1>8. ToSet(carried) = {c \in live : Applies(c, url)}
  BY <1>3, <1>4, <1>5, <1>7
<1> QED BY <1>1, <1>6, <1>8 DEF live

\* Whatever requests, responses, clears, saves, restores and restarts interleave, a
\* request carries of plain cookies what was stored last and is alive, each once.
THEOREM LatestAreCarried == PlainCookies /\ JarSpec => []RequestsCarryTheLatest
<1>1. JarShape /\ JarInv => RequestsCarryTheLatest
  BY CarriedAreLatest
<1>2. JarShape /\ JarInv /\ [JarNext]_jarVars => JarShape' /\ JarInv'
  BY JarNextStep
<1>3. PlainCookies /\ JarInit => JarShape /\ JarInv
  BY JarInitInv
<1> QED BY <1>1, <1>2, <1>3, PTL DEF JarSpec

-----------------------------------------------------------------------------
(***************************************************************************)
(* A walk over the pages of a listing, for any page size, cap and number   *)
(* of posts.                                                               *)
(***************************************************************************)

\* No more elements are taken than there are, and all of them are the sequence itself.
LEMMA EntriesBound ==
    ASSUME NEW X, NEW s \in Seq(X), NEW I
    PROVE  /\ Entries(s, I) \in Seq(X) /\ Len(Entries(s, I)) <= Len(s)
           /\ DOMAIN s \subseteq I => /\ Len(Entries(s, I)) = Len(s)
                                      /\ \A i \in DOMAIN s : Entries(s, I)[i] = s[i]
<1>1. PICK f : Solves(f, s, I, Len(s)) /\ Entries(s, I) = f[Len(s)]
  BY EntriesByPrefix
<1> DEFINE Fits(t, n) ==
             /\ t \in Seq(X) /\ Len(t) <= n
             /\ DOMAIN s \subseteq I => Len(t) = n /\ \A i \in 1..n : t[i] = s[i]
           T == {n \in Nat : n <= Len(s) => Fits(f[n], n)}
<1>2. Len(s) \in Nat /\ DOMAIN s = 1..Len(s) /\ <<>> \in Seq(X) /\ Len(<<>>) = 0
  OBVIOUS
<1>3. 0 \in T
  <2>1. f[0] = <<>>
    BY <1>1, <1>2 DEF Solves
  <2>2. Fits(<<>>, 0)
    BY <1>2
  <2> HIDE DEF Fits
  <2> QED BY <2>1, <2>2
<1>4. ASSUME NEW n \in T PROVE n + 1 \in T
  <2> SUFFICES ASSUME n + 1 <= Len(s) PROVE Fits(f[n + 1], n + 1)
    OBVIOUS
  <2>1. n \in Nat /\ n + 1 \in 1..Len(s) /\ n + 1 \in 0..Len(s) /\ (n + 1) - 1 = n /\ n + 1 # 0 /\ n <= Len(s)
    BY <1>2
  <2>2. Fits(f[n], n)
    BY <2>1
  <2>3. f[n + 1] = IF n + 1 \in I THEN Append(f[n], s[n + 1]) ELSE f[n]
    BY <1>1, <2>1 DEF Solves
  <2>4. CASE n + 1 \in I
    <3>1. s[n + 1] \in X
      BY <2>1
    <3> DEFINE u == f[n]
    <3>2. u \in Seq(X) /\ Len(u) \in Nat /\ Len(u) <= n
      BY <2>2
    <3>3. f[n + 1] = Append(u, s[n + 1])
      BY <2>3, <2>4
    <3>4. DOMAIN s \subseteq I => Len(u) = n /\ \A i \in 1..n : u[i] = s[i]
      BY <2>2
    <3> HIDE DEF u
    <3>5. Append(u, s[n + 1]) \in Seq(X) /\ Len(Append(u, s[n + 1])) = Len(u) + 1
      BY <3>1, <3>2
    <3>6. ASSUME DOMAIN s \subseteq I, NEW i \in 1..(n + 1)
          PROVE  Append(u, s[n + 1])[i] = s[i]
      <4>1. CASE i = n + 1
        BY <3>2, <3>4, <3>6, <4>1
      <4>2. CASE i # n + 1
        <5>1. i \in 1..n
          BY <2>1, <4>2
        <5> QED BY <3>2, <3>4, <3>6, <5>1
      <4> QED BY <4>1, <4>2
    <3> QED BY <2>1, <3>2, <3>3, <3>4, <3>5, <3>6
  <2>5. CASE n + 1 \notin I
    <3>1. ~(DOMAIN s \subseteq I)
      BY <1>2, <2>1, <2>5
    <3>2. f[n + 1] = f[n]
      BY <2>3, <2>5
    <3>3. f[n] \in Seq(X) /\ Len(f[n]) <= n
      BY <2>2
    <3>4. Len(f[n]) \in Nat
      BY <3>3
    <3>5. Len(f[n]) <= n + 1
      BY <2>1, <3>3, <3>4
    <3> QED BY <3>1, <3>2, <3>3, <3>5
  <2> QED BY <2>4, <2>5
<1>5. Len(s) \in T
  <2>1. T \in SUBSET Nat
    OBVIOUS
  <2> HIDE DEF T
  <2> QED BY <1>2, <1>3, <1>4, <2>1, SetInduction
<1> QED BY <1>1, <1>2, <1>5

-----------------------------------------------------------------------------
(* A page *)

AnyEntry == [id : Nat, state : States]
Cards == [item : States] \cup {NoCard}
Getters == [getter : {"post", "media"}, id : Nat, card : Cards]
Items == [item : Getters, offset : Nat]

\* What build_post_page keeps: every entry that is a post.
Posts(posts) == {i \in DOMAIN posts : HasId(posts[i])}

\* What an entry is given as: as a file by a pool, else as a container with its card.
Given(kind, entry) == IF kind = "pool" THEN Media(entry) ELSE Container(entry.id, Card(entry))
ItemOf(kind, entry, offset) == P!PageItem(Given(kind, entry), offset)

\* No offset up to the end of a page of n items, or of the listing, leaves the words.
Fits(from, n) == from + n < 2^(PageBits - 1)

LEMMA OffsetsAreWords ==
    ASSUME NEW n \in Nat, n < 2^(PageBits - 1)
    PROVE  P!AsOffset(n) = n
BY DEF P!AsOffset

\* The page has an item for every entry that was kept, in their order.
PageOfKept(kind, page, kept, from) ==
    /\ page.results = [i \in 1..Len(kept) |-> ItemOf(kind, kept[i], from + i - 1)]
    /\ kept # <<>> => page.next_offset = from + Len(kept)

\* The page of a pool, of the entries that serve a file.
LEMMA PoolPageIs ==
    ASSUME NEW X, NEW posts \in Seq(X), NEW from \in Nat, Fits(from, Len(posts))
    PROVE  PageOfKept("pool", PoolPage(posts, from), Entries(posts, Served(posts)), from)
<1> DEFINE kept == Entries(posts, Served(posts))
           results == [i \in 1..Len(kept) |-> P!PageItem(Media(kept[i]), P!AsOffset(from + i - 1))]
<1>1. PICK n \in Nat : n = Len(kept) /\ from + n < 2^(PageBits - 1)
  <2>1. kept \in Seq(X) /\ Len(kept) <= Len(posts)
    BY EntriesBound
  <2>2. Len(kept) \in Nat /\ Len(posts) \in Nat
    BY <2>1
  <2> QED BY <2>1, <2>2, SourceAssumption DEF Fits
<1>2. PoolPage(posts, from) = [results |-> results, next_offset |-> P!AsOffset(from + Len(kept)), total_count |-> 0]
  BY DEF PoolPage
<1> HIDE DEF kept
<1>3. P!AsOffset(from + Len(kept)) = from + Len(kept)
  BY <1>1, OffsetsAreWords
<1>4. \A i \in 1..Len(kept) : P!PageItem(Media(kept[i]), P!AsOffset(from + i - 1)) = ItemOf("pool", kept[i], from + i - 1)
  <2> TAKE i \in 1..Len(kept)
  <2>1. from + i - 1 \in Nat /\ from + i - 1 < 2^(PageBits - 1)
    BY <1>1, SourceAssumption
  <2>2. P!AsOffset(from + i - 1) = from + i - 1
    BY <2>1, OffsetsAreWords
  <2> QED BY <2>2 DEF ItemOf, Given
<1>5. results = [i \in 1..Len(kept) |-> ItemOf("pool", kept[i], from + i - 1)]
  BY <1>4
<1> QED BY <1>2, <1>3, <1>5 DEF PageOfKept, kept

\* page is the recursion of PostPage, over N entries.
Builds(page, posts, from, N) ==
    page = [n \in 0..N |->
              IF n = 0 THEN P!NoResults
              ELSE IF ~HasId(posts[n]) THEN page[n - 1]
              ELSE P!AppendItem(page[n - 1], from, Container(posts[n].id, Card(posts[n])))]

\* That recursion has a solution.
LEMMA BuildsExists ==
    ASSUME NEW posts, NEW from, NEW N \in Nat
    PROVE  \E page : Builds(page, posts, from, N)
<1> DEFINE T == {k \in Nat : \E page : Builds(page, posts, from, k)}
           Next1(n, last) ==
              IF n = 0 THEN P!NoResults
              ELSE IF ~HasId(posts[n]) THEN last
              ELSE P!AppendItem(last, from, Container(posts[n].id, Card(posts[n])))
<1>0. \A page, k : Builds(page, posts, from, k) <=> page = [n \in 0..k |-> Next1(n, page[n - 1])]
  BY DEF Builds
<1> HIDE DEF Next1
<1>1. 0 \in T
  <2>1. \A last : Next1(0, last) = P!NoResults
    BY DEF Next1
  <2> DEFINE g == [n \in 0..0 |-> P!NoResults]
  <2>2. g = [n \in 0..0 |-> Next1(n, g[n - 1])]
    BY <2>1
  <2> HIDE DEF g
  <2>3. Builds(g, posts, from, 0)
    BY <1>0, <2>2
  <2> QED BY <2>3
<1>2. ASSUME NEW k \in T PROVE k + 1 \in T
  <2>1. PICK f : Builds(f, posts, from, k)
    OBVIOUS
  <2>2. f = [n \in 0..k |-> Next1(n, f[n - 1])]
    BY <1>0, <2>1
  <2> DEFINE g == [n \in 0..(k + 1) |-> IF n <= k THEN f[n] ELSE Next1(n, f[n - 1])]
  <2>3. \A n \in 0..(k + 1) : n # 0 => g[n - 1] = f[n - 1]
    OBVIOUS
  <2>4. ASSUME NEW n \in 0..(k + 1) PROVE g[n] = Next1(n, g[n - 1])
    <3>0. Next1(0, g[0 - 1]) = Next1(0, f[0 - 1])
      <4> HIDE DEF g
      <4> QED BY DEF Next1
    <3>1. Next1(n, g[n - 1]) = Next1(n, f[n - 1])
      <4> HIDE DEF g
      <4> QED BY <2>3, <3>0
    <3>2. CASE n <= k
      <4>1. n \in 0..k /\ g[n] = f[n]
        BY <3>2
      <4>2. f[n] = Next1(n, f[n - 1])
        BY <2>2, <4>1
      <4> HIDE DEF g
      <4> QED BY <3>1, <4>1, <4>2
    <3>3. CASE n = k + 1
      <4>1. g[n] = Next1(n, f[n - 1])
        BY <3>3
      <4> HIDE DEF g
      <4> QED BY <3>1, <4>1
    <3> QED BY <3>2, <3>3
  <2>5. g = [n \in 0..(k + 1) |-> g[n]]
    OBVIOUS
  <2> HIDE DEF g
  <2>6. g = [n \in 0..(k + 1) |-> Next1(n, g[n - 1])]
    BY <2>4, <2>5
  <2>7. Builds(g, posts, from, k + 1)
    BY <1>0, <2>6
  <2> QED BY <2>7
<1>3. T = Nat
  <2>1. T \in SUBSET Nat
    OBVIOUS
  <2> HIDE DEF T
  <2> QED BY <1>1, <1>2, <2>1, SetInduction
<1> QED BY <1>3


\* The page build_post_page makes of the entries it keeps.
LEMMA PostPageIs ==
    ASSUME NEW X, NEW posts \in Seq(X), NEW from \in Nat, Fits(from, Len(posts)), NEW kind, kind # "pool"
    PROVE  PageOfKept(kind, PostPage(posts, from), Entries(posts, Posts(posts)), from)
<1> DEFINE N == Len(posts)
           I == Posts(posts)
<1>1. PICK f : Solves(f, posts, I, N) /\ Entries(posts, I) = f[N]
  BY EntriesByPrefix
<1>2. PICK page : Builds(page, posts, from, N) /\ PostPage(posts, from) = page[N]
  <2>1. \E page : Builds(page, posts, from, N)
    <3>1. N \in Nat
      OBVIOUS
    <3> QED BY <3>1, BuildsExists
  <2> DEFINE page == CHOOSE page : Builds(page, posts, from, N)
  <2>2. Builds(page, posts, from, N)
    BY <2>1, Zenon
  <2>3. PostPage(posts, from) = page[N]
    BY Zenon DEF PostPage, Builds
  <2> HIDE DEF page
  <2> QED BY <2>2, <2>3
<1> DEFINE Made(p, t, n) ==
             /\ t \in Seq(X) /\ Len(t) <= n
             /\ p = [results |-> p.results, next_offset |-> p.next_offset, total_count |-> p.total_count]
             /\ PageOfKept(kind, p, t, from)
           T == {n \in Nat : n <= N => Made(page[n], f[n], n)}
<1>3. N \in Nat /\ DOMAIN posts = 1..N /\ <<>> \in Seq(X) /\ Len(<<>>) = 0
  OBVIOUS
<1>4. 0 \in T
  <2>1. f[0] = <<>> /\ page[0] = P!NoResults
    BY <1>1, <1>2, <1>3 DEF Solves, Builds
  <2>2. [i \in 1..0 |-> ItemOf(kind, <<>>[i], from + i - 1)] = <<>>
    OBVIOUS
  <2>3. Made(P!NoResults, <<>>, 0)
    BY <1>3, <2>2 DEF P!NoResults, PageOfKept
  <2> HIDE DEF Made
  <2> QED BY <2>1, <2>3
<1>5. ASSUME NEW n \in T PROVE n + 1 \in T
  <2> SUFFICES ASSUME n + 1 <= N PROVE Made(page[n + 1], f[n + 1], n + 1)
    OBVIOUS
  <2>1. n \in Nat /\ n + 1 \in 1..N /\ n + 1 \in 0..N /\ (n + 1) - 1 = n /\ n + 1 # 0 /\ n <= N
    BY <1>3
  <2>2. Made(page[n], f[n], n)
    BY <2>1
  <2> HIDE DEF Made
  <2>3. f[n + 1] = IF n + 1 \in I THEN Append(f[n], posts[n + 1]) ELSE f[n]
    BY <1>1, <2>1 DEF Solves
  <2>4. page[n + 1] = IF ~HasId(posts[n + 1]) THEN page[n]
                      ELSE P!AppendItem(page[n], from, Container(posts[n + 1].id, Card(posts[n + 1])))
    BY <1>2, <2>1 DEF Builds
  <2>5. n + 1 \in I <=> HasId(posts[n + 1])
    BY <1>3, <2>1 DEF Posts
  <2>6. CASE ~HasId(posts[n + 1])
    <3>1. f[n + 1] = f[n] /\ page[n + 1] = page[n]
      BY <2>3, <2>4, <2>5, <2>6
    <3>2. f[n] \in Seq(X) /\ Len(f[n]) <= n
      BY <2>2 DEF Made
    <3>3. Len(f[n]) \in Nat
      BY <3>2
    <3>4. Len(f[n]) <= n + 1
      BY <2>1, <3>2, <3>3
    <3> QED BY <2>2, <3>1, <3>4 DEF Made
  <2>7. CASE HasId(posts[n + 1])
    <3> DEFINE e == posts[n + 1]
               u == f[n]
               p == page[n]
               v == Append(u, e)
               q == P!AppendItem(p, from, Container(e.id, Card(e)))
    <3>1. e \in X /\ u \in Seq(X) /\ Len(u) <= n /\ Made(p, u, n) /\ f[n + 1] = v /\ page[n + 1] = q
      BY <2>1, <2>2, <2>3, <2>4, <2>5, <2>7 DEF Made
    <3> HIDE DEF e, u, p
    <3>2. /\ Len(u) \in Nat /\ v \in Seq(X) /\ Len(v) = Len(u) + 1 /\ v[Len(u) + 1] = e
          /\ \A i \in 1..Len(u) : v[i] = u[i]
      BY <3>1
    <3>3. /\ p.results = [i \in 1..Len(u) |-> ItemOf(kind, u[i], from + i - 1)] /\ Len(p.results) = Len(u)
          /\ p = [results |-> p.results, next_offset |-> p.next_offset, total_count |-> p.total_count]
      BY <3>1, <3>2 DEF Made, PageOfKept
    <3>4. /\ P!AsOffset(from + Len(u)) = from + Len(u)
          /\ P!AsOffset(from + Len(u) + 1) = from + Len(u) + 1
      <4>1. PICK k \in Nat : k = Len(u) /\ k <= n
        BY <3>1, <3>2
      <4>2. from + k + 1 < 2^(PageBits - 1)
        BY <1>3, <2>1, <4>1, SourceAssumption DEF Fits
      <4>3. from + k < 2^(PageBits - 1)
        BY <4>2, SourceAssumption
      <4> QED BY <4>1, <4>2, <4>3, OffsetsAreWords
    <3>8. /\ q = [results |-> Append(p.results, ItemOf(kind, e, from + Len(u))),
                  next_offset |-> from + Len(u) + 1, total_count |-> p.total_count]
      <4> DEFINE item == Container(e.id, Card(e))
      <4>1. P!AppendItem(p, from, item)
              = [results |-> Append(p.results, P!PageItem(item, P!AsOffset(from + Len(p.results)))),
                 next_offset |-> P!AsOffset(from + Len(p.results) + 1), total_count |-> p.total_count]
        <5> HIDE DEF item
        <5>1. PICK a : a = p.results
          OBVIOUS
        <5>2. PICK b : b = p.next_offset
          OBVIOUS
        <5>3. PICK c : c = p.total_count
          OBVIOUS
        <5>4. p = [results |-> a, next_offset |-> b, total_count |-> c]
          BY <3>3, <5>1, <5>2, <5>3
        <5> DEFINE made == Append(a, P!PageItem(item, P!AsOffset(from + Len(a))))
                   end == P!AsOffset(from + Len(a) + 1)
        <5>5. P!AppendItem(p, from, item) = [p EXCEPT !.results = made, !.next_offset = end]
          BY <5>1 DEF P!AppendItem
        <5> HIDE DEF made, end
        <5>6. [p EXCEPT !.results = made, !.next_offset = end] = [[p EXCEPT !.results = made] EXCEPT !.next_offset = end]
          BY <5>4
        <5>7. [p EXCEPT !.results = made] = [results |-> made, next_offset |-> b, total_count |-> c]
          BY <5>4
        <5>8. [[results |-> made, next_offset |-> b, total_count |-> c] EXCEPT !.next_offset = end]
                = [results |-> made, next_offset |-> end, total_count |-> c]
          OBVIOUS
        <5>9. P!AppendItem(p, from, item) = [results |-> made, next_offset |-> end, total_count |-> c]
          BY <5>5, <5>6, <5>7, <5>8, Zenon
        <5> QED BY <5>1, <5>3, <5>9, Zenon DEF made, end
      <4> QED BY <3>3, <3>4, <4>1, Zenon DEF ItemOf, Given
    <3> HIDE DEF v, q
    <3>5. Append(p.results, ItemOf(kind, e, from + Len(u))) = [i \in 1..Len(v) |-> ItemOf(kind, v[i], from + i - 1)]
      <4> DEFINE r == p.results
                 x == ItemOf(kind, e, from + Len(u))
                 w == [i \in 1..Len(v) |-> ItemOf(kind, v[i], from + i - 1)]
      <4>1. Append(r, x) = [i \in 1..(Len(u) + 1) |-> IF i = Len(u) + 1 THEN x ELSE r[i]]
        <5>1. Len(r) = Len(u) /\ Append(r, x) = [i \in 1..(Len(r) + 1) |-> IF i = Len(r) + 1 THEN x ELSE r[i]]
          BY <3>2, <3>3
        <5> QED BY <5>1
      <4>2. \A i \in 1..(Len(u) + 1) : (IF i = Len(u) + 1 THEN x ELSE r[i]) = ItemOf(kind, v[i], from + i - 1)
        <5> TAKE i \in 1..(Len(u) + 1)
        <5>1. CASE i = Len(u) + 1
          <6>1. v[i] = e /\ from + i - 1 = from + Len(u)
            BY <3>2, <5>1
          <6> QED BY <5>1, <6>1
        <5>2. CASE i # Len(u) + 1
          <6>1. i \in 1..Len(u)
            BY <3>2, <5>2
          <6>2. r[i] = ItemOf(kind, u[i], from + i - 1) /\ v[i] = u[i]
            BY <3>2, <3>3, <6>1
          <6> QED BY <5>2, <6>2
        <5> QED BY <5>1, <5>2
      <4> QED BY <3>2, <4>1, <4>2
    <3>6. from + Len(u) + 1 = from + Len(v)
      BY <3>2
    <3>7. Made(q, v, n + 1)
      <4>1. Len(v) <= n + 1
        BY <2>1, <3>1, <3>2
      <4> QED BY <3>2, <3>5, <3>6, <3>8, <4>1 DEF Made, PageOfKept
    <3> QED BY <3>1, <3>7
  <2> QED BY <2>6, <2>7
<1>6. N \in T
  <2>1. T \in SUBSET Nat
    OBVIOUS
  <2> HIDE DEF T
  <2> QED BY <1>3, <1>4, <1>5, <2>1, SetInduction
<1>7. Made(page[N], f[N], N)
  BY <1>3, <1>6
<1> QED BY <1>1, <1>2, <1>7


-----------------------------------------------------------------------------
(* What a caller gets of a page *)

\* The page is of these entries: an item for each that is due, none that is not one of
\* them, and if all are served just them.
Shows(kind, page, posts, from) ==
    /\ page.results \in Seq(Items) /\ Len(page.results) <= Len(posts)
    /\ page.results # <<>> => page.next_offset = from + Len(page.results)
    /\ \A i \in DOMAIN posts : Due(kind, posts[i]) =>
         \E k \in DOMAIN page.results : page.results[k].item.id = posts[i].id
    /\ \A k \in DOMAIN page.results : \E i \in DOMAIN posts :
         page.results[k].item = Given(kind, posts[i]) /\ (kind # "pool" => HasId(posts[i]))
    /\ (\A i \in DOMAIN posts : posts[i].state = "served") =>
         /\ Len(page.results) = Len(posts)
         /\ \A k \in DOMAIN posts : /\ page.results[k].item.id = posts[k].id
                                    /\ page.results[k].offset = from + k - 1

\* So are those of what is kept, if what is due is.
LEMMA KeptShows ==
    ASSUME NEW posts \in Seq(AnyEntry), NEW from \in Nat, NEW page,
           NEW I \in SUBSET DOMAIN posts, NEW kind, \A i \in DOMAIN posts : Due(kind, posts[i]) => i \in I,
           \A i \in I : kind # "pool" => HasId(posts[i]),
           PageOfKept(kind, page, Entries(posts, I), from)
    PROVE  Shows(kind, page, posts, from)
<1> DEFINE kept == Entries(posts, I)
           results == page.results
<1>1. /\ kept \in Seq(AnyEntry) /\ Len(kept) \in Nat /\ Len(kept) <= Len(posts)
      /\ DOMAIN posts \subseteq I => Len(kept) = Len(posts) /\ \A i \in DOMAIN posts : kept[i] = posts[i]
  <2>1. /\ kept \in Seq(AnyEntry) /\ Len(kept) <= Len(posts)
        /\ DOMAIN posts \subseteq I => Len(kept) = Len(posts) /\ \A i \in DOMAIN posts : kept[i] = posts[i]
    <3> HIDE DEF AnyEntry
    <3> QED BY EntriesBound
  <2> HIDE DEF kept
  <2> QED BY <2>1
<1>2. PICK e : Places(e, kept, posts, I)
  <2> HIDE DEF AnyEntry
  <2> QED BY EntriesByIndex
<1>3. /\ results = [i \in 1..Len(kept) |-> ItemOf(kind, kept[i], from + i - 1)]
      /\ kept # <<>> => page.next_offset = from + Len(kept)
  BY DEF PageOfKept
<1> HIDE DEF kept, results
<1>4. DOMAIN kept = 1..Len(kept) /\ \A i \in 1..Len(kept) : kept[i] \in AnyEntry
  <2> HIDE DEF AnyEntry
  <2> QED BY <1>1
<1>5. \A i \in 1..Len(kept) :
        /\ results[i].item = Given(kind, kept[i])
        /\ results[i].item.id = kept[i].id /\ results[i].offset = from + i - 1
        /\ results[i] \in Items
  <2> TAKE i \in 1..Len(kept)
  <2>1. results[i] = ItemOf(kind, kept[i], from + i - 1)
    BY <1>3
  <2>2. /\ kept[i] \in AnyEntry /\ from + i - 1 \in Nat
    BY <1>1, <1>4
  <2>3. \A entry \in AnyEntry, offset \in Nat :
          /\ ItemOf(kind, entry, offset) \in Items
          /\ ItemOf(kind, entry, offset).item = Given(kind, entry)
          /\ ItemOf(kind, entry, offset).item.id = entry.id
          /\ ItemOf(kind, entry, offset).offset = offset
    <3> TAKE entry \in AnyEntry, offset \in Nat
    <3>1. Given(kind, entry) \in Getters /\ Given(kind, entry).id = entry.id
      <4>1. CASE kind = "pool"
        BY <4>1 DEF Given, Media, AnyEntry, Getters, Cards
      <4>2. CASE kind # "pool"
        BY <4>2 DEF Given, Container, Card, AnyEntry, Getters, Cards
      <4> QED BY <4>1, <4>2
    <3> QED BY <3>1 DEF ItemOf, P!PageItem, Items
  <2> QED BY <2>1, <2>2, <2>3
<1>6. results \in Seq(Items) /\ Len(results) = Len(kept) /\ DOMAIN results = 1..Len(kept)
  <2>1. results \in [1..Len(kept) -> Items]
    BY <1>3, <1>5
  <2> HIDE DEF Items
  <2> QED BY <1>1, <2>1
<1>7. results # <<>> => page.next_offset = from + Len(results)
  <2>1. kept = <<>> => results = <<>>
    BY <1>3
  <2> QED BY <1>3, <1>6, <2>1
<1>8. ASSUME NEW i \in DOMAIN posts, Due(kind, posts[i])
      PROVE  \E k \in DOMAIN results : results[k].item.id = posts[i].id
  <2>1. i \in I
    BY <1>8
  <2>2. PICK k \in DOMAIN kept : kept[k] = posts[i]
    BY <1>2, <2>1 DEF Places
  <2> QED BY <1>4, <1>5, <1>6, <2>2
<1>9. ASSUME NEW k \in DOMAIN results
      PROVE  \E i \in DOMAIN posts :
                results[k].item = Given(kind, posts[i]) /\ (kind # "pool" => HasId(posts[i]))
  <2>1. PICK i \in I : kept[k] = posts[i]
    BY <1>2, <1>4, <1>6 DEF Places
  <2> QED BY <1>5, <1>6, <2>1
<1>10. ASSUME \A i \in DOMAIN posts : posts[i].state = "served"
       PROVE  /\ Len(results) = Len(posts)
              /\ \A k \in DOMAIN posts : /\ results[k].item.id = posts[k].id
                                         /\ results[k].offset = from + k - 1
  <2>1. DOMAIN posts \subseteq I
    BY <1>10 DEF Due, Servable, HasId
  <2>2. DOMAIN posts = 1..Len(posts)
    OBVIOUS
  <2> QED BY <1>1, <1>5, <1>6, <2>1, <2>2
<1>11. results \in Seq(Items) /\ Len(results) <= Len(posts)
  BY <1>1, <1>6
<1> HIDE DEF Items
<1> QED BY <1>7, <1>8, <1>9, <1>10, <1>11 DEF Shows, results

\* Both kinds of pages do.
LEMMA PageShows ==
    ASSUME NEW posts \in Seq(AnyEntry), NEW from \in Nat, Fits(from, Len(posts))
    PROVE  /\ Shows("pool", PoolPage(posts, from), posts, from)
           /\ \A kind : kind # "pool" => Shows(kind, PostPage(posts, from), posts, from)
<1>1. /\ Served(posts) \subseteq DOMAIN posts /\ Posts(posts) \subseteq DOMAIN posts
      /\ \A i \in DOMAIN posts : Due("pool", posts[i]) => i \in Served(posts)
      /\ \A kind : kind # "pool" => \A i \in DOMAIN posts : Due(kind, posts[i]) => i \in Posts(posts)
      /\ \A i \in Posts(posts) : HasId(posts[i])
  BY DEF Served, Posts, Due
<1> HIDE DEF AnyEntry
<1>2. Shows("pool", PoolPage(posts, from), posts, from)
  BY <1>1, PoolPageIs, KeptShows
<1>3. ASSUME NEW kind, kind # "pool" PROVE Shows(kind, PostPage(posts, from), posts, from)
  <2>1. PageOfKept(kind, PostPage(posts, from), Entries(posts, Posts(posts)), from)
    BY <1>3, PostPageIs
  <2> QED BY <1>1, <1>3, <2>1, KeptShows
<1> QED BY <1>2, <1>3

\* The entries of an answer follow one another in the listing from the offset on, and
\* there are some unless the offset is at the end.
LEMMA PostsAre ==
    ASSUME NEW filters, filters.from \in Nat, filters.limit \in {1, P!PageNoLimit},
           listing \in Seq(AnyEntry), filters.from < 2^(PageBits - 1)
    PROVE  /\ PostsOf(filters) \in Seq(AnyEntry)
           /\ \A i \in DOMAIN PostsOf(filters) :
                /\ filters.from + i \in DOMAIN listing
                /\ PostsOf(filters)[i] = listing[filters.from + i]
           /\ PostsOf(filters) = <<>> => filters.from >= Len(listing)
<1> DEFINE want == P!ClampLimit(filters.limit, Cap, Cap)
           paging == P!OffsetPaging(filters.from, want, PageSize)
           q == P!PageOf(paging, 0)
           r == P!SkipOf(paging)
           first == (q * PageSize) + r + 1
           last == (q + 1) * PageSize
           end == IF last < Len(listing) THEN last ELSE Len(listing)
           page == SubSeq(listing, first, end)
           posts == SubSeq(page, 1, IF Len(page) < want THEN Len(page) ELSE want)
<1>1. PostsOf(filters) = posts
  BY DEF PostsOf
<1>2. want \in Nat \ {0}
  <2>1. 2^PageBits = 2 * 2^(PageBits - 1) /\ 2^(PageBits - 1) \in Nat \ {0, 1} /\ Cap \in Nat \ {0}
    BY SourceAssumption
  <2>2. PICK h \in Nat \ {0, 1} : h = 2^(PageBits - 1)
    BY <2>1
  <2>3. P!PageNoLimit = 2 * h - 1 /\ P!PageNoLimit # 1
    BY <2>1, <2>2 DEF P!PageNoLimit
  <2>4. CASE filters.limit = P!PageNoLimit
    BY <2>1, <2>4 DEF P!ClampLimit
  <2>5. CASE filters.limit = 1
    <3>1. P!AsOffset(1) = 1
      BY <2>2 DEF P!AsOffset
    <3> QED BY <2>1, <2>3, <2>5, <3>1 DEF P!ClampLimit
  <2> QED BY <2>4, <2>5
<1>3. PICK from \in Nat : from = filters.from
  OBVIOUS
<1>4. PageSize \in Nat \ {0}
  BY SourceAssumption
<1> HIDE DEF want
<1>5. q = from \div PageSize /\ r = from % PageSize
  <2>1. paging.from = from /\ paging.stride = PageSize /\ PageSize > 0
    BY <1>3, <1>4 DEF P!OffsetPaging
  <2>2. PICK k \in Nat : k = from \div PageSize /\ k <= from
    <3>1. PICK m \in Nat \ {0} : m = PageSize
      BY <1>4
    <3>2. from \div m \in Nat /\ from \div m <= from
      OBVIOUS
    <3> QED BY <3>1, <3>2, Zenon
  <2>3. P!AsOffset(from \div PageSize + 0) = from \div PageSize
    <3>1. k + 0 = k /\ k < 2^(PageBits - 1)
      BY <1>3, <2>2, SourceAssumption
    <3> QED BY <2>2, <3>1, OffsetsAreWords
  <2> HIDE DEF paging
  <2> QED BY <2>1, <2>3 DEF P!PageOf, P!SkipOf
<1> HIDE DEF q, r
<1>6. q \in Nat /\ r \in Nat /\ from = q * PageSize + r /\ r < PageSize
  BY <1>4, <1>5
<1>7. first = from + 1 /\ last \in Nat /\ from < last
  BY <1>4, <1>6
<1> HIDE DEF first, last
<1>8. Len(listing) \in Nat /\ end \in Nat /\ end <= Len(listing) /\ (from < Len(listing) => from < end)
      /\ DOMAIN listing = 1..Len(listing)
  BY <1>7
<1> HIDE DEF end, AnyEntry
<1>9. CASE from < end
  <2>1. /\ page \in Seq(AnyEntry) /\ Len(page) = end - from
        /\ \A i \in 1..(end - from) : page[i] = listing[from + i] /\ from + i \in DOMAIN listing
    BY <1>7, <1>8, <1>9
  <2> HIDE DEF page
  <2> DEFINE k == IF Len(page) < want THEN Len(page) ELSE want
  <2>2. k \in Nat \ {0} /\ k <= Len(page)
    BY <1>2, <1>8, <1>9, <2>1
  <2> HIDE DEF k
  <2>3. /\ SubSeq(page, 1, k) \in Seq(AnyEntry) /\ Len(SubSeq(page, 1, k)) = k
        /\ \A i \in 1..k : SubSeq(page, 1, k)[i] = page[i]
    BY <2>1, <2>2
  <2>4. posts = SubSeq(page, 1, k)
    BY DEF k
  <2> HIDE DEF posts
  <2>5. DOMAIN posts = 1..k /\ posts # <<>>
    BY <2>2, <2>3, <2>4
  <2>6. \A i \in 1..k : i \in 1..(end - from)
    BY <1>8, <2>1, <2>2
  <2> QED BY <1>1, <1>3, <2>1, <2>3, <2>4, <2>5, <2>6
<1>10. CASE ~(from < end)
  <2>1. page = <<>>
    BY <1>7, <1>8, <1>10
  <2> HIDE DEF page
  <2>2. (IF Len(page) < want THEN Len(page) ELSE want) = 0 /\ Len(<<>>) = 0
    BY <1>2, <2>1
  <2>3. posts = <<>>
    BY <2>1, <2>2
  <2> HIDE DEF posts
  <2> QED BY <1>1, <1>3, <1>8, <1>10, <2>3
<1> QED BY <1>9, <1>10


-----------------------------------------------------------------------------
(* The invariant *)

\* Entries and walks are what they should be.
WalkShape ==
    /\ listing \in Seq(AnyEntry)
    /\ DOMAIN walk = {"step", "kind", "filters", "given", "started", "quiet"}
    /\ DOMAIN walk.filters = {"from", "limit"}
    /\ walk.step \in {"none", "refused", "turn", "done"}
    /\ walk.filters.from \in Nat /\ walk.filters.from <= Len(listing) /\ Len(listing) <= MaxPosts
    /\ walk.step # "none" => walk.filters.limit \in {1, P!PageNoLimit}
    /\ walk.given \in Seq(Items)

\* No two entries have one id, and the next one published has another.
OneEach ==
    /\ \A i \in 1..Len(listing) : listing[i].id \in 1..Len(listing)
    /\ \A i, j \in 1..Len(listing) : listing[i].id = listing[j].id => i = j
    /\ walk.started \subseteq 1..Len(listing)

\* What was given is still what the source has, and if all is served it is all of it so far.
ShowsListed(kind, given, entries) ==
    \A k \in 1..Len(given) : \E i \in 1..Len(entries) :
        given[k].item = Given(kind, entries[i]) /\ (kind # "pool" => HasId(entries[i]))

RunsFromStart(given, from, step, entries) ==
    /\ Len(given) = from /\ from <= Len(entries)
    /\ step = "done" => from = Len(entries)
    /\ \A k \in 1..Len(given) : given[k].item.id = entries[k].id /\ given[k].offset = k - 1

QuietInv ==
    walk.quiet =>
        /\ ShowsListed(walk.kind, walk.given, listing)
        /\ Whole /\ walk.step \in {"turn", "done"} =>
              RunsFromStart(walk.given, walk.filters.from, walk.step, listing)

WalkInv == WalkShape /\ OneEach /\ NothingIsSkipped /\ QuietInv

\* Before there is a listing there is no walk.
LEMMA WalkInit == SourceInit => WalkInv
<1> SUFFICES ASSUME SourceInit PROVE WalkInv
  OBVIOUS
<1>1. listing = <<>> /\ walk = NoWalk /\ Len(<<>>) = 0 /\ <<>> \in Seq(AnyEntry) /\ <<>> \in Seq(Items)
  BY DEF SourceInit
<1>2. /\ walk.step = "none" /\ walk.filters = [from |-> 0, limit |-> 0] /\ walk.given = <<>> /\ walk.started = {}
      /\ DOMAIN walk = {"step", "kind", "filters", "given", "started", "quiet"}
  BY <1>1 DEF NoWalk
<1>3. WalkShape
  BY <1>1, <1>2, SourceAssumption DEF WalkShape
<1>4. OneEach /\ NothingIsSkipped /\ QuietInv
  BY <1>1, <1>2 DEF OneEach, NothingIsSkipped, QuietInv, ShowsListed, RunsFromStart
<1> QED BY <1>3, <1>4 DEF WalkInv

\* A walk begins with nothing given.
LEMMA BeginStep ==
    ASSUME WalkInv, NEW kind, NEW limit \in {1, P!PageNoLimit}, NEW sort, NEW n \in 0..MaxPosts,
           NEW states \in [1..n -> States], BeginWalk(kind, limit, sort, [i \in 1..n |-> Entry(i, states[i])])
    PROVE  WalkInv'
<1> DEFINE entries == [i \in 1..n |-> Entry(i, states[i])]
           started == {entries[i].id : i \in DOMAIN entries}
           step == IF Errors(kind, sort) = {} THEN "turn" ELSE "refused"
           filters == [from |-> 0, limit |-> limit]
<1>0. n \in Nat /\ n <= MaxPosts
  BY SourceAssumption
<1>1. /\ listing' = entries
      /\ walk' = [NoWalk EXCEPT !.kind = kind, !.filters = filters, !.started = started, !.step = step]
  BY DEF BeginWalk
<1>2. \A i \in 1..n : entries[i] \in AnyEntry /\ entries[i].id = i
  BY <1>0 DEF Entry, AnyEntry
<1>3. entries \in Seq(AnyEntry) /\ Len(entries) = n /\ started \subseteq 1..n
  <2>1. entries \in [1..n -> AnyEntry] /\ DOMAIN entries = 1..n
    BY <1>2
  <2> HIDE DEF entries, AnyEntry
  <2>2. entries \in Seq(AnyEntry) /\ Len(entries) = n
    BY <1>0, <2>1
  <2> QED BY <1>2, <2>1, <2>2
<1>4. step \in {"turn", "refused"}
  OBVIOUS
<1> HIDE DEF entries, started, step
<1>5. /\ DOMAIN walk' = {"step", "kind", "filters", "given", "started", "quiet"}
      /\ walk'.filters = filters /\ walk'.given = <<>> /\ walk'.started = started /\ walk'.step = step
  BY <1>1 DEF NoWalk
<1>6. Len(<<>>) = 0 /\ <<>> \in Seq(Items)
  OBVIOUS
<1>7. WalkShape'
  <2>1. listing' \in Seq(AnyEntry) /\ Len(listing') = n /\ 0 <= n /\ n <= MaxPosts
    BY <1>0, <1>1, <1>3
  <2>2. DOMAIN walk'.filters = {"from", "limit"} /\ walk'.filters.from = 0 /\ walk'.filters.limit = limit
    BY <1>5
  <2> QED BY <1>4, <1>5, <1>6, <2>1, <2>2 DEF WalkShape
<1>8. OneEach'
  BY <1>1, <1>2, <1>3, <1>5 DEF OneEach
<1>9. NothingIsSkipped'
  BY <1>1, <1>3, <1>5 DEF NothingIsSkipped
<1>10. QuietInv'
  BY <1>1, <1>3, <1>4, <1>5, <1>6 DEF QuietInv, ShowsListed, RunsFromStart
<1> QED BY <1>7, <1>8, <1>9, <1>10 DEF WalkInv

\* A new post moves all others, which only makes the offset reach fewer of them.
LEMMA PublishStep ==
    ASSUME WalkInv, Publish
    PROVE  WalkInv'
<1> DEFINE N == Len(listing)
           new == Entry(N + 1, "served")
<1>1. listing' = <<new>> \o listing /\ walk' = [walk EXCEPT !.quiet = FALSE] /\ N < MaxPosts
  BY DEF Publish
<1>2. listing \in Seq(AnyEntry) /\ N \in Nat /\ new \in AnyEntry /\ new.id = N + 1
  <2>1. listing \in Seq(AnyEntry)
    BY DEF WalkInv, WalkShape
  <2>2. N \in Nat
    <3> HIDE DEF AnyEntry
    <3> QED BY <2>1
  <2> QED BY <2>1, <2>2 DEF Entry, AnyEntry, States
<1>3. /\ listing' \in Seq(AnyEntry) /\ Len(listing') = N + 1 /\ listing'[1] = new
      /\ \A i \in 1..N : listing'[i + 1] = listing[i]
  <2> DEFINE one == <<new>>
  <2>1. one \in Seq(AnyEntry) /\ Len(one) = 1 /\ one[1] = new
    BY <1>2
  <2> HIDE DEF one, AnyEntry
  <2>2. /\ one \o listing \in Seq(AnyEntry) /\ Len(one \o listing) = 1 + N
        /\ \A i \in 1..(1 + N) : (one \o listing)[i] = IF i <= 1 THEN one[i] ELSE listing[i - 1]
    <3>1. /\ one \o listing \in Seq(AnyEntry) /\ Len(one \o listing) = Len(one) + N
          /\ \A i \in 1..(Len(one) + N) :
               (one \o listing)[i] = IF i <= Len(one) THEN one[i] ELSE listing[i - Len(one)]
      BY <1>2, <2>1, ConcatProperties, Zenon
    <3> QED BY <2>1, <3>1
  <2>3. \A i \in 1..N : (one \o listing)[i + 1] = listing[i]
    <3> TAKE i \in 1..N
    <3>1. i + 1 \in 1..(1 + N) /\ ~(i + 1 <= 1) /\ (i + 1) - 1 = i
      BY <1>2
    <3> QED BY <2>2, <3>1
  <2> QED BY <1>1, <1>2, <2>1, <2>2, <2>3 DEF one
<1>4. /\ DOMAIN walk' = DOMAIN walk /\ walk'.quiet = FALSE /\ walk'.step = walk.step
      /\ walk'.filters = walk.filters /\ walk'.given = walk.given /\ walk'.started = walk.started
      /\ walk'.kind = walk.kind
  BY <1>1 DEF WalkInv, WalkShape
<1>11. walk.filters.from \in Nat /\ walk.filters.from <= N
  BY DEF WalkInv, WalkShape
<1> HIDE DEF new, N
<1>5. \A j \in 1..(N + 1) : j = 1 \/ \E i \in 1..N : j = i + 1 /\ listing'[j] = listing[i]
  <2> TAKE j \in 1..(N + 1)
  <2>1. j # 1 => j - 1 \in 1..N /\ j = (j - 1) + 1
    BY <1>2
  <2> QED BY <1>3, <2>1
<1>6. WalkShape'
  <2>1. walk'.filters.from <= Len(listing') /\ Len(listing') <= MaxPosts
    BY <1>1, <1>2, <1>3, <1>4, <1>11, SourceAssumption
  <2> QED BY <1>3, <1>4, <2>1 DEF WalkInv, WalkShape
<1>7. OneEach /\ NothingIsSkipped
  BY DEF WalkInv
<1>8. OneEach'
  <2>1. /\ \A i \in 1..N : listing[i].id \in 1..N
        /\ \A i, j \in 1..N : listing[i].id = listing[j].id => i = j
        /\ walk.started \subseteq 1..N
    BY <1>7 DEF OneEach, N
  <2>2. \A i \in 1..(N + 1) : listing'[i].id \in 1..(N + 1)
    BY <1>2, <1>3, <1>5, <2>1
  <2>3. \A i, j \in 1..(N + 1) : listing'[i].id = listing'[j].id => i = j
    <3> TAKE i, j \in 1..(N + 1)
    <3> HAVE listing'[i].id = listing'[j].id
    <3>1. CASE i = 1 \/ j = 1
      <4>1. \A k \in 1..N : listing[k].id # N + 1
        BY <1>2, <2>1
      <4>2. \A k \in 1..(N + 1) : k # 1 => listing'[k].id # listing'[1].id
        BY <1>2, <1>3, <1>5, <4>1
      <4> QED BY <3>1, <4>2
    <3>2. CASE i # 1 /\ j # 1
      <4>1. PICK k \in 1..N : i = k + 1 /\ listing'[i] = listing[k]
        BY <1>5, <3>2
      <4>2. PICK l \in 1..N : j = l + 1 /\ listing'[j] = listing[l]
        BY <1>5, <3>2
      <4> QED BY <2>1, <4>1, <4>2
    <3> QED BY <3>1, <3>2
  <2>4. walk'.started \subseteq 1..(N + 1)
    BY <1>2, <1>4, <2>1
  <2> QED BY <1>3, <2>2, <2>3, <2>4 DEF OneEach
<1>9. NothingIsSkipped'
  <2> SUFFICES ASSUME NEW j \in 1..(N + 1), walk'.step \in {"turn", "done"}, listing'[j].id \in walk'.started,
                      Due(walk'.kind, listing'[j]), j <= walk'.filters.from
               PROVE  listing'[j].id \in Seen'
    BY <1>3 DEF NothingIsSkipped
  <2>1. j # 1
    BY <1>2, <1>3, <1>4, <1>7 DEF OneEach, N
  <2>2. PICK i \in 1..N : j = i + 1 /\ listing'[j] = listing[i]
    BY <1>5, <2>1
  <2>3. i <= walk.filters.from
    BY <1>4, <2>2 DEF WalkInv, WalkShape
  <2>4. listing[i].id \in Seen
    BY <1>4, <1>7, <2>2, <2>3 DEF NothingIsSkipped, N
  <2> QED BY <1>4, <2>2, <2>4 DEF Seen
<1>10. QuietInv'
  BY <1>4 DEF QuietInv, ShowsListed, RunsFromStart
<1> QED BY <1>6, <1>8, <1>9, <1>10 DEF WalkInv

\* A post that is withheld need not be given any more.
LEMMA WithholdStep ==
    ASSUME WalkInv, NEW i \in 1..Len(listing), Withhold(i)
    PROVE  WalkInv'
<1>1. listing' = [listing EXCEPT ![i].state = "withheld"] /\ walk' = [walk EXCEPT !.quiet = FALSE]
  BY DEF Withhold
<1>2. listing \in Seq(AnyEntry)
  BY DEF WalkInv, WalkShape
<1>3. \A j \in 1..Len(listing) : listing[j] \in AnyEntry
  <2> HIDE DEF AnyEntry
  <2> QED BY <1>2
<1>4. DOMAIN listing = 1..Len(listing) /\ Len(listing) \in Nat
  <2> HIDE DEF AnyEntry
  <2> QED BY <1>2
<1>5. /\ \A j \in 1..Len(listing) : /\ listing'[j] \in AnyEntry /\ listing'[j].id = listing[j].id
                                    /\ \A kind : Due(kind, listing'[j]) => Due(kind, listing[j])
  BY <1>1, <1>3, <1>4 DEF AnyEntry, States, Due, Servable, HasId
<1>6. listing' \in Seq(AnyEntry) /\ Len(listing') = Len(listing)
  <2>1. DOMAIN listing' = 1..Len(listing) /\ listing' = [j \in 1..Len(listing) |-> listing'[j]]
    BY <1>1, <1>4
  <2> HIDE DEF AnyEntry
  <2>2. listing' \in [1..Len(listing) -> AnyEntry]
    BY <1>5, <2>1
  <2> QED BY <1>4, <2>2
<1>7. /\ DOMAIN walk' = DOMAIN walk /\ walk'.quiet = FALSE /\ walk'.step = walk.step
      /\ walk'.filters = walk.filters /\ walk'.given = walk.given /\ walk'.started = walk.started
      /\ walk'.kind = walk.kind
  BY <1>1 DEF WalkInv, WalkShape
<1>8. WalkShape'
  BY <1>6, <1>7 DEF WalkInv, WalkShape
<1>9. OneEach'
  BY <1>5, <1>6, <1>7 DEF WalkInv, OneEach
<1>10. NothingIsSkipped'
  <2>1. Seen' = Seen
    BY <1>7 DEF Seen
  <2>2. ASSUME NEW j \in 1..Len(listing), walk.step \in {"turn", "done"}, listing'[j].id \in walk.started,
               Due(walk.kind, listing'[j]), j <= walk.filters.from
        PROVE  listing'[j].id \in Seen
    BY <1>5, <2>2 DEF WalkInv, NothingIsSkipped
  <2> QED BY <1>6, <1>7, <2>1, <2>2 DEF NothingIsSkipped
<1>11. QuietInv'
  BY <1>7 DEF QuietInv, ShowsListed, RunsFromStart
<1> QED BY <1>8, <1>9, <1>10, <1>11 DEF WalkInv


\* A page that was asked for of what the source has now.
LEMMA PageStep ==
    ASSUME WalkInv, TurnPage
    PROVE  WalkInv'
<1> DEFINE from == walk.filters.from
           given == walk.given
           posts == PostsOf(walk.filters)
           results == Page.results
           kind == walk.kind
           N == Len(listing)
<1>1. WalkShape /\ OneEach /\ NothingIsSkipped /\ QuietInv /\ walk.step = "turn"
  BY DEF WalkInv, TurnPage
<1>2. /\ from \in Nat /\ listing \in Seq(AnyEntry) /\ given \in Seq(Items)
      /\ walk.filters.limit \in {1, P!PageNoLimit}
      /\ from <= N /\ N <= MaxPosts /\ MaxPosts < 2^(PageBits - 1) /\ 2^(PageBits - 1) \in Nat /\ MaxPosts \in Nat
  BY <1>1, SourceAssumption DEF WalkShape
<1>3. /\ posts \in Seq(AnyEntry)
      /\ \A i \in DOMAIN posts : from + i \in DOMAIN listing /\ posts[i] = listing[from + i]
      /\ posts = <<>> => from >= N
  <2>1. N \in Nat
    <3> HIDE DEF AnyEntry
    <3> QED BY <1>2
  <2>2. from < 2^(PageBits - 1)
    BY <1>2, <2>1
  <2> QED BY <1>2, <2>2, PostsAre
<1>4. Fits(from, Len(posts)) /\ Shows(kind, Page, posts, from)
  <2>1. Len(posts) \in Nat /\ DOMAIN posts = 1..Len(posts) /\ N \in Nat /\ DOMAIN listing = 1..N
    <3> HIDE DEF AnyEntry, posts
    <3> QED BY <1>2, <1>3
  <2>2. from + Len(posts) <= N
    <3>1. CASE Len(posts) = 0
      BY <1>2, <2>1, <3>1
    <3>2. CASE Len(posts) # 0
      <4>1. Len(posts) \in DOMAIN posts
        BY <2>1, <3>2
      <4> QED BY <1>3, <2>1, <4>1
    <3> QED BY <3>1, <3>2
  <2>3. Fits(from, Len(posts))
    <3> HIDE DEF posts, from, N
    <3> QED BY <1>2, <2>1, <2>2 DEF Fits
  <2>4. Page = IF kind = "pool" THEN PoolPage(posts, from) ELSE PostPage(posts, from)
    BY DEF Page
  <2> HIDE DEF posts, from, kind
  <2>5. /\ Shows("pool", PoolPage(posts, from), posts, from)
        /\ kind # "pool" => Shows(kind, PostPage(posts, from), posts, from)
    BY <1>2, <1>3, <2>3, PageShows
  <2>6. CASE kind = "pool"
    BY <2>3, <2>4, <2>5, <2>6
  <2>7. CASE kind # "pool"
    BY <2>3, <2>4, <2>5, <2>7
  <2> QED BY <2>6, <2>7
<1>5. /\ listing' = listing
      /\ walk' = [walk EXCEPT !.given = given \o results,
                              !.filters.from = IF results = <<>> THEN from ELSE Page.next_offset,
                              !.step = IF results = <<>> THEN "done" ELSE "turn"]
  BY DEF TurnPage
<1>6. /\ results \in Seq(Items) /\ Len(results) <= Len(posts)
      /\ results # <<>> => Page.next_offset = from + Len(results)
  BY <1>4 DEF Shows
<1> DEFINE all == given \o results
           next == IF results = <<>> THEN from ELSE Page.next_offset
           step == IF results = <<>> THEN "done" ELSE "turn"
<1>7. /\ DOMAIN walk' = DOMAIN walk /\ DOMAIN walk'.filters = DOMAIN walk.filters
      /\ walk'.given = all /\ walk'.filters.from = next /\ walk'.filters.limit = walk.filters.limit
      /\ walk'.step = step /\ walk'.started = walk.started /\ walk'.quiet = walk.quiet /\ walk'.kind = kind
  <2> HIDE DEF all, next, step
  <2>1. walk' = [walk EXCEPT !.given = all, !.filters.from = next, !.step = step]
    BY <1>5 DEF all, next, step
  <2> QED BY <1>1, <2>1 DEF WalkShape
<1>8. /\ N \in Nat /\ DOMAIN listing = 1..N /\ Len(posts) \in Nat /\ DOMAIN posts = 1..Len(posts)
      /\ Len(given) \in Nat /\ Len(results) \in Nat /\ DOMAIN results = 1..Len(results)
      /\ (results = <<>> <=> Len(results) = 0) /\ (posts = <<>> <=> Len(posts) = 0)
  <2> HIDE DEF AnyEntry, Items, posts, results, given
  <2> QED BY <1>2, <1>3, <1>6
<1>9. /\ all \in Seq(Items) /\ Len(all) = Len(given) + Len(results)
      /\ \A k \in 1..Len(given) : all[k] = given[k]
      /\ \A k \in 1..Len(results) : all[Len(given) + k] = results[k]
  <2> HIDE DEF Items, given, results
  <2>1. /\ all \in Seq(Items) /\ Len(all) = Len(given) + Len(results)
        /\ \A k \in 1..(Len(given) + Len(results)) :
             all[k] = IF k <= Len(given) THEN given[k] ELSE results[k - Len(given)]
    <3>1. given \in Seq(Items) /\ results \in Seq(Items)
      BY <1>2, <1>6
    <3> QED BY <3>1, ConcatProperties, ZenonT(30)
  <2> HIDE DEF all
  <2>2. \A k \in 1..Len(results) : all[Len(given) + k] = results[k]
    <3> TAKE k \in 1..Len(results)
    <3>1. Len(given) + k \in 1..(Len(given) + Len(results)) /\ ~(Len(given) + k <= Len(given))
          /\ (Len(given) + k) - Len(given) = k
      BY <1>8
    <3> QED BY <2>1, <3>1
  <2> QED BY <1>8, <2>1, <2>2
<1>10. \A k \in 1..Len(all) : \/ k \in 1..Len(given) /\ all[k] = given[k]
                              \/ \E l \in 1..Len(results) : k = Len(given) + l /\ all[k] = results[l]
  <2> HIDE DEF given, results, all
  <2> TAKE k \in 1..Len(all)
  <2>1. CASE k <= Len(given)
    BY <1>8, <1>9, <2>1
  <2>2. CASE ~(k <= Len(given))
    <3>1. k - Len(given) \in 1..Len(results) /\ k = Len(given) + (k - Len(given))
      BY <1>8, <1>9, <2>2
    <3> QED BY <1>9, <3>1
  <2> QED BY <2>1, <2>2
<1>11. next = from + Len(results)
  <2> HIDE DEF results, from
  <2> QED BY <1>2, <1>6, <1>8
<1>12. step \in {"turn", "done"} /\ (step = "done" <=> Len(results) = 0)
  <2> HIDE DEF results
  <2> QED BY <1>8
<1> HIDE DEF from, given, posts, results, kind, N, all, next, step
<1>13. WalkShape'
  <2>1. next \in Nat /\ next <= N /\ N <= MaxPosts
    <3>1. CASE Len(posts) = 0
      BY <1>2, <1>6, <1>8, <1>11, <3>1
    <3>2. CASE Len(posts) # 0
      <4>1. Len(posts) \in DOMAIN posts
        BY <1>8, <3>2
      <4>2. from + Len(posts) <= N
        BY <1>3, <1>8, <4>1
      <4> QED BY <1>2, <1>6, <1>8, <1>11, <4>2
    <3> QED BY <3>1, <3>2
  <2>2. listing' \in Seq(AnyEntry) /\ walk'.given \in Seq(Items)
    BY <1>2, <1>5, <1>7, <1>9
  <2>3. DOMAIN walk' = {"step", "kind", "filters", "given", "started", "quiet"} /\ DOMAIN walk'.filters = {"from", "limit"}
    BY <1>1, <1>7 DEF WalkShape
  <2> QED BY <1>2, <1>5, <1>7, <1>12, <2>1, <2>2, <2>3 DEF WalkShape, N
<1>14. OneEach'
  BY <1>1, <1>5, <1>7 DEF OneEach
<1>15. NothingIsSkipped'
  <2> SUFFICES ASSUME NEW i \in 1..N, listing[i].id \in walk.started, Due(kind, listing[i]), i <= next
               PROVE  \E k \in 1..Len(all) : all[k].item.id = listing[i].id
    BY <1>5, <1>7 DEF NothingIsSkipped, Seen, N
  <2>1. CASE i <= from
    <3>1. listing[i].id \in Seen
      BY <1>1, <2>1 DEF NothingIsSkipped, N, from, kind
    <3>2. PICK k \in 1..Len(given) : given[k].item.id = listing[i].id
      BY <3>1 DEF Seen, given
    <3>3. k \in 1..Len(all) /\ all[k] = given[k]
      BY <1>8, <1>9
    <3> QED BY <3>2, <3>3
  <2>2. CASE ~(i <= from)
    <3>1. i - from \in 1..Len(posts) /\ from + (i - from) = i
      BY <1>2, <1>6, <1>8, <1>11, <2>2
    <3>2. posts[i - from] = listing[i]
      BY <1>3, <1>8, <3>1
    <3>3. PICK k \in DOMAIN results : results[k].item.id = listing[i].id
      BY <1>4, <1>8, <3>1, <3>2 DEF Shows, results
    <3>4. Len(given) + k \in 1..Len(all) /\ all[Len(given) + k] = results[k]
      BY <1>8, <1>9, <3>3
    <3> QED BY <3>3, <3>4
  <2> QED BY <2>1, <2>2
<1>16. QuietInv'
  <2> SUFFICES ASSUME walk.quiet PROVE QuietInv'
    BY <1>7 DEF QuietInv, ShowsListed, RunsFromStart
  <2>1. ASSUME NEW k \in 1..Len(all)
        PROVE  \E i \in 1..N : all[k].item = Given(kind, listing[i]) /\ (kind # "pool" => HasId(listing[i]))
    <3>1. CASE k \in 1..Len(given) /\ all[k] = given[k]
      BY <1>1, <3>1 DEF QuietInv, ShowsListed, given, N, kind
    <3>2. CASE \E l \in 1..Len(results) : k = Len(given) + l /\ all[k] = results[l]
      <4>1. PICK l \in 1..Len(results) : all[k] = results[l]
        BY <3>2
      <4>2. PICK i \in DOMAIN posts : results[l].item = Given(kind, posts[i]) /\ (kind # "pool" => HasId(posts[i]))
        BY <1>4, <1>8 DEF Shows, results
      <4>3. from + i \in 1..N /\ posts[i] = listing[from + i]
        BY <1>3, <1>8
      <4> QED BY <4>1, <4>2, <4>3
    <3> QED BY <1>10, <3>1, <3>2
  <2>2. ASSUME Whole PROVE RunsFromStart(all, next, step, listing)
    <3>1. /\ Len(given) = from /\ from <= N
          /\ \A k \in 1..Len(given) : given[k].item.id = listing[k].id /\ given[k].offset = k - 1
      BY <1>1, <2>2 DEF QuietInv, RunsFromStart, given, from, N
    <3>2. \A i \in DOMAIN posts : posts[i].state = "served"
      BY <1>3, <1>8, <2>2 DEF Whole, N
    <3>3. /\ Len(results) = Len(posts)
          /\ \A k \in DOMAIN posts : results[k].item.id = posts[k].id /\ results[k].offset = from + k - 1
      BY <1>4, <3>2 DEF Shows, results
    <3>4. Len(all) = next
      BY <1>9, <1>11, <3>1
    <3>5. next <= N
      <4>1. CASE Len(results) = 0
        BY <1>2, <1>11, <3>1, <4>1
      <4>2. CASE Len(results) # 0
        <5>1. Len(posts) \in DOMAIN posts
          BY <1>8, <3>3, <4>2
        <5>2. from + Len(posts) \in 1..N
          BY <1>3, <1>8, <5>1
        <5> QED BY <1>8, <1>11, <3>3, <5>2
      <4> QED BY <4>1, <4>2
    <3>6. step = "done" => next = N
      BY <1>2, <1>3, <1>8, <1>11, <1>12, <3>1, <3>3
    <3>7. ASSUME NEW k \in 1..Len(all)
          PROVE  all[k].item.id = listing[k].id /\ all[k].offset = k - 1
      <4>1. CASE k \in 1..Len(given) /\ all[k] = given[k]
        BY <3>1, <4>1
      <4>2. CASE \E l \in 1..Len(results) : k = Len(given) + l /\ all[k] = results[l]
        <5>1. PICK l \in 1..Len(results) : k = Len(given) + l /\ all[k] = results[l]
          BY <4>2
        <5>2. l \in DOMAIN posts /\ posts[l] = listing[k]
          BY <1>3, <1>8, <3>1, <3>3, <5>1
        <5>3. results[l].item.id = listing[k].id /\ results[l].offset = from + l - 1
          BY <3>3, <5>2
        <5> QED BY <3>1, <5>1, <5>3
      <4> QED BY <1>10, <4>1, <4>2
    <3> QED BY <3>4, <3>5, <3>6, <3>7 DEF RunsFromStart, N
  <2>3. ShowsListed(kind, all, listing)
    BY <2>1 DEF ShowsListed, N
  <2>4. listing' = listing /\ (Whole' <=> Whole)
    BY <1>5 DEF Whole
  <2>5. walk'.given = all /\ walk'.filters.from = next /\ walk'.step = step /\ walk'.kind = kind
    BY <1>7
  <2>6. ShowsListed(walk'.kind, walk'.given, listing')
    BY <2>3, <2>4, <2>5, Zenon
  <2>7. Whole' => RunsFromStart(walk'.given, walk'.filters.from, walk'.step, listing')
    BY <2>2, <2>4, <2>5, Zenon
  <2> QED BY <2>6, <2>7, Zenon DEF QuietInv
<1> QED BY <1>13, <1>14, <1>15, <1>16 DEF WalkInv

\* Every step keeps the invariant.
LEMMA WalkStep ==
    ASSUME WalkInv, [SourceNext]_sourceVars
    PROVE  WalkInv'
<1>1. CASE \E kind \in Kinds, limit \in {1, P!PageNoLimit},
              sort \in {Absent} \cup [key : {"rating", "title"}, ascending : BOOLEAN] :
                \E n \in 0..MaxPosts : \E states \in [1..n -> States] :
                   BeginWalk(kind, limit, sort, [i \in 1..n |-> Entry(i, states[i])])
  <2>1. PICK kind \in Kinds, limit \in {1, P!PageNoLimit},
             sort \in {Absent} \cup [key : {"rating", "title"}, ascending : BOOLEAN] :
               \E n \in 0..MaxPosts : \E states \in [1..n -> States] :
                  BeginWalk(kind, limit, sort, [i \in 1..n |-> Entry(i, states[i])])
    BY <1>1, Zenon
  <2>2. PICK n \in 0..MaxPosts : \E states \in [1..n -> States] :
                  BeginWalk(kind, limit, sort, [i \in 1..n |-> Entry(i, states[i])])
    BY <2>1, Zenon
  <2>3. PICK states \in [1..n -> States] :
                  BeginWalk(kind, limit, sort, [i \in 1..n |-> Entry(i, states[i])])
    BY <2>2, Zenon
  <2> QED BY <2>3, BeginStep
<1>2. CASE TurnPage
  BY <1>2, PageStep
<1>3. CASE Publish
  BY <1>3, PublishStep
<1>4. CASE \E i \in 1..Len(listing) : Withhold(i)
  BY <1>4, WithholdStep
<1>5. CASE UNCHANGED sourceVars
  <2>1. listing' = listing /\ walk' = walk
    BY <1>5 DEF sourceVars
  <2> QED BY <2>1 DEF WalkInv, WalkShape, OneEach, NothingIsSkipped, Seen, QuietInv, ShowsListed, RunsFromStart, Whole
<1> QED BY <1>1, <1>2, <1>3, <1>4, <1>5 DEF SourceNext

\* What a container answers from its card is what it answers when it is restored.
LEMMA CardsMatch ==
    ASSUME WalkInv
    PROVE  CardsMatchTheSource
<1> SUFFICES ASSUME walk.quiet, walk.kind # "pool", NEW k \in 1..Len(walk.given)
             PROVE  LET getter == walk.given[k].item
                        restored == FromSerialized(Serialize(getter), TRUE)
                        entry == CHOOSE e \in {listing[j] : j \in 1..Len(listing)} : e.id = getter.id
                        answers == ContainerItems(restored, entry.state)
                    IN  /\ answers.asks /\ answers.error = "none"
                        /\ answers.page = ContainerItems(getter, entry.state).page
                        /\ ContainerItems(restored, "broken").error = "NotFound"
  BY DEF CardsMatchTheSource
<1>1. PICK i \in 1..Len(listing) :
        walk.given[k].item = Container(listing[i].id, Card(listing[i])) /\ HasId(listing[i])
  BY DEF WalkInv, QuietInv, ShowsListed, Given
<1>2. listing[i].state \in States
  <2>1. listing \in Seq(AnyEntry)
    BY DEF WalkInv, WalkShape
  <2> HIDE DEF AnyEntry
  <2>2. listing[i] \in AnyEntry
    BY <2>1
  <2> QED BY <2>2 DEF AnyEntry
<1> DEFINE getter == walk.given[k].item
           E == {listing[j] : j \in 1..Len(listing)}
           entry == CHOOSE e \in E : e.id = getter.id
<1>3. getter = Container(listing[i].id, Card(listing[i])) /\ getter.id = listing[i].id /\ getter.getter = "post"
      /\ getter.card = [item |-> listing[i].state]
  BY <1>1 DEF Container, Card
<1>4. entry = listing[i]
  <2>1. listing[i] \in E /\ \A e \in E : e.id = listing[i].id => e = listing[i]
    BY DEF WalkInv, OneEach
  <2> HIDE DEF E, getter
  <2>2. entry \in E /\ entry.id = getter.id
    BY <1>3, <2>1
  <2> HIDE DEF entry
  <2> QED BY <1>3, <2>1, <2>2
<1> HIDE DEF entry, getter, E
<1>5. FromSerialized(Serialize(getter), TRUE) = Container(getter.id, NoCard)
  BY <1>3 DEF FromSerialized, Serialize
<1>6. \A current : ContainerItems(Container(getter.id, NoCard), current) = FetchItems(current)
  BY DEF ContainerItems, Container
<1>9. /\ FetchItems(listing[i].state) = [asks |-> TRUE, error |-> "none", page |-> PageOfOne(listing[i].state)]
      /\ FetchItems("broken").error = "NotFound"
  BY <1>1 DEF FetchItems, HasId
<1>7. ContainerItems(getter, entry.state).page = PageOfOne(listing[i].state)
  <2>1. getter.card # NoCard
    BY <1>2, <1>3 DEF NoCard, States
  <2> QED BY <1>3, <2>1 DEF ContainerItems
<1>8. /\ ContainerItems(FromSerialized(Serialize(getter), TRUE), entry.state).asks
      /\ ContainerItems(FromSerialized(Serialize(getter), TRUE), entry.state).error = "none"
      /\ ContainerItems(FromSerialized(Serialize(getter), TRUE), entry.state).page
           = ContainerItems(getter, entry.state).page
      /\ ContainerItems(FromSerialized(Serialize(getter), TRUE), "broken").error = "NotFound"
  <2>1. ContainerItems(FromSerialized(Serialize(getter), TRUE), entry.state) = FetchItems(listing[i].state)
    BY <1>4, <1>5, <1>6, Zenon
  <2>2. ContainerItems(FromSerialized(Serialize(getter), TRUE), "broken") = FetchItems("broken")
    BY <1>5, <1>6, Zenon
  <2>3. /\ FetchItems(listing[i].state).asks /\ FetchItems(listing[i].state).error = "none"
        /\ FetchItems(listing[i].state).page = PageOfOne(listing[i].state)
    BY <1>9
  <2> QED BY <1>7, <1>9, <2>1, <2>2, <2>3, Zenon
<1> QED BY <1>8 DEF entry, getter, E

\* For any page size, cap and number of posts: a walk over the pages of a listing skips no
\* post that stays servable, whatever is published or withheld meanwhile, and over one that
\* does not change it collects exactly its posts, with cards that say what the source says.
THEOREM WalksAreWhole ==
    SourceSpec => []WalksKeepTheListing
<1>1. WalkInv => WalksKeepTheListing
  <2> SUFFICES ASSUME WalkInv PROVE NothingIsSkipped /\ QuietWalksAreExact /\ CardsMatchTheSource
    BY DEF WalksKeepTheListing
  <2>1. QuietWalksAreExact
    BY DEF WalkInv, QuietInv, ShowsListed, RunsFromStart, QuietWalksAreExact
  <2> QED BY <2>1, CardsMatch DEF WalkInv
<1>2. WalkInv /\ [SourceNext]_sourceVars => WalkInv'
  BY WalkStep
<1> QED BY <1>1, <1>2, WalkInit, PTL DEF SourceSpec

-----------------------------------------------------------------------------
(* Windows, limits and getters *)

\* A page of more than one item holds twice as many items as there are pages before it.
LEMMA PagesDouble ==
    ASSUME NEW q \in Nat, NEW stride \in Nat, stride >= 2
    PROVE  q * stride >= q + q
BY SMT

\* Of words of any width: a window of items is asked for as the pages that hold it, whatever
\* the page size, but for the last offset with pages of one item that are counted from 1,
\* whose page is no offset; and an endpoint for no more than it accepts or the caller wants,
\* and for something if the caller wants something, but for the limits that are no offsets,
\* every one of which is sent on as a negative number.
THEOREM WindowsAndLimits ==
    /\ \A from, want, stride \in P!Offsets : \A base \in {0, 1} :
         P!WindowIsExact(P!OffsetPaging(from, want, stride), base)
    /\ \A limit \in P!Limits : \A cap, fallback \in P!Offsets \ {0} :
         P!LimitIsHonoured(limit, cap, fallback)
<1>0. PICK h \in Nat \ {0, 1} : h = 2^(PageBits - 1) /\ 2^PageBits = 2 * h /\ P!Offsets = 0..(h - 1)
  BY SourceAssumption DEF P!Offsets
<1>1. ASSUME NEW from \in P!Offsets, NEW want \in P!Offsets, NEW stride \in P!Offsets, NEW base \in {0, 1}
      PROVE  P!WindowIsExact(P!OffsetPaging(from, want, stride), base)
  <2> DEFINE paging == P!OffsetPaging(from, want, stride)
  <2>1. paging.from = from /\ paging.stride = stride
    BY DEF P!OffsetPaging
  <2> HIDE DEF paging
  <2> SUFFICES P!WindowIsExact(paging, base)
    BY DEF paging
  <2>6. from \in Nat /\ from < h /\ stride \in Nat
    BY <1>0
  <2>7. \A n \in Nat : P!AsOffset(n) = IF n < h THEN n ELSE n - 2 * h
    BY <1>0 DEF P!AsOffset
  <2>2. CASE stride = 0
    <3>1. P!PageOf(paging, base) = base /\ P!SkipOf(paging) = 0 /\ ~(paging.stride > 0)
      BY <2>1, <2>2 DEF P!PageOf, P!SkipOf
    <3>2. base \in P!Offsets /\ base >= base /\ paging.stride # 1
      BY <1>0, <2>1, <2>2
    <3> QED BY <2>1, <2>2, <3>1, <3>2 DEF P!WindowIsExact
  <2>3. CASE stride > 0
    <3>1. PICK q \in Nat, r \in 0..(stride - 1) :
            q = from \div stride /\ r = from % stride /\ from = q * stride + r
      BY <2>3, <2>6
    <3>2. P!PageOf(paging, base) = P!AsOffset(q + base) /\ P!SkipOf(paging) = r
      BY <2>1, <2>3, <3>1 DEF P!PageOf, P!SkipOf
    <3>3. (q + base) - base = q /\ q + base \in Nat /\ q + base >= base /\ stride # 0
      BY <2>3
    <3>4. CASE stride = 1 /\ base = 1 /\ from = h - 1
      <4>1. q + base = h
        BY <2>6, <3>1, <3>4
      <4>2. P!PageOf(paging, base) = -h
        BY <1>0, <2>7, <3>2, <3>3, <4>1
      <4> QED BY <1>0, <2>1, <3>4, <4>2 DEF P!WindowIsExact
    <3>5. CASE ~(stride = 1 /\ base = 1 /\ from = h - 1)
      <4>1. q + base < h
        <5>1. CASE stride = 1
          <6>1. q = from
            BY <2>6, <3>1, <5>1
          <6> QED BY <1>0, <2>6, <3>5, <5>1, <6>1
        <5>2. CASE stride # 1
          <6>1. q * stride >= q + q
            BY <2>3, <2>6, <5>2, PagesDouble
          <6>2. PICK m \in Nat : m = q * stride
            BY <2>6
          <6>3. q + q < h
            BY <1>0, <2>6, <3>1, <6>1, <6>2
          <6> QED BY <1>0, <6>3
        <5> QED BY <5>1, <5>2
      <4>2. P!PageOf(paging, base) = q + base /\ q + base \in P!Offsets
        BY <1>0, <2>7, <3>2, <3>3, <4>1
      <4>3. ((q + base) - base) * stride + r = from
        BY <3>1, <3>3, Zenon
      <4>4. r \in 0..(stride - 1)
        OBVIOUS
      <4>5. ~(paging.stride = 1 /\ base = 1 /\ paging.from = 2^(PageBits - 1) - 1)
        BY <1>0, <2>1, <3>5
      <4> QED BY <2>1, <3>2, <3>3, <4>2, <4>3, <4>4, <4>5, Zenon DEF P!WindowIsExact
    <3> QED BY <3>4, <3>5
  <2> QED BY <2>2, <2>3, <2>6
<1>2. ASSUME NEW limit \in P!Limits, NEW cap \in P!Offsets \ {0}, NEW fallback \in P!Offsets \ {0}
      PROVE  P!LimitIsHonoured(limit, cap, fallback)
  <2>1. h = 2^(PageBits - 1) /\ cap \in Nat \ {0} /\ fallback \in Nat \ {0}
    BY <1>0
  <2>2. P!PageNoLimit = 2 * h - 1 /\ limit \in 0..(2 * h - 1)
    BY <1>0 DEF P!PageNoLimit, P!Limits
  <2>3. CASE limit = P!PageNoLimit
    <3>1. P!ClampLimit(limit, cap, fallback) = IF fallback < cap THEN fallback ELSE cap
      BY <2>3 DEF P!ClampLimit
    <3> QED BY <2>1, <2>2, <2>3, <3>1 DEF P!LimitIsHonoured
  <2>4. CASE limit # P!PageNoLimit /\ limit < h
    <3>1. P!AsOffset(limit) = limit
      BY <2>1, <2>4 DEF P!AsOffset
    <3>2. P!ClampLimit(limit, cap, fallback) = IF limit < cap THEN limit ELSE cap
      BY <2>4, <3>1 DEF P!ClampLimit
    <3> QED BY <2>1, <2>2, <2>4, <3>2 DEF P!LimitIsHonoured
  <2>5. CASE limit # P!PageNoLimit /\ ~(limit < h)
    <3>1. P!AsOffset(limit) = limit - 2 * h /\ limit - 2 * h < 0
      BY <1>0, <2>2, <2>5 DEF P!AsOffset
    <3>2. P!ClampLimit(limit, cap, fallback) = limit - 2 * h
      BY <2>1, <2>2, <2>5, <3>1 DEF P!ClampLimit
    <3> QED BY <1>0, <2>1, <2>2, <2>5, <3>1, <3>2 DEF P!LimitIsHonoured
  <2> QED BY <2>3, <2>4, <2>5
<1> QED BY <1>1, <1>2

\* The getter found for any URL survives its serialization, and there is one exactly if
\* the parser suggests images for it.
THEOREM GettersAreRestored ==
    \A post, pool : \A pools \in BOOLEAN : GettersRestore([post |-> post, pool |-> pool], pools)
<1> SUFFICES ASSUME NEW post, NEW pool, NEW pools \in BOOLEAN
             PROVE  GettersRestore([post |-> post, pool |-> pool], pools)
  OBVIOUS
<1> DEFINE url == [post |-> post, pool |-> pool]
           getter == ParseUrl(url, pools)
<1>1. url.post = post /\ url.pool = pool
  OBVIOUS
<1> HIDE DEF url
<1>2. FromSerialized(EmptyData, pools) = InvalidArguments
  BY DEF FromSerialized, EmptyData
<1>3. CASE pools /\ pool # Absent
  <2>1. getter = Pool(pool) /\ getter.getter = "pool" /\ getter.id = pool /\ SuggestGetter(url, pools) = "Images"
    BY <1>1, <1>3 DEF ParseUrl, Pool, SuggestGetter
  <2>2. FromSerialized(Serialize(getter), pools) = getter
    BY <1>3, <2>1 DEF FromSerialized, Serialize
  <2>3. getter # InvalidArguments
    BY <2>1 DEF InvalidArguments
  <2> HIDE DEF getter
  <2>4. GettersRestore(url, pools)
    BY <1>2, <2>1, <2>2, <2>3 DEF GettersRestore, getter
  <2> QED BY <2>4 DEF url
<1>4. CASE ~(pools /\ pool # Absent) /\ post # Absent
  <2>1. getter = Container(post, NoCard) /\ getter.getter = "post" /\ getter.id = post /\ SuggestGetter(url, pools) = "Images"
    BY <1>1, <1>4 DEF ParseUrl, Container, SuggestGetter
  <2>2. FromSerialized(Serialize(getter), pools) = getter
    BY <2>1 DEF FromSerialized, Serialize
  <2>3. getter # InvalidArguments
    BY <2>1 DEF InvalidArguments
  <2> HIDE DEF getter
  <2>4. GettersRestore(url, pools)
    BY <1>2, <2>1, <2>2, <2>3 DEF GettersRestore, getter
  <2> QED BY <2>4 DEF url
<1>5. CASE ~(pools /\ pool # Absent) /\ post = Absent
  <2>1. getter = InvalidArguments /\ SuggestGetter(url, pools) = "Unknown"
    BY <1>1, <1>5 DEF ParseUrl, SuggestGetter
  <2> HIDE DEF getter
  <2>2. GettersRestore(url, pools)
    BY <1>2, <2>1 DEF GettersRestore, getter
  <2> QED BY <2>2 DEF url
<1> QED BY <1>3, <1>4, <1>5

-----------------------------------------------------------------------------
(***************************************************************************)
(* For any texts, tokens and points, any declarations and any filters, the *)
(* checks of a query agree with the reference Offered.  The four kinds of  *)
(* values are told apart by their types, so each is compared with what the *)
(* declaration of its own type offers; what is declared as another type    *)
(* offers none of it, and is a mismatch.                                   *)
(***************************************************************************)

\* INSTANCE's Cardinality is the same operator.
LEMMA SameCount == ASSUME NEW S PROVE Q!Cardinality(S) = Cardinality(S)
  BY Zenon DEF Q!Cardinality, Cardinality

\* The reasons a value is refused for are the checks that fail.
LEMMA ReasonsAre ==
    ASSUME NEW d, NEW v
    PROVE  Q!ValueReasons(d, v) = {} <=>
             /\ d.type = v.type
             /\ ~Q!ExclusionDenied(d, v)
             /\ ~Q!ValueInvalid(d, v)
             /\ ~(v.type = "selection" /\ Q!MultipleSelectionDenied(d, v))
<1>1. CASE d.type # v.type
  BY <1>1 DEF Q!ValueReasons
<1>2. CASE d.type = v.type
  BY <1>2 DEF Q!ValueReasons
<1> QED BY <1>1, <1>2

\* One value passes exactly if a panel can build it from the declaration.
LEMMA ValueIsOffered ==
    ASSUME NEW d \in DeclaredValues, NEW v \in FilterValues
    PROVE  Q!ValueReasons(d, v) = {} <=> v \in Q!Offered(d, QueryTexts, QueryTokens, QueryPoints)
<1> IsFiniteSet(QueryTokens) /\ QueryPoints \in SUBSET Int /\ Absent \notin Int
  BY InputsAssumption
<1> DEFINE offered == Q!Offered(d, QueryTexts, QueryTokens, QueryPoints)
           inversions == {FALSE, d.exclusive}
<1>1. CASE v.type = "text"
  <2>1. v \in [type : {"text"}, text : QueryTexts, exclusive : BOOLEAN]
    BY <1>1 DEF FilterValues, Q!IntervalTypes
  <2>2. CASE d.type = "text"
    <3>1. d.exclusive \in BOOLEAN
      BY <2>2 DEF DeclaredValues, Q!IntervalTypes
    <3>2. offered = [type : {"text"}, text : QueryTexts \ {""}, exclusive : inversions]
      BY <2>2 DEF Q!Offered, Q!OfferedTexts, Q!Inversions
    <3>3. v \in offered <=> v.text # "" /\ (v.exclusive => d.exclusive)
      <4>1. v.exclusive \in inversions <=> (v.exclusive => d.exclusive)
        BY <2>1, <3>1
      <4> HIDE DEF inversions
      <4> DEFINE some == QueryTexts \ {""}
      <4>2. v.text \in some <=> v.text # ""
        BY <2>1
      <4> HIDE DEF some
      <4>3. offered = [type : {"text"}, text : some, exclusive : inversions]
        BY <3>2 DEF some, inversions
      <4> HIDE DEF offered
      <4>4. v \in offered <=> v.text \in some /\ v.exclusive \in inversions
        BY <2>1, <4>3
      <4> QED BY <4>1, <4>2, <4>4, Zenon DEF offered
    <3>4. Q!ExclusionDenied(d, v) <=> v.exclusive /\ ~d.exclusive
      BY <1>1 DEF Q!ExclusionDenied
    <3>5. Q!ValueInvalid(d, v) <=> v.text = ""
      BY <1>1 DEF Q!ValueInvalid, Q!IntervalTypes
    <3> QED BY <1>1, <2>1, <2>2, <3>1, <3>3, <3>4, <3>5, ReasonsAre
  <2>3. CASE d.type # "text"
    <3>1. v \notin offered
      BY <1>1, <2>3 DEF Q!Offered, Q!OfferedTexts, Q!OfferedMarks, Q!OfferedSelections, Q!OfferedIntervals
    <3> QED BY <1>1, <2>3, <3>1, ReasonsAre
  <2> QED BY <2>2, <2>3
<1>2. CASE v.type = "mark"
  <2>1. v \in [type : {"mark"}, exclusive : BOOLEAN]
    BY <1>2 DEF FilterValues, Q!IntervalTypes
  <2>2. CASE d.type = "mark"
    <3>1. d.exclusive \in BOOLEAN
      BY <2>2 DEF DeclaredValues, Q!IntervalTypes
    <3>2. offered = [type : {"mark"}, exclusive : inversions]
      BY <2>2 DEF Q!Offered, Q!OfferedMarks, Q!Inversions
    <3>3. v \in offered <=> (v.exclusive => d.exclusive)
      <4>1. v.exclusive \in inversions <=> (v.exclusive => d.exclusive)
        BY <2>1, <3>1
      <4> HIDE DEF inversions
      <4>2. v \in offered <=> v.exclusive \in inversions
        BY <2>1, <3>2
      <4> QED BY <4>1, <4>2, Zenon
    <3>4. Q!ExclusionDenied(d, v) <=> v.exclusive /\ ~d.exclusive
      BY <1>2 DEF Q!ExclusionDenied
    <3>5. ~Q!ValueInvalid(d, v)
      BY <1>2 DEF Q!ValueInvalid, Q!IntervalTypes
    <3> QED BY <1>2, <2>1, <2>2, <3>1, <3>3, <3>4, <3>5, ReasonsAre
  <2>3. CASE d.type # "mark"
    <3>1. v \notin offered
      BY <1>2, <2>3 DEF Q!Offered, Q!OfferedTexts, Q!OfferedMarks, Q!OfferedSelections, Q!OfferedIntervals
    <3> QED BY <1>2, <2>3, <3>1, ReasonsAre
  <2> QED BY <2>2, <2>3
<1>3. CASE v.type = "selection"
  <2>1. v \in [type : {"selection"}, options : OptionSets(QueryTokens), single : {FALSE}]
    BY <1>3 DEF FilterValues, Q!IntervalTypes
  <2>2. CASE d.type = "selection"
    <3> DEFINE T == DOMAIN v.options
               D == DOMAIN d.options
               axis == IF D = {} THEN QueryTokens ELSE D
               most == IF d.single THEN 1 ELSE Cardinality(axis)
               Marked(t) == t \in D => d.options[t]
    <3>1. d.options \in OptionSets(QueryTokens) /\ d.single \in BOOLEAN
      BY <2>2 DEF DeclaredValues, Q!IntervalTypes
    <3>2. D \in SUBSET QueryTokens /\ d.options \in [D -> BOOLEAN]
      BY <3>1 DEF OptionSets
    <3>3. T \in SUBSET QueryTokens /\ v.options \in [T -> BOOLEAN]
      BY <2>1 DEF OptionSets
    <3>4. offered = {s \in [type : {"selection"}, options : OptionSets(axis), single : {FALSE}] :
                       /\ Cardinality(DOMAIN s.options) <= most
                       /\ \A t \in DOMAIN s.options : s.options[t] => Marked(t)}
      <4>1. offered = Q!OfferedSelections(d, QueryTokens)
        BY <2>2 DEF Q!Offered
      <4> QED BY <4>1, SameCount DEF Q!OfferedSelections, OptionSets
    <3>5. v.options \in OptionSets(axis) <=> T \subseteq axis
      BY <3>3 DEF OptionSets
    <3>6. v \in offered <=> /\ T \subseteq axis
                            /\ Cardinality(T) <= most
                            /\ \A t \in T : v.options[t] => Marked(t)
      BY <2>1, <3>4, <3>5
    <3>7. T \subseteq axis <=> ~Q!ValueInvalid(d, v)
      BY <1>3, <3>3 DEF Q!ValueInvalid, Q!SelectionInvalid, Q!IntervalTypes
    <3>8. (\A t \in T : v.options[t] => Marked(t)) <=> ~Q!ExclusionDenied(d, v)
      BY <1>3 DEF Q!ExclusionDenied
    <3>9. T \subseteq axis =>
            (Cardinality(T) <= most <=> ~Q!MultipleSelectionDenied(d, v))
      <4> SUFFICES ASSUME T \subseteq axis
                   PROVE  Cardinality(T) <= most <=> ~Q!MultipleSelectionDenied(d, v)
        OBVIOUS
      <4>1. IsFiniteSet(axis)
        BY <3>2, FS_Subset
      <4>2. Cardinality(T) <= Cardinality(axis) /\ Cardinality(T) \in Nat /\ IsFiniteSet(T)
        BY <4>1, FS_Subset, FS_CardinalityType
      <4>3. PICK n, m \in Nat : n = Cardinality(T) /\ m = Cardinality(axis) /\ n <= m
        BY <4>1, <4>2, FS_CardinalityType
      <4>4. Q!MultipleSelectionDenied(d, v) <=> d.single /\ n > 1
        BY <4>3, SameCount, Zenon DEF Q!MultipleSelectionDenied
      <4>5. CASE d.single = TRUE
        BY <4>3, <4>4, <4>5
      <4>6. CASE d.single = FALSE
        BY <4>3, <4>4, <4>6
      <4> QED BY <3>1, <4>5, <4>6
    <3> HIDE DEF most, Marked
    <3> QED BY <1>3, <2>2, <3>6, <3>7, <3>8, <3>9, ReasonsAre, Zenon
  <2>3. CASE d.type # "selection"
    <3>1. v \notin offered
      BY <1>3, <2>3 DEF Q!Offered, Q!OfferedTexts, Q!OfferedMarks, Q!OfferedSelections, Q!OfferedIntervals
    <3> QED BY <1>3, <2>3, <3>1, ReasonsAre
  <2> QED BY <2>2, <2>3
<1>4. CASE v.type \in Q!IntervalTypes
  <2> DEFINE Ordered(a, b) == a = Absent \/ b = Absent \/ a <= b
             Allowed == Ordered(v.from, v.to) /\ Ordered(d.from, v.from) /\ Ordered(v.to, d.to)
             ends == QueryPoints \cup {Absent}
  <2>1. v \in [type : Q!IntervalTypes, from : ends, to : ends, exclusive : BOOLEAN]
    BY <1>4 DEF FilterValues, Q!IntervalTypes
  <2>2. CASE d.type = v.type
    <3>1. /\ d.exclusive \in BOOLEAN /\ d.from \in Int \cup {Absent} /\ d.to \in Int \cup {Absent}
          /\ d.type \notin {"text", "mark", "selection"}
      BY <1>4, <2>2 DEF DeclaredValues, Q!IntervalTypes
    <3>2. offered = {i \in [type : {d.type}, from : ends, to : ends, exclusive : inversions] :
                       Ordered(i.from, i.to) /\ Ordered(d.from, i.from) /\ Ordered(i.to, d.to)}
      BY <3>1 DEF Q!Offered, Q!OfferedIntervals, Q!Inversions
    <3>3. v \in offered <=> Allowed /\ (v.exclusive => d.exclusive)
      BY <2>1, <2>2, <3>1, <3>2
    <3>4. Q!ExclusionDenied(d, v) <=> v.exclusive /\ ~d.exclusive
      BY <2>2, <3>1 DEF Q!ExclusionDenied
    <3>5. Q!ValueInvalid(d, v) <=> ~Allowed
      <4>1. \A a, b \in Int \cup {Absent} : Q!Before(b, a) <=> ~Ordered(a, b)
        BY DEF Q!Before
      <4>2. v.from \in Int \cup {Absent} /\ v.to \in Int \cup {Absent}
        BY <2>1
      <4> HIDE DEF Ordered
      <4>3. Q!IntervalInvalid(d, v) <=> ~Allowed
        BY <3>1, <4>1, <4>2 DEF Q!IntervalInvalid
      <4> QED BY <1>4, <2>2, <3>1, <4>3 DEF Q!ValueInvalid
    <3> HIDE DEF Allowed
    <3> QED BY <1>4, <2>2, <3>1, <3>3, <3>4, <3>5, ReasonsAre, Zenon
  <2>3. CASE d.type # v.type
    <3>1. v \notin offered
      BY <1>4, <2>3 DEF Q!Offered, Q!OfferedTexts, Q!OfferedMarks, Q!OfferedSelections,
             Q!OfferedIntervals, Q!IntervalTypes
    <3> QED BY <2>3, <3>1, ReasonsAre
  <2> QED BY <2>2, <2>3
<1>5. v.type \in {"text", "mark", "selection"} \cup Q!IntervalTypes
  BY DEF FilterValues
<1> QED BY <1>1, <1>2, <1>3, <1>4, <1>5

\* A query (validate_query) is accepted exactly if each of its filters can be built from what the
\* source declares for its key: nothing a panel offers is refused, nothing else gets through.
THEOREM QueriesAreOffered ==
    ASSUME NEW supported, \A key \in DOMAIN supported : supported[key] \in DeclaredValues,
           NEW filters,
           \A key \in DOMAIN filters : filters[key] \in FilterValues
    PROVE  Q!AcceptsWhatIsOffered(supported, filters, QueryTexts, QueryTokens, QueryPoints)
<1> IsFiniteSet(QueryTokens) /\ QueryPoints \in SUBSET Int /\ Absent \notin Int
  BY InputsAssumption
<1> DEFINE ErrorsOf(key) ==
        IF key \in DOMAIN supported
        THEN {Q!SearchQueryError(reason, key) : reason \in Q!ValueReasons(supported[key], filters[key])}
        ELSE {Q!SearchQueryError("UnknownKey", key)}
<1>1. Q!ValidateSearchQuery(supported, filters) = {} <=> \A key \in DOMAIN filters : ErrorsOf(key) = {}
  <2> DEFINE all == {ErrorsOf(key) : key \in DOMAIN filters}
  <2>1. Q!ValidateSearchQuery(supported, filters) = UNION all
    BY DEF Q!ValidateSearchQuery
  <2> HIDE DEF ErrorsOf
  <2> QED BY <2>1
<1>2. ASSUME NEW key \in DOMAIN filters
      PROVE  ErrorsOf(key) = {} <=>
               /\ key \in DOMAIN supported
               /\ filters[key] \in Q!Offered(supported[key], QueryTexts, QueryTokens, QueryPoints)
  <2>1. CASE key \in DOMAIN supported
    <3>1. ErrorsOf(key) = {} <=> Q!ValueReasons(supported[key], filters[key]) = {}
      BY <2>1
    <3> QED BY <2>1, <3>1, ValueIsOffered
  <2>2. CASE key \notin DOMAIN supported
    BY <2>2
  <2> QED BY <2>1, <2>2
<1> HIDE DEF ErrorsOf
<1> QED BY <1>1, <1>2 DEF Q!AcceptsWhatIsOffered

\* Ids of a known namespace reach the key of its axis: a source that declares it open takes any
\* number of them, one that does not declare it refuses that key and says so.
THEOREM IdsAreSearched ==
    \A supported, ns, ids : Q!IdsReachTheirSource(supported, ns, ids)
<1> SUFFICES ASSUME NEW supported, NEW ns, NEW ids
             PROVE  Q!IdsReachTheirSource(supported, ns, ids)
  OBVIOUS
<1> DEFINE key == Q!SearchKeyFor(ns)
           value == Q!ItemSelection([x \in ids |-> FALSE], FALSE)
           filters == [k \in {key} |-> value]
           errors == Q!ValidateSearchQuery(supported, filters)
<1>1. key # "" => Q!IsIdentityKey(key)
  BY DEF Q!SearchKeyFor, Q!IsIdentityKey
<1>2. value.type = "selection" /\ value.options = [x \in ids |-> FALSE]
  BY DEF Q!ItemSelection
<1> HIDE DEF key, value
<1>3. DOMAIN filters = {key} /\ filters[key] = value
  OBVIOUS
<1>4. errors = IF key \in DOMAIN supported
               THEN {Q!SearchQueryError(reason, key) : reason \in Q!ValueReasons(supported[key], value)}
               ELSE {Q!SearchQueryError("UnknownKey", key)}
  BY <1>3 DEF Q!ValidateSearchQuery
<1>5. ASSUME supported[key] = Q!ItemSelection(<<>>, FALSE)
      PROVE  Q!ValueReasons(supported[key], value) = {}
  <2> DEFINE open == supported[key]
  <2>1. open.type = "selection" /\ DOMAIN open.options = {} /\ open.single = FALSE
    BY <1>5 DEF Q!ItemSelection
  <2> HIDE DEF open
  <2>2. ~Q!ExclusionDenied(open, value) /\ ~Q!MultipleSelectionDenied(open, value)
    BY <1>2, <2>1 DEF Q!ExclusionDenied, Q!MultipleSelectionDenied
  <2>3. ~Q!ValueInvalid(open, value)
    BY <1>2, <2>1 DEF Q!ValueInvalid, Q!SelectionInvalid, Q!IntervalTypes
  <2> QED BY <1>2, <2>1, <2>2, <2>3, ReasonsAre DEF open
<1>6. key \notin DOMAIN supported => errors = {Q!SearchQueryError("UnknownKey", key)}
  BY <1>4
<1>7. key \in DOMAIN supported /\ supported[key] = Q!ItemSelection(<<>>, FALSE) => errors = {}
  BY <1>4, <1>5
<1> QED BY <1>1, <1>6, <1>7, Zenon DEF Q!IdsReachTheirSource, key, value

\* Every query and every window that may be given is dealt with exactly.
THEOREM QueriesStayExact == InputsSpec => []QueriesAreExact
<1> DEFINE NothingOrAllowed == input = NoInput \/ MayBeGiven(input)
<1>1. input = NoInput => NothingOrAllowed
  OBVIOUS
<1>2. NothingOrAllowed /\ [MayBeGiven(input')]_input => NothingOrAllowed'
  BY DEF MayBeGiven
<1>3. NothingOrAllowed => QueriesAreExact
  <2>1. CASE input = NoInput
    BY <2>1 DEF NoInput, QueriesAreExact
  <2>2. CASE MayBeGiven(input)
    <3>1. ASSUME input.what = "filter"
          PROVE  Q!AcceptsWhatIsOffered(input.supported, input.filters, QueryTexts, QueryTokens, QueryPoints)
      <4>1. /\ \A key \in DOMAIN input.supported : input.supported[key] \in DeclaredValues
            /\ \A key \in DOMAIN input.filters : input.filters[key] \in FilterValues
        BY <2>2, <3>1 DEF MayBeGiven
      <4> QED BY <4>1, QueriesAreOffered
    <3>2. Q!IdsReachTheirSource(input.supported, input.ns, input.ids)
      BY IdsAreSearched
    <3>3. ASSUME input.what = "window"
          PROVE  P!WindowIsExact(input.paging, input.base)
      <4>1. /\ input.paging \in [from : P!Offsets, want : P!Offsets, stride : P!Offsets]
            /\ input.base \in {0, 1}
        BY <2>2, <3>3 DEF MayBeGiven
      <4>2. PICK from, want, stride \in P!Offsets : input.paging = P!OffsetPaging(from, want, stride)
        BY <4>1 DEF P!OffsetPaging
      <4> QED BY <4>1, <4>2, WindowsAndLimits
    <3>4. ASSUME input.what = "limit"
          PROVE  P!LimitIsHonoured(input.limit, input.cap, input.fallback)
      <4>1. /\ input.limit \in P!Limits
            /\ input.cap \in P!Offsets \ {0} /\ input.fallback \in P!Offsets \ {0}
        BY <2>2, <3>4 DEF MayBeGiven
      <4> QED BY <4>1, WindowsAndLimits
    <3> QED BY <3>1, <3>2, <3>3, <3>4 DEF QueriesAreExact
  <2> QED BY <2>1, <2>2
<1> QED BY <1>1, <1>2, <1>3, PTL DEF InputsSpec

\* Every address that may be given is encoded, read and taken apart exactly.
THEOREM AddressesStayExact == InputsSpec => []AddressesAreExact
<1> DEFINE NothingOrAllowed == input = NoInput \/ MayBeGiven(input)
<1>1. input = NoInput => NothingOrAllowed
  OBVIOUS
<1>2. NothingOrAllowed /\ [MayBeGiven(input')]_input => NothingOrAllowed'
  BY DEF MayBeGiven
<1>3. NothingOrAllowed => AddressesAreExact
  <2>1. CASE input = NoInput
    BY <2>1 DEF NoInput, AddressesAreExact
  <2>2. CASE MayBeGiven(input)
    <3>1. ASSUME input.what = "encode"
          PROVE  Addresses!EncodingRoundTrips(input.value)
      <4>1. input.value \in Seq(Byte)
        BY <2>2, <3>1 DEF MayBeGiven, Texts, Byte
      <4> QED BY <4>1, EncodedComesBack
    <3>2. ASSUME input.what = "query"
          PROVE  Addresses!KeyIsRead(input.query, input.key)
      <4>1. IsQuery(input.query) /\ IsKey(input.key)
        BY <2>2, <3>2 DEF MayBeGiven
      <4> QED BY <4>1, KeysAreRead
    <3>3. ASSUME input.what = "ref"
          PROVE  Addresses!ReferenceIsRead(input.before, input.marker, input.ref, input.after, Delimiters)
      <4>1. IsReference(input.before, input.marker, input.ref, input.after, Delimiters)
        BY <2>2, <3>3 DEF MayBeGiven
      <4> QED BY <4>1, ReferencesAreRead
    <3>4. ASSUME input.what = "url"
          PROVE  Addresses!PartsAreExact(input.url)
      <4>1. input.url \in Components
        BY <2>2, <3>4 DEF MayBeGiven
      <4> QED BY <4>1, UrlsAreTheirParts
    <3>5. ASSUME input.what = "getter"
          PROVE  GettersRestore(input.url, input.pools)
      <4>1. /\ input.url = [post |-> input.url.post, pool |-> input.url.pool]
            /\ input.pools \in BOOLEAN
        BY <2>2, <3>5 DEF MayBeGiven
      <4>2. PICK post, pool : input.url = [post |-> post, pool |-> pool]
        BY <4>1
      <4> QED BY <4>1, <4>2, GettersAreRestored, Zenon
    <3> QED BY <3>1, <3>2, <3>3, <3>4, <3>5 DEF AddressesAreExact
  <2> QED BY <2>1, <2>2
<1> QED BY <1>1, <1>2, <1>3, PTL DEF InputsSpec

\* Every walk and every search of a document that may be given agrees with its tree.
THEOREM SearchesStayExact == InputsSpec => []SearchesAgree
<1> DEFINE NothingOrAllowed == input = NoInput \/ MayBeGiven(input)
<1>1. input = NoInput => NothingOrAllowed
  OBVIOUS
<1>2. NothingOrAllowed /\ [MayBeGiven(input')]_input => NothingOrAllowed'
  BY DEF MayBeGiven
<1>3. NothingOrAllowed => SearchesAgree
  <2>1. CASE input = NoInput
    BY <2>1 DEF NoInput, SearchesAgree
  <2>2. CASE MayBeGiven(input)
    <3> DEFINE doc == input.doc
               n == Len(doc.parent)
               p == doc.parent
    <3>1. ASSUME input.what = "walk"
          PROVE  Documents!WalkIsWhole(doc, input.view)
      <4>1. HasElements(doc, n, p, STRING, STRING) /\ input.view \in 0..n
        BY <2>2, <3>1 DEF MayBeGiven, IsDocument, Views
      <4>2. HasTree(doc, n, p)
        BY <4>1 DEF HasElements
      <4> HIDE DEF n, p, doc
      <4> QED BY <4>1, <4>2, DocumentWalksAreWhole
    <3>2. ASSUME input.what = "find"
          PROVE  Documents!FindersAgree(doc, input.view, input.by, input.also)
      <4>1. /\ HasElements(doc, n, p, STRING, STRING) /\ input.view \in 0..n
            /\ IsStep(input.by, STRING) /\ IsStep(input.also, STRING)
        BY <2>2, <3>2 DEF MayBeGiven, IsDocument, Views
      <4> HIDE DEF n, p, doc
      <4> QED BY <4>1, SearchesAreExact
    <3> QED BY <3>1, <3>2 DEF SearchesAgree
  <2> QED BY <2>1, <2>2
<1> QED BY <1>1, <1>2, <1>3, PTL DEF InputsSpec

=============================================================================
