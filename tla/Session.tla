------------------------------ MODULE Session ------------------------------
(***************************************************************************)
(* Configurations, contexts and credentials of an application's parsers:   *)
(* Parser::make_config derives a config, RequestorContext adopts it and    *)
(* gives it a cookie jar if its client makes one, logins and saved         *)
(* sessions fill it, and every request of the context carries what is in   *)
(* it.  Configs and jars are shared by pointer; here a pointer is a place  *)
(* in configs or jars, 0 is null.  A context also keeps the mirrors a      *)
(* catalog had for its parser when it was made: any that some catalog can  *)
(* have.  Request modifiers are functions of the application, which no     *)
(* parser sets: requests are described as modifiers are given them.        *)
(***************************************************************************)
EXTENDS Headers, FiniteSets

CONSTANTS
    Parsers,        \* parser identifiers; each is also the value of its default header
    NoParser,       \* the empty identifier
    Builtin,        \* per parser: its built-in mirrors
    Overrides,      \* mirror lists a catalog can have for a parser
    MaxConfigs,     \* bound: configs, and jars
    MaxLogins       \* bound: logins

ASSUME SessionAssumption ==
    /\ NoParser \notin Parsers
    /\ MaxConfigs \in Nat \ {0} /\ MaxLogins \in Nat

VARIABLES
    configs,        \* every ParserConfig
    jars,           \* every CookieJar, by the login its session cookie is of, 0 for none
    contexts,       \* the configs RequestorContexts were made of
    state,          \* an AuthState the host has saved
    logins          \* history: per login, the parser it was made for

vars == <<configs, jars, contexts, state, logins>>

Agent == "agent"            \* a header the parser's configure() sets
Authorization == "auth"     \* a header that is a credential

None == 0
Logins == 1..MaxLogins

\* A ParserConfig.  session is a history: the derivation the config stems from.
Config(parser) ==
    [parser |-> parser, jar |-> None, headers |-> <<>>, param |-> None, alt |-> 1,
     session |-> None]

\* The credentials of an AuthState, and the mirror they belong to.
State(p, cookie, headers, param, alt) ==
    [parser |-> p, cookie |-> cookie, headers |-> headers, param |-> param, alt |-> alt]
NoState == State(NoParser, None, <<>>, None, 1)

HeaderList == Seq([name : {Agent, Authorization}, value : Parsers \cup Logins])
Alts == 1..2

TypeOK ==
    /\ Len(configs) \in 1..MaxConfigs
    /\ \A k \in DOMAIN configs :
         /\ configs[k].parser \in Parsers \cup {NoParser}
         /\ configs[k].jar \in 0..Len(jars)
         /\ configs[k].headers \in HeaderList
         /\ configs[k].param \in {None} \cup Logins
         /\ configs[k].alt \in Alts
    /\ jars \in Seq({None} \cup DOMAIN logins)
    /\ contexts \subseteq DOMAIN configs
    /\ state.headers \in HeaderList
    /\ logins \in Seq(Parsers)

\* The application's own context, of no parser, with a jar or of a client that makes none.
Init ==
    /\ \/ configs = <<[Config(NoParser) EXCEPT !.jar = 1]>> /\ jars = <<None>>
       \/ configs = <<Config(NoParser)>> /\ jars = <<>>
    /\ contexts = {1}
    /\ state = NoState
    /\ logins = <<>>

-----------------------------------------------------------------------------
(* Deriving and adopting *)

\* A variant that keeps the session of the base.
DerivedWithJar(p, base) ==
    [base EXCEPT !.parser = p, !.headers = Set(@, Agent, p), !.session = Len(configs)]

\* make_config(): a copy with a session and an identity of its own, then configure().
Derived(p, base) ==
    [base EXCEPT !.jar = None, !.parser = p, !.headers = Set(@, Agent, p),
                 !.session = Len(configs)]

MakeConfig(p, c) ==
    /\ Len(configs) < MaxConfigs
    /\ configs' = Append(configs, Derived(p, configs[c]))
    /\ UNCHANGED <<jars, contexts, state, logins>>

\* A variant that gives a config a jar whether or not it has one.
AdoptAnew(k) ==
    /\ jars' = Append(jars, None)
    /\ configs' = [configs EXCEPT ![k].jar = Len(jars')]
    /\ contexts' = contexts \cup {k}
    /\ UNCHANGED <<state, logins>>

\* RequestorContext's constructor: a config without a jar is given one, for good, unless
\* the client manages cookies itself and make_cookie_jar() returns null.
Adopt(k) ==
    /\ \/ UNCHANGED <<configs, jars>>
       \/ /\ configs[k].jar = None
          /\ jars' = Append(jars, None)
          /\ configs' = [configs EXCEPT ![k].jar = Len(jars')]
    /\ contexts' = contexts \cup {k}
    /\ UNCHANGED <<state, logins>>

-----------------------------------------------------------------------------
(* Logging in *)

NewLogin(c) ==
    /\ configs[c].parser # NoParser
    /\ Len(logins) < MaxLogins
    /\ logins' = Append(logins, configs[c].parser)

\* A response sets the session cookie in the jar of the context's config, if it has one.
CookieLogin(c) ==
    /\ NewLogin(c)
    /\ jars' = IF configs[c].jar = None THEN jars
               ELSE [jars EXCEPT ![configs[c].jar] = Len(logins')]
    /\ UNCHANGED <<configs, contexts, state>>

\* BooruParser::authenticate_context: a copy of the context's config, jar included,
\* with the key among its url params.  The caller adopts it.
BooruLogin(c) ==
    /\ Len(configs) < MaxConfigs
    /\ NewLogin(c)
    /\ configs' = Append(configs, [configs[c] EXCEPT !.param = Len(logins')])
    /\ UNCHANGED <<jars, contexts, state>>

\* The same as Parser::authenticate_context asks for: the copy has a jar of its own.
\* The token goes into a header.
TokenLogin(c) ==
    /\ Len(configs) < MaxConfigs
    /\ NewLogin(c)
    /\ configs' = Append(configs,
           [configs[c] EXCEPT !.jar = None, !.session = Len(configs),
                                     !.headers = Set(@, Authorization, Len(logins'))])
    /\ UNCHANGED <<jars, contexts, state>>

-----------------------------------------------------------------------------
(* Saving and restoring; what a parser declares as its credentials is the   *)
(* session cookie, the authorization header and the key.                    *)

\* The session cookie in the jar of a config, which goes with every request of its contexts.
CookieOf(k) == IF configs[k].jar = None THEN None ELSE jars[configs[k].jar]

\* export_auth()
Exported(k) ==
    State(configs[k].parser, CookieOf(k),
          GetAll(configs[k].headers, Authorization),
          configs[k].param, configs[k].alt)

ExportAuth(k) ==
    /\ configs[k].parser # NoParser
    /\ state' = Exported(k)
    /\ UNCHANGED <<configs, jars, contexts, logins>>

\* A variant that leaves the config's own headers beside the restored ones.
ImportAuthAppending(k) ==
    /\ state # NoState
    /\ configs[k].parser = state.parser
    /\ configs' = [configs EXCEPT
           ![k].headers = @ \o state.headers,
           ![k].param = IF state.param = None THEN @ ELSE state.param,
           ![k].alt = state.alt]
    /\ jars' = IF configs[k].jar = None \/ state.cookie = None THEN jars
               ELSE [jars EXCEPT ![configs[k].jar] = state.cookie]
    /\ UNCHANGED <<contexts, state, logins>>

\* import_auth(): what the state does not have stays as it is, and without a jar the
\* cookies are lost.
ImportAuth(k) ==
    /\ state # NoState
    /\ configs[k].parser = state.parser
    /\ configs' = [configs EXCEPT
           ![k].headers = SetAll(@, state.headers),
           ![k].param = IF state.param = None THEN @ ELSE state.param,
           ![k].alt = state.alt]
    /\ jars' = IF configs[k].jar = None \/ state.cookie = None THEN jars
               ELSE [jars EXCEPT ![configs[k].jar] = state.cookie]
    /\ UNCHANGED <<contexts, state, logins>>

-----------------------------------------------------------------------------
(* Mirrors *)

\* MirrorSource::list_for and Mirrors: the catalog's list, unless it is empty.
MirrorChoices(c, list) ==
    CASE configs[c].parser = NoParser -> <<>>
      [] list # <<>> -> list
      [] OTHER -> Builtin[configs[c].parser]

\* set_alt_link() writes into the shared config one of the choices of a context.
SetAltLink(c, alt) ==
    /\ \E list \in Overrides \cup {<<>>} : alt \in DOMAIN MirrorChoices(c, list)
    /\ configs' = [configs EXCEPT ![c].alt = alt]
    /\ UNCHANGED <<jars, contexts, state, logins>>

-----------------------------------------------------------------------------

Next ==
    \/ \E c \in contexts :
        \/ \E p \in Parsers : MakeConfig(p, c)
        \/ CookieLogin(c) \/ BooruLogin(c) \/ TokenLogin(c)
        \/ \E alt \in Alts : SetAltLink(c, alt)
    \/ \E k \in DOMAIN configs : Adopt(k) \/ ExportAuth(k) \/ ImportAuth(k)

Spec == Init /\ [][Next]_vars

-----------------------------------------------------------------------------
(* Properties *)

\* The headers of a request of a context, of which the getter set its own: apply_config_to().
Configured(c, own) == MergeMissing(own, configs[c].headers)

\* "two instances of a parser never share a login" (make_config, Parser.hpp:273) as far
\* as cookies go: configs that stem from different derivations never have the same jar,
\* however they were adopted, copied by logins or restored.
JarsAreSeparate ==
    \A j, k \in DOMAIN configs :
        configs[j].jar # None /\ configs[j].jar = configs[k].jar
            => configs[j].session = configs[k].session

\* A request says who its own parser is, once, whatever configs its config was derived
\* from and whatever was restored into it, unless the getter itself says otherwise.
RequestsNameTheirParser ==
    \A c \in contexts : \A own \in {<<>>, <<Header(Agent, "getter")>>} :
        LET names == GetAll(Configured(c, own), Agent) IN
        configs[c].parser # NoParser =>
            names = IF own # <<>> THEN own ELSE <<Header(Agent, configs[c].parser)>>

\* The session a config's requests carry in a cookie is one that was opened for its parser.
CookiesAreOwn ==
    \A k \in DOMAIN configs :
        CookieOf(k) # None => logins[CookieOf(k)] = configs[k].parser

\* Derived, adopted, logged in, saved and restored in any order, configs mix up neither the
\* cookie sessions of parsers nor their names.
SessionsStayApart ==
    /\ JarsAreSeparate
    /\ CookiesAreOwn
    /\ RequestsNameTheirParser

\* "Overwriting would drop a session established earlier (login, or a restored jar) and
\* would make new_with_logger/new_with_config silently wipe cookies" (ClientContext.cpp:47):
\* a config that has a cookie session, of a login or restored, goes on having one, however
\* often it is adopted and whatever is derived from it.
SessionsAreKept ==
    [][\A k \in DOMAIN configs : CookieOf(k) # None => CookieOf(k)' # None]_vars

\* import_auth() is "the inverse of export_auth": a saved session that is restored into
\* a config with a jar is what would be saved from it again, and no older credential of
\* that config stays beside it.
Restored(k) ==
    LET again == Exported(k)' IN
    /\ state.cookie # None => again.cookie = state.cookie
    /\ state.headers # <<>> => again.headers = state.headers
    /\ state.param # None => again.param = state.param
    /\ again.alt = state.alt

ImportRestores ==
    [][\A k \in DOMAIN configs : ImportAuth(k) /\ configs[k].jar # None => Restored(k)]_vars

\* "two instances of a parser never share a login" (make_config, Parser.hpp:273), let
\* alone two parsers, whatever channel the login travels in: what a config's requests
\* carry are logins made for its own parser.  make_config copies the base's headers and
\* url params, so this does not hold.
LoginsAreSeparate ==
    \A c \in contexts :
        LET config == configs[c]
            carried == {config.param, CookieOf(c)}
                        \cup {config.headers[i].value : i \in Named(config.headers, Authorization)}
        IN  \A login \in carried \ {None} : logins[login] = config.parser

\* authenticate_context: "Implementations log in on a new config with its own cookie jar"
\* (Parser.hpp:200): a config a login returned does not have the jar of the one it was
\* made from.  BooruParser copies the config with its jar, so this does not hold.
LoginsAreFresh ==
    \A j, k \in DOMAIN configs :
        configs[j].param # configs[k].param => configs[j].jar # configs[k].jar \/ configs[j].jar = None

=============================================================================
