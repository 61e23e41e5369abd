# Formal model of aniparse

TLA+ modules that model aniparse: the parts whose correctness depends on the
order things happen in, as state machines, and its algorithms, as operators that
are compared with reference definitions.  TLC checks them on small instances, and
TLAPS proves the properties that matter most.  Paths are relative to the
repository root; `DomainStore.hpp:142` names a line of the header of that name.

## The system

aniparse is a C++20 library that turns sites (anime, manga, images, video hosts)
into data.  A host application owns one `Client`, one `ParserStore`, one
`VideoExtractorStore` and a `CatalogManager`, and calls parsers from any of its
threads and from the threads network completions run on.

| Component | State | Operations | Interacts with |
|---|---|---|---|
| `DomainStore` (`include/aniparse/detail`) | the live snapshot (entries, volatile domains, routing index), a writer mutex; per edit: its base and its draft | `begin_edit`, `add`, `remove`, `set_volatile_domains`, `commit`, lookups | `ParserStore`, `VideoExtractorStore` own one each |
| `ParserStore`, `VideoExtractorStore` | a `DomainStore` | `add_*`, `remove_*`, `refresh_domains`, `find_*`, `route_*`, `extract` | hosts and `CatalogManager` edit them concurrently |
| `CatalogManager` | `revision_` | `apply`, `reset` | both stores; the holders below |
| `SelectorSourceHolder`, `RegexSourceHolder` | the source, cached views, cached compiled sets | `set`, `view_for`, `set_for`, `get` | set by `CatalogManager`, read by every request |
| `MirrorSourceHolder`, `ResourceCache`, `Republishable` | an atomic pointer; a type-keyed cache; a fetch-once cell | `set`, `get`, `evict`, `clear`, `publish` | as above |
| `UrlSessionClient` (Apple), `AsyncClient` (curl) | the session, the retry budget | `do_request`, `set_config` | coroutines, the transport's completion threads |
| coroutine tasks (`net/vendor`) | frame, stop source, continuation | `start`, `co_await`, `request_stop`, destruction | every request |
| `RequestorContext`, `Parser`, sessions | configuration, cookie jar, auth keys | merge, export, import | client, services |
| `CookieStore` | cookies under a mutex | `set`, `cookies_for`, `serialize`, `deserialize` | every request of a jar |
| resource adapters | the open handles of a chain | `open`, `on_response`, `update`, `final` | video extraction |
| search vocabulary | a source's declaration | `validate_query`, `validate_sort`, identity keys | every search |
| pagination, getters, booru engine | a caller's offset into a listing | `search`, `latest`, `items`, `serialize`, `parse_url` | sites, whose listings change meanwhile |
| HTML documents, JavaScript literals, URLs, times, scores | none between calls | walks, searches, texts, scanners, conversions | parsers |
| flag sets (`BitsetLite`, `StrongBitset`) | an array of words | set, combine, compare, convert | enumerations of capabilities |

What is hard here: writers of a store race with one another, with readers and
with the catalog; `apply()` is a sequence of separately atomic swaps that can
fail in the middle; caches are filled outside the lock that clears them; a
network completion races with the coroutine that waits for it, with its owner's
`stop` or destruction, and with `set_config()`.  `PROJECT.json` lists every
hazard at its line, with the properties that cover it or why none does yet.

What makes each part correct, in one line:

- **DomainStore**: no registration is lost to a concurrent writer, and a lookup sees one registry.
- **CatalogManager**: a call that returns moved everything to one catalog, and never costs a host its registrations.
- **holders**: an answer comes from the current source, and one compiled set serves a parser until the next source.
- **sessions**: what a request carries is its parser's identity and its session's live cookies, saved sessions come back as they were.
- **resource cache**: between two evictions callers share one copy, whoever built it, and a warm cell is not fetched again.
- **getters**: a walk over pages skips nothing that can be served, and a getter saved and restored is the same one.
- **algorithms**: what is found in a document, a script, an address or a query is exactly what its author put there.
- **client**: a request ends exactly once with the answer of its own task, a stop always ends it, and a retry respects the budget.

## Modules

| Module | Models |
|---|---|
| `Registry` | the abstract specification of a store: drafts and atomic, optimistic commits |
| `DomainStore` | `DomainStore.hpp` with snapshots at addresses, reference counts, the writer mutex and a throwing rebuild; implements `Registry` |
| `CatalogManager` | `apply`/`reset` over two `Registry` instances and the holders, with host threads editing both stores |
| `SourceHolder` | `SelectorSourceHolder`, and `RegexSourceHolder`, which is the same code |
| `Transfer` | a request of `UrlSessionClient` from `do_request` to its end, and `set_config`; implements `RequestContract` |
| `DomainScanner` | the tree of `DomainScanner.hpp` as operators: adding a domain, `search_all` |
| `Routing` | what a snapshot declares to its tree, from parsers and catalogs; composes `DomainScanner` |
| `Extraction` | `VideoExtractorStore::extract`, with edits of the store in between |
| `ResourceHandle` | the abstract specification of one streaming handle |
| `ResourceAdapter` | `ResourceAdapter::compose` and the chain of handles; implements `ResourceHandle` |
| `RequestContract` | the abstract specification of what `do_request()` of any client promises |
| `AsyncClient` | a request of the curl client as a chain of tasks, and `set_config`; implements `RequestContract` |
| `CookieStore` | the cookies of one session under concurrent requests, expiry, saving and restoring |
| `Headers`, `Subsequences` | a header list as operators; what is left of a sequence when entries are taken out of it |
| `Session` | configs, contexts, logins and saved sessions of an application's parsers; composes `Headers` |
| `ResourceCache` | `ResourceCache::get`, `evict` and `clear` under several callers, and the fetch-once cells (`Republishable`, `ensure_published`) it stores |
| `ImageSource` | the getters of the booru engine, and a caller that walks a listing which changes; composes `Pagination` and `Search` |
| `Pagination`, `Search` | pages, windows and limits in machine words; the checks of a query against a declaration |
| `FlagSet` | the abstract specification of flags: named sets of positions |
| `Bitset` | `BitsetLite` and `StrongBitset` as arrays of words; implements `FlagSet` |
| `Dom`, `HtmlText` | the iterators, searches and texts of a document; attributed text from markup |
| `JSParser`, `Urls`, `Measures` | the scanners of scripts; escapes, path segments and the parts of a URL; timestamps, numbers and ratings |
| `Algorithms` | the names `Documents`, `Addresses` and `Measured` of `Dom`, `Urls` and `Measures`, and what a document, a step of a search, a URL, a query and a reference in a path are |
| `Inputs` | what the algorithms may be given, one after the other, and what they promise of documents and queries |
| `*Proofs` | TLAPS proofs about the module they are named after; `DomainStoreProofs` also about `Routing`, `SessionProofs` about `CookieStore`, `ImageSource` and `Inputs`, `ExtractionProofs` about `ResourceAdapter`, `ContainerProofs` about `SourceHolder`, `ResourceCache` and `Bitset`, `AlgorithmProofs` about `Dom`, `Urls` and `Measures`, with the lemmas on sequences that several of them need |
| `MC*` | TLC instances: model values, symmetry, value sets; `MCValues` is the one of `Routing`, `Bitset`, `Inputs` (with `ImageSource`) and the other algorithms |

### DomainStore

A snapshot is a cell of a heap; an address is used again once nothing refers to
it, as an allocator would, because `commit()` decides staleness by comparing
pointers (`DomainStore.hpp:142`).  `Referenced` is what `shared_ptr` keeps
alive: the live snapshot, every open edit's base, every running lookup's
snapshot.  `EnterCommit` takes the mutex and compares, `Publish` is
`make_snapshot` and the store, `BuildThrows` the exception out of it, after
which the draft's maps are moved from but the edit keeps its base.
`RetryFailed` says whether a client calls `commit()` of such an edit again.
The routing index is a function of the content and is not represented.

### CatalogManager

`Order` is the sequence of parts `apply()` and `reset()` renew; `At(part, step)`
is where the manager is in it.  The two stores are `Registry` instances, which is
what `DomainStore` is proved to implement, so that a commit is one step here.
What a catalog puts into a part is represented by its revision.  Host threads
only add: a removal would be the host's own wish.  `int64_t` holds `-Half` to
`Half - 1` and `uint64_t` counts modulo `2 * Half`, since `Catalog.cpp:48` casts
one into the other; in the program `Half` is 2^63.

### SourceHolder

Steps are the accesses to `source_`, `views_` and `sets_`; compiling happens
between them.  A source is its place in the order of the stores and the set of
parsers it has scoped overrides for; a view or set is the source it was built
from.  An empty parser id is an id no source has a scope for.

### Transfer

`pc` follows one request through `perform_with_retry` and `perform_once`.
`stage` is `TransferState::stage`; `task` and `block` are the `NSURLSessionDataTask`
and its completion block, which Foundation runs on another thread.  External
behaviour assumed: a resumed task may complete at any time; a cancelled one
completes, with any outcome; one cancelled before it was resumed may never
complete (the code's own comment, `UrlSessionClient.mm:219`); a task must not be
created on an invalidated session.  Requests that cannot be built, cookies and
headers are left out: they happen before the first step shown or inside one.
Its refinement mapping takes a request to the contract's when it has read its budget:
until then nobody has seen which one it will use.

### AsyncClient

`source` says whose stop source each task of a request has: `Connect` is what
awaiting a task does to the awaited one, and the transfer takes its token when it
begins, after it was connected.  A configuration is the number of the
`set_config()` call that made it; `session` and `maxRetries` are stored by two
steps and read by two steps (`Start`, `AwaitRetry`).  External behaviour assumed of
asyncnet: a transfer may end in any way, a stopped one does end, and only a stopped
one ends cancelled.

### DomainScanner and Routing

A domain is the sequence of its labels from the top-level one down, a node the
path to it.  `Routing` keeps what `make_snapshot()` is given (`entries`,
`volatile`) beside the tree it makes, so that every lookup can be compared with
the declarations.  `UnionHosts` is the catalog's part: hosts of mirrors and
canonical origins are added to a parser's volatile domains, taken from the URL
as it is written there (`CatalogManager.cpp:17`), whereas a request's host went
through the URL parser, which lower-cases it (`Parsed`, external).

### Extraction

`frames` is the stack of `extract_routed()` calls of one coroutine; what an
extractor answers is any `VideoExtraction` or error (`Resolve`).  Each routing
step uses the snapshot that is live at that moment, and `Publish` replaces it
between any two steps.  A header is represented by the call that set it, an
adapter by the calls it is composed of.

### ResourceAdapter

`OpenNext` is an iteration of the loop in `open()`; a handle's own
transformation is any one that keeps the promise `ResourceHandle` states: it may
hold blocks back, and gives them on in order.  `todo` holds what a running
`update()` has yet to write, so that the recursion of `update_prefix()` through
`ForwardingOutput::write()` is one step per block.

### CookieStore

Each operation of the store is one step, as it holds the mutex throughout; a
response's cookies are stored one at a time (`Harvest`), so those of another one
come in between.  `Send` is `apply_cookies`; what it reads is `CookiesFor` of the
state before it.  A domain is the sequence of its labels, a path of what is
between its slashes.  `latest` and `saved` are history variables: the cookie
stored last per name, domain and path, now and when the lines were written.

### Session

A `ParserConfig` and a jar are places in `configs` and `jars`, because they are
shared by pointer; `contexts` are the configs that went through the constructor
of `RequestorContext`.  A jar is represented by the login its session cookie is
of.  A context has one only where its client makes one: `make_cookie_jar()` returns
null for a backend that keeps cookies itself (whose own cookies are not represented),
so `Adopt` may leave a config without, and what a response or a saved session has
to store is lost then.  Request modifiers are functions of the application: what is
said of a request is said of it as modifiers are given it.  `BooruLogin` is the engine's
`authenticate_context`; `TokenLogin` does what `Parser.hpp` asks every other parser's
to do, since those parsers are not in this repository.  `MirrorChoices` takes any list
a catalog can have: the context of a config keeps the list of the catalog that was
current when it was made.

### ResourceCache

A caller is between two accesses to the cache or to a cell: the lookup under the
shared lock (`Find`), the factory outside any lock (`Build`), `try_emplace`
(`Insert`), `is_fetched()` (`Check`), `snapshot()`, and the fetch, which ends with
`publish()` or an error.  A cell is its number, what it holds the number of the
fetch that was published in it.  `evicted`, `since` and `warm` are history
variables: they say which evictions a caller's lookup and call have seen.

### ImageSource, Pagination, Search

A walk is what `Pagination.hpp` asks of a caller: `next_offset` goes back as
`from` until a page is empty.  `PostsOf` is the engine's share, modelled from what
`OffsetPaging` and `BooruEngine.hpp` say of it, since no engine is part of the
repository; `PostPage` (the loop of `build_post_page` as a recursive function),
`PoolPage`, `ContainerItems` and the serialization are the getters'.  An entry of an
answer has a file and an id, a file alone, an id alone or neither: listings have a
container per id (`HasId`), pools an item per file (`Servable`), and a post that is no
object is `NotFound`, unlike one without a file.  Offsets and what is computed from them
are signed words (`AsOffset`); a sum that leaves them, which C++ leaves undefined, goes
round.  Between two pages `Publish` puts a new post in front and `Withhold` takes a file
away.  `Search` has one operator per check of `Search.cpp`; a map is a function on its
keys, and a list of errors the set of them, as each names its key.

### Bitset and FlagSet

A word is the set of its bits.  `SetPosition`, `SetAll`, `ResetAll`, `Or`, `And`, `Xor`,
`Not` and `FromWord` are the operations; several of them leave bits behind the last flag
in the last word, which is why `All` compares the last word under `LastWordMask`.  A
bitset stands for the positions below `BitCount` whose bit is set (`Members`).

### Dom, HtmlText, JSParser, Urls, Measures, Inputs

Operators named for the functions they model.  A document is its tree, nodes
numbered in document order, and per node its kind, tag, attributes and text; the
links lexbor keeps (`Links`) are derived from it.  A script is a sequence of
characters, of which those that matter to the scanners are told apart.  A URL is a
sequence of bytes, a timestamp one of characters; a double is a fraction of integers.
`FromHtml` is `from_html()` of an element, `FromFragment` the one of a string, which is refused by
the parser or throws as the input says; `ColorOf` reads a colour attribute and the
declarations of a style character by character, with six of the hexadecimal digits (`Hex`).
Each module ends with what is promised, stated over inputs that are built from
their meaning (a tree, the pieces a script is written from, the components of a
URL, a date, time and zone), so that the reference is not the algorithm again.

`Inputs` is the machine that gives them documents, searches, addresses and queries: `MayBeGiven`
says of which form these are, whatever their size, and `InputsSpec` gives any such input
after any other.  The run enumerates small ones through the same guard (`Give`), which
refuses none of those `MCValues` picks, so that what is checked and what is proved are
about the same inputs.

## Runs

| Run | Question | Bounds, and why they are enough |
|---|---|---|
| `domain_store` | are updates lost, lookups mixed, stale drafts published? | 2 editors and 1 reader, 1 key with 2 values, 2 override tables, 4 addresses (live, two bases and one lookup can all differ, so reuse happens as soon as one is dropped) |
| `catalog_manager` | does a call move everything, or heal what an earlier one left? | 1 host and 1 name suffice to outdate either store's edit; revisions of 1, 2 and -1, which the cast makes the largest of `Half` 4; no resource cache, so that a part is skipped |
| `catalog_failure` | does a failing call change nothing? | same, without exceptions of the manager's own rebuild; violated |
| `source_holder` | do caches follow the source? | 2 lookups, 2 setters, 2 parsers, 1 set type, 2 stores: a lookup can be outrun by two set() calls and meet another's late entry |
| `transfer` | does every request end, once, with its own answer? | requests share nothing but the client's session and budget, so one is checked, with up to two retries and one `set_config()`; the contract's counts of retries and final answers are checked as a refinement |
| `async_client` | does a request keep the contract, whatever is configured meanwhile? | requests share only the two fields, so one is checked, with up to two retries; two callers and two calls, one after the other, so that a call can fall before, between and after a request's two reads |
| `extraction` | are streams wrapped by everyone they came through, does an extraction end? | depth 2 (three nested calls), 2 extractors, 2 URLs, 2 links per answer, 1 header name, 1 edit |
| `resource_adapter` | does a chain behave like one handle? | up to 3 adapters, 3 blocks: an inner handle can keep one back while the outer two are in different calls |
| `cookie_store` | do requests carry what was stored last and is alive? | 2 requests, 3 times, 2 cookies per response: a renewal can expire, be deleted, be saved and restored in any order; 4 cookies of one name in two scopes |
| `session` | do sessions stay apart, last and come back? | 3 configs and jars (an application's own and two that are derived, one from the other or apart, or copied by logins), each with a jar or without, 2 parsers, 3 logins, one more than jars of parsers |
| `resource_cache` | is one copy shared, is a warm cell left alone, does every call return? | 2 callers, 1 key (keys share nothing but the locks), 3 cells, 3 fetches, 1 eviction: a builder can be outrun by another one and by `clear()`, and two fetches of one cell can cross |
| `values` | do the algorithms give what their reference definitions give? | see below |

`values` holds one input or one machine at a time; the others stay where they began.

- `Routing`: 2 parsers, domains of up to 2 labels and hosts of up to 3; lists of up to
  one domain or mirror (`MaxListed`) beside the canonical origin; they can be missing
  a host or name one that is no domain.
- `Bitset`: 3 flags in words of 2 bits, so that the last word is not full; 2 bitsets.
- `ImageSource`: pages of 2, up to 3 posts in each of the four states, limits of 1 and
  none, which the walk meets at every offset.
- Documents of up to 5 nodes for walks, and of 4 with every kind of node that the
  texts and searches tell apart: a subtree with something behind it, at two depths.
  Markup is parsed, refused or throws.
- Colours of every number of digits that is one and of two that are none, with a digit that is
  none, without `#` and with blanks, as an attribute and in up to two declarations.
- Scripts of one or two strings with quotes, brackets and escapes in them, comments
  between them, an array around them and six texts in front that resemble the
  assignment; calls with up to three of five kinds of argument.
- Addresses of up to 3 bytes of 7 kinds, queries of up to 3 keys of which one ends
  like another, URLs with every part missing or present.
- Dates, times and zones at and beyond their last legal value, fractions of more
  digits than the clock has; histograms of up to 11 steps with empty ends.
- Filters of each type at, below and above what is declared; words of 4 bits, windows of
  every offset up to the last one, limits of every word, half of which are no offset.

The configuration of a run has the constants; the type invariant of a module (`TypeOK`,
or `JarTypeOK` and the like where a module of proofs extends two machines) and the statements below are checked by naming them in a copy of it.

| Statement that does not hold | Configuration | Change |
|---|---|---|
| `NoLostUpdate` | `MCDomainStore` | `RetryFailed = TRUE` |
| `FreshAnswers` | `MCSourceHolder` | |
| `OnlyNewerIsApplied` | `MCCatalogManager` | |
| `NoWakeAfterDrop`, `SessionServesItsRequests` | `MCTransfer` | |
| `NeverANewerCount` | `MCAsyncClient` | |
| `ConfigurationIsWhole` | `MCAsyncClient` | `Turns = FALSE` |
| `DeepestIsReturned`, `SnapshotIsKept`, `GateFollowsTree` | `MCExtraction` | |
| `EveryAdapterSeesTheManifest` | `MCResourceAdapter` | |
| `RequestsCarryTheLatest` | `MCCookieStore` | `Cookies <- AndEpoch`, or `ForeignLines <- CurlLines` |
| `LoginsAreSeparate` | `MCSession` | `MaxConfigs = 4` |
| `LoginsAreFresh` | `MCSession` | |
| `ListedUrlsRoute` | `MCValues` | `MixedLabels = {"Site"}`, `Lower <- CapitalCase`, `CatalogUrls <- CapitalHosts` |
| `NewestIsServed` | `MCResourceCache` | |
| `EveryPostIsGiven`, `RunsStayInText`, `ComparesAsSets` | `MCValues` | |

Fairness is assumed where the process itself does the next step: a coroutine or block
that runs goes on (`Transfer`, `AsyncClient`, `Extraction`, `ResourceCache`: they are threads of
the process), Foundation completes a cancelled task, asyncnet ends a stopped transfer,
an extractor and a fetch answer in the end, since their requests end, and a caller in the
middle of a walk asks for the next page (`ImageSource`).  Nothing is assumed of servers:
`StopEnds` holds although none ever answers; `RequestsEnd` states the assumption it needs.
No deadlock is checked where the system stops: a request, an extraction, a resource
and an algorithm end.

## What the runs found

1. `Edit::commit()` moves its maps out before the part that can throw and stays
   committable (`DomainStore.hpp:189`): a retry publishes an empty registry.
2. `apply()` can throw between the two stores (`CatalogManager.cpp:82`), against
   "on any failure nothing changes.  Never throws" (`CatalogManager.hpp:60`).
3. A negative revision is applied as the newest of all (`Catalog.cpp:48`).
4. A view or set built from a replaced source is cached after the clear that was
   meant to drop it (`SelectorSource.hpp:204,233`, and `RegexSource.hpp` alike).
5. `TransferState::complete` claims the resume before it resumes
   (`UrlSessionClient.mm:182`): a coroutine destroyed in between is resumed.
6. A request that took its session before `set_config()` may create its task
   after that session was invalidated (`UrlSessionClient.mm:607`).
7. A mirror whose host has a capital letter never routes: the tree compares
   labels exactly, and only requests are lower-cased (`CatalogManager.cpp:17`).
8. An extraction that runs into its depth limit ends with the first extractor's
   answer: each call around the cut one falls back to its own
   (`VideoExtractor.cpp:51`), against "returns the deepest extraction
   unresolved" (`VideoExtractorTest.cpp:217`).
9. Links are routed by whatever snapshot is live when they are reached
   (`VideoExtractor.cpp:136`), against "already in progress keep using their
   snapshot" (`VideoExtractor.hpp:283`).
10. `valid_for_url()` of a pinned extractor is asked about hosts its tree never
    selected (`VideoExtractor.cpp:141`), against `VideoExtractor.hpp:111`.
11. `ComposedResourceAdapter::open` moves the whole context into the first
    adapter (`ResourceAdapter.cpp:82`): the second sees an empty manifest URL.
12. A cookie deleted with the date 0 comes back from a saved session and never
    expires: 0 is also how no expiry is written (`CookieStore.cpp:120`).
13. A session saved by the curl client keeps the dot in its domains; renewed by
    the URLSession client it sends both cookies (`CookieStore.cpp:42`).
14. A config derived from an authenticated one carries its header and url-param
    credentials (`Parser.cpp:50`), against "two instances of a parser never share
    a login" (`Parser.hpp:273`).
15. A booru login shares the caller's jar (`BooruParser.cpp:80`), against "with
    its own cookie jar" (`Parser.hpp:200`).
16. `do_request()` reads `session_` before `max_retries_` (`Client.cpp:275`), so that
    a request can use the old session with the new retry count, against "Worst
    case: request uses old retry count" (`Client.cpp:349`).
17. `set_config()` calls that overlap leave the session of one in force with the
    retry count of another for good (`Client.cpp:367`), against the same comment.
18. Two callers that find a cell cold both fetch it, and the older answer can be
    published last (`EnsurePublished.hpp:47`, `NewestIsServed`).
19. A pool's page all of whose posts are withheld is empty and ends the walk
    (`BooruPoolGetter.cpp:75`), against what `Pagination.hpp:56` says of an empty page.
20. The text of an `AttributedText` loses its trailing blanks after its runs were
    measured, so that a run can end behind the text (`HtmlText.cpp`, `RunsStayInText`).
21. Bit sets compare the unused bits of the last word (`BitsetLite.hpp`): where the flags do not
    fill it, a set of all positions differs from the one `set()` makes (`ComparesAsSets`).

What the models contradict or take over without a statement of its own:

- `ClientContext.hpp:676` says that an index past the end of the mirrors resolves to an
  empty URL, `MirrorSource.hpp:47` that it clamps, which it does.
- `import_auth` keeps one value per header name, `export_auth` saves them all
  (`Authentication.cpp:18`).
- An interval that begins beyond the declared maximum, or ends below the minimum, is
  accepted: bounds are compared like with like only (`Search.hpp:197`).
- `is_identity_key` does not ask whether the source declares the key (`Search.hpp:420`).
- `clamp_limit` clamps its fallback as well (`Pagination.hpp:201`); and a limit that is no
  signed word, of half of what its type holds, turns negative in the cast and is not held back
  by the cap (`Pagination.hpp:208`).
- `page()` of the last offset, with pages of one item counted from 1, leaves the offsets
  (`Pagination.hpp:178`).
- `HTMLDocument::as_element` returns the first node that is no doctype, which is a comment
  where one precedes `<html>` (`HTMLDocument.cpp:37`); the move assignments of
  `HTMLDocument` and `HTMLParser` do not free what they held (`HTMLDocument.cpp:30`,
  `HTMLParser.cpp:25`).

For 1, 4 and 5 the passing runs show what does hold: `NoLostUpdate` when failed
edits are dropped, `StaleOnlyThroughLateKeys`, and every property of `Transfer`
for requests whose owner waits.

## Proofs

TLC checks small instances; TLAPS (tlapm, with Z3, Zenon and LS4) proves the
following for every value of the constants.  For each machine the inductive invariant
(`IInv`, or a name like `RoutingInv` where a module is about several machines) is what to
read to see why a property holds; then there is one lemma per action or group of actions,
then the theorems.

**DomainStoreProofs** (assumes `DomainStoreAssumption`: the null address, the
absent entry and the free mutex are none of the ordinary values; any numbers of
these).  `TypeCorrect`, `LookupsAreIsolated`,
`PublicationOutdates`; and, for clients that drop an edit whose commit threw
(`~RetryFailed`), `NoUpdateIsLost` and `Refinement`, that is, the store implements
`Registry`.  The invariant relates each open edit to its base:
`DraftFollowsBase` says that a draft whose base is still live agrees with it
wherever the edit did not write (without `~RetryFailed` this breaks: the moved-out
maps of a failed edit agree with nothing); `BuildingIsExclusive` that only the edit
that holds the mutex is past the comparison, so that what it compared with is still
live when it publishes; and reference counting (`PointersAreReferenced`,
`SweepKeepsReferenced`) that an address in use is never allocated again, without
which a pointer comparison could take a new snapshot for an old one.

**DomainStoreProofs, on Routing** (assumes `RoutingAssumption`: hosts are labels, and a
label in lower case is its own lower-case form), for any parsers, domains, catalogs and
lengths.  `RoutingTyping`, `RoutesToLongest` and, for catalogs whose URLs have hosts in
lower case (`LowerUrls`, exactly what 7 above is about), `ListedRoute`.  The invariant is
that the tree is the one of the present entries and catalog, and that every host a
catalog lists is among the volatile domains; the work is in what a tree is.  `Holds` ties
a tree to the declarations it was made of: at every node, whoever is accepted, the first
one listed is the one declared first for it.  `AddedHolds` keeps it over one more
declaration, `TreeHolds` over all of them by induction on their number, `DeepestIs` and
`SearchStops` say where the walk of a search begins and ends, and `LongestIsFound` puts
them together: any tree that holds declarations finds the longest domain.

**ContainerProofs, on SourceHolder** (assumes `SourceHolderAssumption`).  `TypeCorrect`,
`CachesFollow`, `StaleOnlyThroughLate`, `OneCopy`.  The invariant ties what every
lookup has read to the set() calls that had ended then: an entry older than the
newest completed set() can only have come from a lookup that is recorded as late.

**TransferProofs** (assumes `TransferAssumption`).  `Invariance`, `TypeCorrect`,
`AnswersAreOwn`, and `RulesAreKept`, that the client implements `RequestContract`
without its fairness.  `Handoff` lists, for each
place of the coroutine, what the stage, its task and the completion block can be;
`InFlight`
is its part for a coroutine that waits: the task runs, or its block has stored the
result, or has made the exchange and owes a parked coroutine a resume.  Requests share only the client, so the
step lemmas treat the request that steps (`OwnStep`) and the others (`OtherStep`).

**AsyncClientProofs** (assumes `AsyncClientAssumption`), for any number of requests,
callers, retries and configurations.  `TypeCorrect`; `LaterRequestsAreAffected`,
for callers of `set_config()` that take turns (`Turns`); and `RulesAreKept`, that
the client implements `RequestContract` without its fairness.  `Chained` says that
every task from the getter's to the running transfer has the getter's stop source;
`Loop` that a transfer which ended cancelled was stopped; `Later` that what is
stored is never older than a configuration whose call has returned, which needs
`OneAtATime`: only one caller is at work, and it stores the newest.

**ExtractionProofs** (assumes `ExtractionAssumption`), for any extractors, links, headers
and depth.  `ExtractionTyping` and `BranchesAreWhole`: a stream carries the headers and
adapters of exactly the calls around it, nearest first.  The invariant says that
only calls that were given links wait for another one (`Delegation`), that nothing but
errors has been answered when the first one fails (`Failures`), and that the calls a
stream came out through are those whose frames it still has to pass, and that it is
wrapped by the ones it has passed (`Streams`).

**ExtractionProofs, on ResourceAdapter** (assumes `ResourceAdapterAssumption`), for chains
and responses of any length.  `TransformsInOrder` and `FinalIsLast`.  `Passed` counts
how many handles a block has been through when it is held, queued or written, and
the invariant says that along the chain this number only depends on the place;
`FinalizedFromTheEnd` that nothing is left in the handles final() is done with.
`ChainsAreHandles` is the refinement: the chain keeps the promise `ResourceHandle` states
of one handle.  The invariant for it is `InOrder`: there are boundaries `b[0] .. b[n]`, from
the blocks written to the blocks taken in, such that what the h-th handle has yet to write
and keeps are the blocks after `b[h - 1]` up to `b[h]`, in order (`Ordered`).  A block that is
handed on belongs to no handle for a moment (`Handed`), until the next one takes it in
(`PrefixOrdered`); and when final() is done no handle holds any, so that the first and the
last boundary are the same (`AllGiven`).

**SessionProofs** (assumes `SessionAssumption`), for any number of configs, jars, parsers
and logins, with clients that make jars and with ones that do not.  `Typing`,
`SessionsAreSeparate`, `SessionsStay` and `SavedSessionsAreRestored`.  The invariant
says of every config that it names its parser exactly once and credentials at most once
among its headers (`Proper`), which is what setting, erasing, merging and importing keep;
that a jar belongs to the configs of one derivation, which are all of one parser; and that the
session in it was opened for that parser.

**SessionProofs, on CookieStore** (assumes `CookieStoreAssumption`), for any requests,
cookies, lines and times.  `JarTyping`; and `LatestAreCarried` for cookies whose domain is
always written with the same dot and that do not expire at the epoch (`PlainCookies`,
exactly what 12 and 13 above are about; also for lines other backends saved).  The
invariant is that the store and the saved lines have one cookie per name, domain and
path (`JarShape`), and that each is the one stored last for them and none that is alive
is missing (`Faithful`), which evicting, replacing, saving and restoring keep.

**SessionProofs, on ImageSource** (assumes `SourceAssumption`), for any
page size, cap and number of posts.  `WalksAreWhole` is `WalksKeepTheListing`.  `NothingIsSkipped`
itself is inductive next to `OneEach`, that no two posts have one id and a new one has none
of a post that was there: a new post moves the others away from the start, so that the
offset reaches fewer of them, and a page has every servable post among the entries it is of
(`Shows`), which are those that follow the offset (`PostsAre`).  For walks over a listing that
does not change the invariant says that what was given is what the source has (`QuietInv`).
`WindowsAndLimits` and `GettersAreRestored` are about the conversions alone, for words of any
width: which window has no page, and which limits the cast turns negative, is part of what
is proved.  The facts on powers
of two in `SourceAssumption` are there because the provers have none; TLC
evaluates them in the run `values`.

**AlgorithmProofs** begins with the lemmas on sequences the other proofs share: what
`Entries` keeps and in which order, what flattening has.  Operators of the library that are
recursive functions are reasoned about by induction over sets of numbers
(`LeastNumber`, `SetInduction`): the library's induction theorems take an operator as
a parameter, these take a set, and follow from the fact that strict inclusion of finite
sets is well founded.  That a recursive function has the values its equation says follows
from `RecursionExists`.

*On Urls*, for any bytes.  `UrlsAreTheirParts`: the views of a `ParsedUrl` are its
components.  Each of them stands (`Stands`) in one of five texts that make up the URL one
behind the other (`HrefIs`, `ConcatenationIsInARow`), the host behind as many bytes as
`HostOffset` counts (`CredentialsAre`).  `EncodedComesBack`: what was escaped is decoded to
what it was, since decoding takes one piece of the escaped text at a time, a kept byte
or an escape of three (`EncodedIs`, `DecodingStep`).  `ReferencesAreRead`: what stands behind
the first place of a marker is read up to its delimiter, or as the number it is.
`KeysAreRead`: reading a key of a query yields the number of the first pair that has this very
key.  The text of a query is its pairs one behind the other (`QueryIsLaidOut`); the marker of a
key stands nowhere but at the end of a pair's key, and is as long as that key exactly if it is the
same one (`MarkerIsInPair`), so the reading goes on from pair to pair (`ReadsOn`).

*On Measures*: `RatingsAreMeans`, that a histogram of any votes rates as `rate()` of the list
of its votes does, and not at all if there are none.  The sums of the code are folds over
places; taken in turn they are functions of how many places were taken, and one more step
of a histogram adds its votes to the list, each once (`VotesAreListed`).

*On Dom*, for documents of any size whose nodes are numbered in document order.
`DocumentWalksAreWhole`: the walk iterators visit exactly what is below their root, in
order, forwards and backwards, and so do the iterators over children.  The links of a
document follow from the parents (`LinksAre`), the next node of a walk is the next number
below the root (`StepsAre`, with `RiseEnds` for the way up), and two lists that rise and have the
same members are the same (`ListsAreOne`).  `SearchesAreExact`: `Finder`, `find`, `find_all` and
the chains of them agree on the elements that are hit.  The scan for one class among
several finds it exactly if it is one of the words (`ContainsClassIs`, `ClassesAreFound`), and a
search keeps what matches of what a walk visits (`SearchesAre`).

**CatalogManagerProofs** (assumes `CatalogManagerAssumption`), for any hosts, names,
revisions and configured parts.  `TypeCorrect`, `CallsAreWhole`, `RoutingComesFirst`,
`RegistrationsAreKept`.  Revisions are any integers; that only newer ones are applied does not
hold (3 above).  `IInv` says where everything is while the manager
is at one of its nine places: parts it is done with are of the new catalog, the
others of the old one unless a call has thrown (`StoresFollow`, `HoldersFollow`); a draft
that can still be committed has all the names of its store (`DraftsFollow`), which is
why a commit loses none; and the manager's own draft has the new revision once it was
edited (`ManagersDraft`).

**ContainerProofs, on Bitset** (assumes `BitsetAssumption`), for any number of flags and any word size.
`BitsetTyping`, `BitsetObservers` and `BitsetRefines`, that the words implement `FlagSet`.
The argument is the arithmetic of division with remainder: a position is a word and a
bit of it (`PositionIsItsBit`), and the last word ends where the flags do (`LastWordEnds`).

**ContainerProofs, on ResourceCache** (assumes `CacheAssumption`), for any callers, keys and bounds.
`CacheTyping`, `SharedCells`, `WarmCalls`, `UsableAnswers`.  While nothing was evicted since
a caller's lookup, the stored cell is its cell; while nothing was evicted since a warm call
began, the stored cell is warm (`CallInv`); and a published cell is never cold again
(`CellsStayWarm`).

**SessionProofs, on Inputs** (assumes `InputsAssumption`: finitely many tokens, `Absent` is no
number; and `SourceAssumption`).  `SearchesStayExact`, `AddressesStayExact` and `QueriesStayExact`:
whatever may be given is walked, searched, encoded, read, checked and paged as `SearchesAgree`,
`AddressesAreExact` and `QueriesAreExact` say.  What
may be given (`MayBeGiven`) is a document in document order whose elements have names and
values, a step of a search that has a character if it is for one class among several
(`IsStep`; the code finds an empty class where a text begins with a blank or two blanks
meet), any bytes and components of a URL, a query of digits whose keys have none of its
separators `&`, `=` and `?` and a key alike (`IsQuery`, `IsKey`), a
reference without a delimiter behind the first marker (`IsReference`), any declaration and
filters, and what the types of `Pagination`
hold.  The first is `DocumentWalksAreWhole` and `SearchesAreExact`; the second is
`EncodedComesBack`, `KeysAreRead`, `ReferencesAreRead`, `UrlsAreTheirParts` and
`GettersAreRestored`; the third rests on
`QueriesAreOffered`, that the checks of a query accept exactly what the reference `Offered`
builds, kind of value by kind of value (`ValueIsOffered`), on `IdsAreSearched`, and on
`WindowsAndLimits`.

Only model-checked: every liveness property and the fairness of the contracts, which
the prover cannot treat; and of the algorithms of `MCValues` the texts of a document,
colours, the literals of a script, timestamps and numbers.  These are the results of
recursions over trees and characters, compared with references that are built from the
inputs the run enumerates.

## Not modelled, and why

- **Parsing itself**: HTML and URLs (lexbor), JSON (Boost.JSON) and regular expressions
  (Boost.Regex) are external; their wrappers keep no state between calls.
- **`CompiledSelector`, `SelectorSource`, `RegexSource`**: which selector or pattern a name
  resolves to; a set is the source it was built from, a selector the elements it matches.
- **Streaming through resources** (`ClientContext::stream`): the order of the calls
  it makes is `ResourceAdapter`'s; its own body is a transfer.
- **Requests**: how params, forms, headers and cookies become a curl or Foundation request.
- **The anime and manga getters**: interfaces for parsers of concrete sites, with default
  members that forward to one another and no state.
- **`CatalogSink`, `FileCachingClient`**: tools for developers, single-threaded.
- **Concrete sites**: not in this repository, except for the booru engine, whose
  URLs and JSON layout are data.

`PROJECT.json` lists these component by component.

## Plan

What is left, in this order:

1. `MediaSource`: the anime and manga getters' default members, and which of them a
   parser must replace so that no two forward to one another.
2. The merge rules of `SelectorSource` and `RegexSource` (scoped before shared before
   built-in) under `SourceHolder`, and `CatalogManager` with the cache it evicts from.
3. Proofs: `ValidateSort`, and the fractions and zones of a timestamp (`Measures`).
4. `CatalogSink`, whose output should be a catalog that changes nothing when it is applied.

The number of runs is kept at twelve, so that a statement of the documentation the
code does not keep is in the table above when a component comes in.
