----------------------------- MODULE ImageSource -----------------------------
(***************************************************************************)
(* The getters of a booru source, and a caller that walks a listing of it  *)
(* as Pagination.hpp asks: next_offset goes back as from, until a page is  *)
(* empty.  Between two pages posts are published or withheld.  A request   *)
(* that fails leaves the caller at its page.  How an engine builds         *)
(* requests is not part of the repository: it is modelled from what        *)
(* OffsetPaging and BooruEngine say of it.                                 *)
(***************************************************************************)
EXTENDS Integers, Sequences, FiniteSets, Subsequences

CONSTANTS
    Absent,         \* an empty optional
    IdentityAxes,   \* see Search
    PageBits,       \* see Pagination
    PageSize,       \* the endpoint's page size
    Cap,            \* the most it gives at once
    MaxPosts        \* bound: entries of the listing

\* Pages and answers hold something, a word has a sign and another bit, and offsets into the
\* listing are words.  (Powers are beyond the provers, which need what follows from that.)
ASSUME SourceAssumption ==
    /\ PageSize \in Nat \ {0} /\ Cap \in Nat \ {0} /\ MaxPosts \in Nat
    /\ 2^(PageBits - 1) \in Nat \ {0, 1} /\ 2^PageBits = 2 * 2^(PageBits - 1)
    /\ MaxPosts < 2^(PageBits - 1)

P == INSTANCE Pagination
Q == INSTANCE Search

VARIABLES
    listing,        \* the source: a sequence of entries, first one first
    walk            \* the caller's walk of it

sourceVars == <<listing, walk>>

\* A post serves a file or withholds it; a nameless entry serves one and says no id; a broken
\* one is no object, or says neither.  The model tells all of them apart by an id of its own.
States == {"served", "withheld", "nameless", "broken"}
Entry(id, state) == [id |-> id, state |-> state]

InvalidId == 0

-----------------------------------------------------------------------------
(* BooruEngine *)

\* The entries of one answer: those of the page that holds from, less the ones to skip.
PostsOf(filters) ==
    LET want == P!ClampLimit(filters.limit, Cap, Cap)
        paging == P!OffsetPaging(filters.from, want, PageSize)
        first == (P!PageOf(paging, 0) * PageSize) + P!SkipOf(paging) + 1
        last == (P!PageOf(paging, 0) + 1) * PageSize
        page == SubSeq(listing, first, IF last < Len(listing) THEN last ELSE Len(listing))
    IN  SubSeq(page, 1, IF Len(page) < want THEN Len(page) ELSE want)

-----------------------------------------------------------------------------
(* BooruContainerGetter and BooruPoolGetter *)

\* What info_ and item_ hold, NoCard if the getter was built from an id.
NoCard == [item |-> "unknown"]
Card(entry) == [item |-> entry.state]
Container(id, card) == [getter |-> "post", id |-> id, card |-> card]
Pool(id) == [getter |-> "pool", id |-> id, card |-> NoCard]

\* An item: the file of an entry.
Media(entry) == [getter |-> "media", id |-> entry.id, card |-> NoCard]

\* post_to_item: the entries with a file, whether they say an id or not.
Servable(entry) == entry.state \in {"served", "nameless"}
Served(posts) == {i \in DOMAIN posts : Servable(posts[i])}

\* The entries that say an id.
HasId(entry) == entry.state \in {"served", "withheld"}

PageOfOne(state) ==
    IF Servable([state |-> state])
    THEN [results |-> <<P!PageItem(state, 0)>>, next_offset |-> 1, total_count |-> 1]
    ELSE P!NoResults

\* fetch_post: no object is no post, which is not a post without a file.
FetchItems(current) ==
    IF current = "broken" THEN [asks |-> TRUE, error |-> "NotFound", page |-> P!NoResults]
    ELSE [asks |-> TRUE, error |-> "none", page |-> PageOfOne(current)]

\* Variant: a card is enough for an item.
ContainerItemsAnyCard(getter, current) ==
    IF getter.card # NoCard THEN [asks |-> FALSE, error |-> "none", page |-> PageOfOne("served")]
    ELSE FetchItems(current)

\* The page or the error, and whether the source was asked.
ContainerItems(getter, current) ==
    IF getter.card # NoCard THEN [asks |-> FALSE, error |-> "none", page |-> PageOfOne(getter.card.item)]
    ELSE FetchItems(current)

\* The serialized identity: the id as text, behind "pools/" for a pool.
Serialize(getter) == [prefix |-> getter.getter = "pool", id |-> getter.id, empty |-> FALSE]
EmptyData == [prefix |-> FALSE, id |-> InvalidId, empty |-> TRUE]

InvalidArguments == [getter |-> "none", id |-> InvalidId, card |-> NoCard]

\* Variant: a family without pools is not told apart.
FromSerializedPost(data, pools) ==
    IF data.empty THEN InvalidArguments ELSE Container(data.id, NoCard)

\* atol() reads no number in front of a prefix.
FromSerialized(data, pools) ==
    IF data.empty THEN InvalidArguments
    ELSE IF data.prefix THEN IF pools THEN Pool(data.id) ELSE Container(InvalidId, NoCard)
    ELSE Container(data.id, NoCard)

\* url: the ids the engine finds in it, Absent if none.
ParseUrl(url, pools) ==
    IF pools /\ url.pool # Absent THEN Pool(url.pool)
    ELSE IF url.post # Absent THEN Container(url.post, NoCard)
    ELSE InvalidArguments

\* BooruParser::suggest_getter
SuggestGetter(url, pools) ==
    IF url.post # Absent \/ (pools /\ url.pool # Absent) THEN "Images" ELSE "Unknown"

\* A getter survives serialization as the container it is, and a URL that is suggested
\* for images names one.
GettersRestore(url, pools) ==
    LET getter == ParseUrl(url, pools)
    IN  /\ (SuggestGetter(url, pools) = "Images") <=> (getter # InvalidArguments)
        /\ getter # InvalidArguments => FromSerialized(Serialize(getter), pools) = getter
        /\ FromSerialized(EmptyData, pools) = InvalidArguments

-----------------------------------------------------------------------------
(* BooruImagesGetter and BooruPoolGetter: one page *)

\* build_post_page: every entry that is a post, withheld or not, with its card.
PostPage(posts, from) ==
    LET page[n \in 0..Len(posts)] ==
          IF n = 0 THEN P!NoResults
          ELSE IF ~HasId(posts[n]) THEN page[n - 1]
          ELSE P!AppendItem(page[n - 1], from, Container(posts[n].id, Card(posts[n])))
    IN  page[Len(posts)]

\* Variant: the next page begins one too far.
PoolPagePastEnd(posts, from) ==
    LET kept == Entries(posts, Served(posts))
    IN  [results |-> [i \in 1..Len(kept) |->
                        P!PageItem(Media(kept[i]), P!AsOffset(from + i - 1))],
         next_offset |-> P!AsOffset(from + Len(kept) + 1), total_count |-> 0]

\* BooruPoolGetter::items: the files of the entries that serve one, which are items and not
\* containers.
PoolPage(posts, from) ==
    LET kept == Entries(posts, Served(posts))
    IN  [results |-> [i \in 1..Len(kept) |->
                        P!PageItem(Media(kept[i]), P!AsOffset(from + i - 1))],
         next_offset |-> P!AsOffset(from + Len(kept)), total_count |-> 0]

-----------------------------------------------------------------------------
(* A walk *)

\* What a listing declares: search() its own table, latest() nothing by default.
SearchSupport == [supported_filters |-> <<>>,
                  supported_sorts |-> [k \in {"rating"} |-> Q!SortDescriptor(FALSE, TRUE)]]
LatestSupport == <<>>
ValidateLatestFilters(sort) == Q!ValidateSort(LatestSupport, sort)

Kinds == {"search", "latest", "pool"}

Errors(kind, sort) ==
    CASE kind = "search" -> Q!ValidateQuery(SearchSupport, <<>>, sort)
      [] kind = "latest" -> ValidateLatestFilters(sort)
      [] OTHER -> {}

NoWalk == [step |-> "none", kind |-> "pool", filters |-> [from |-> 0, limit |-> 0],
           given |-> <<>>, started |-> {}, quiet |-> TRUE]

SourceInit ==
    /\ listing = <<>>
    /\ walk = NoWalk

\* The first call of a walk, whatever the source has then: refused, with no request, or
\* about to be sent.
BeginWalk(kind, limit, sort, entries) ==
    /\ walk.step = "none"
    /\ listing' = entries
    /\ walk' = [NoWalk EXCEPT !.kind = kind, !.filters = [from |-> 0, limit |-> limit],
                  !.started = {entries[i].id : i \in DOMAIN entries},
                  !.step = IF Errors(kind, sort) = {} THEN "turn" ELSE "refused"]

Page == IF walk.kind = "pool" THEN PoolPage(PostsOf(walk.filters), walk.filters.from)
        ELSE PostPage(PostsOf(walk.filters), walk.filters.from)

\* Variant: an empty page is not the end.
TurnPageOnEmpty ==
    /\ walk.step = "turn"
    /\ walk' = [walk EXCEPT !.given = @ \o Page.results,
                            !.filters.from = IF Page.results = <<>> THEN @ ELSE Page.next_offset]
    /\ UNCHANGED listing

\* search(), latest() or items() answers with what the source has now; the caller goes on
\* unless the page is empty.
TurnPage ==
    /\ walk.step = "turn"
    /\ walk' = [walk EXCEPT !.given = @ \o Page.results,
                            !.filters.from = IF Page.results = <<>> THEN @ ELSE Page.next_offset,
                            !.step = IF Page.results = <<>> THEN "done" ELSE "turn"]
    /\ UNCHANGED listing

\* A new post comes first.  (A change before the walk makes it begin with another listing,
\* one after it is of no consequence to it.)
Publish ==
    /\ walk.step = "turn"
    /\ Len(listing) < MaxPosts
    /\ listing' = <<Entry(Len(listing) + 1, "served")>> \o listing
    /\ walk' = [walk EXCEPT !.quiet = FALSE]

Withhold(i) ==
    /\ walk.step = "turn"
    /\ listing[i].state = "served"
    /\ listing' = [listing EXCEPT ![i].state = "withheld"]
    /\ walk' = [walk EXCEPT !.quiet = FALSE]

SourceNext ==
    \/ \E kind \in Kinds, limit \in {1, P!PageNoLimit},
          sort \in {Absent} \cup [key : {"rating", "title"}, ascending : BOOLEAN] :
             \E n \in 0..MaxPosts : \E states \in [1..n -> States] :
                 BeginWalk(kind, limit, sort, [i \in 1..n |-> Entry(i, states[i])])
    \/ TurnPage
    \/ Publish
    \/ \E i \in 1..Len(listing) : Withhold(i)

SourceSpec == SourceInit /\ [][SourceNext]_sourceVars

-----------------------------------------------------------------------------
(* Properties *)

Seen == {walk.given[i].item.id : i \in 1..Len(walk.given)}
\* What the walk is to give: to a pool, files; to a listing, posts.
Due(kind, entry) == Servable(entry) /\ (kind # "pool" => HasId(entry))
Whole == \A i \in 1..Len(listing) : listing[i].state = "served"

\* A walk passes over no post: one that was there when it began, is due, and lies before
\* the offset it got to was given, whatever was published or withheld since and whatever
\* page size or limit the offsets went through.
NothingIsSkipped ==
    \A i \in 1..Len(listing) :
        /\ walk.step \in {"turn", "done"}
        /\ listing[i].id \in walk.started
        /\ Due(walk.kind, listing[i])
        /\ i <= walk.filters.from
        => listing[i].id \in Seen

\* Where nothing changes and nothing is withheld, the pages of a walk make up the listing:
\* every post once, in its order and at its offset, to the end.
QuietWalksAreExact ==
    walk.step \in {"turn", "done"} /\ walk.quiet /\ Whole =>
        /\ Len(walk.given) <= Len(listing)
        /\ walk.step = "done" => Len(walk.given) = Len(listing)
        /\ \A i \in 1..Len(walk.given) :
              walk.given[i].item.id = listing[i].id /\ walk.given[i].offset = i - 1

\* Two ways to a container agree: the getter a listing made, which answers from its card,
\* and the one restored from its serialized identity, which asks the source.  If the source
\* has no such post any more, that is an error and no empty page.
CardsMatchTheSource ==
    walk.quiet /\ walk.kind # "pool" => \A i \in 1..Len(walk.given) :
        LET getter == walk.given[i].item
            restored == FromSerialized(Serialize(getter), TRUE)
            entry == CHOOSE e \in {listing[j] : j \in 1..Len(listing)} : e.id = getter.id
            answers == ContainerItems(restored, entry.state)
        IN  /\ answers.asks /\ answers.error = "none"
            /\ answers.page = ContainerItems(getter, entry.state).page
            /\ ContainerItems(restored, "broken").error = "NotFound"

\* A walk over the pages of a listing skips no post that stays servable, whatever is
\* published or withheld meanwhile; over a listing that does not change it collects
\* exactly its posts, each once and at its offset, with cards that say of each what the
\* source says when the container is restored and asks.
WalksKeepTheListing == NothingIsSkipped /\ QuietWalksAreExact /\ CardsMatchTheSource

\* A walk comes to an end.
WalksEnd == walk.step = "turn" ~> walk.step # "turn"

\* Not so for a pool: a page all of whose posts are withheld is empty.
EmptyMeansExhausted ==
    walk.step = "done" =>
        {listing[i].id : i \in {j \in 1..Len(listing) : Due(walk.kind, listing[j])}}
          \cap walk.started \subseteq Seen

=============================================================================
