----------------------------- MODULE Pagination -----------------------------
(***************************************************************************)
(* Pages of a listing, and how a window of items becomes a request.        *)
(* Offsets and limits are machine words of PageBits bits: an offset is     *)
(* signed, a limit is not.  Offsets begin at 0.  A sum that leaves the     *)
(* offsets is undefined in the program: here it goes round, as machine     *)
(* arithmetic does.                                                        *)
(***************************************************************************)
EXTENDS Integers, Sequences

CONSTANT PageBits

PageNoLimit == 2^PageBits - 1
Limits == 0..PageNoLimit

\* The word n as an offset: what a cast of a limit does, and what a sum of two offsets is.
AsOffset(n) == IF n < 2^(PageBits - 1) THEN n ELSE n - 2^PageBits

PageItem(item, offset) == [item |-> item, offset |-> offset]

\* PageResults<T>{}
NoResults == [results |-> <<>>, next_offset |-> 0, total_count |-> 0]

\* Variant: the offset of the next item is taken before this one is added.
AppendItemEarly(page, from, item) ==
    LET size == Len(page.results)
    IN  [page EXCEPT !.results = Append(@, PageItem(item, AsOffset(from + size))),
                     !.next_offset = AsOffset(from + size)]

\* PageResults::append
AppendItem(page, from, item) ==
    LET size == Len(page.results)
    IN  [page EXCEPT !.results = Append(@, PageItem(item, AsOffset(from + size))),
                     !.next_offset = AsOffset(from + size + 1)]

\* OffsetPaging: from, want and stride, in items.
OffsetPaging(from, want, stride) == [from |-> from, want |-> want, stride |-> stride]

PageOf(paging, base) ==
    IF paging.stride > 0 THEN AsOffset(paging.from \div paging.stride + base) ELSE base

\* Variant: what is left to the end of the page, not what comes before.
SkipOfFromEnd(paging) ==
    IF paging.stride > 0 THEN (-paging.from) % paging.stride ELSE 0

SkipOf(paging) ==
    IF paging.stride > 0 THEN paging.from % paging.stride ELSE 0

\* Variant: no limit is a limit like any other.
ClampLimitAsIs(limit, cap, fallback) ==
    IF AsOffset(limit) < cap THEN AsOffset(limit) ELSE cap

\* limit: GetFilters::limit.
ClampLimit(limit, cap, fallback) ==
    LET want == IF limit = PageNoLimit THEN fallback ELSE AsOffset(limit)
    IN  IF want < cap THEN want ELSE cap

-----------------------------------------------------------------------------
(* What the conversions promise *)

Offsets == 0..(2^(PageBits - 1) - 1)

\* The page and the items to skip lead to the item asked for, on that page; with no page
\* size there is one page.  Of all windows one has no page: the last offset, with pages of
\* one item that are counted from 1.
WindowIsExact(paging, base) ==
    LET page == PageOf(paging, base)
        skip == SkipOf(paging)
    IN  IF paging.stride = 1 /\ base = 1 /\ paging.from = 2^(PageBits - 1) - 1
        THEN page = -2^(PageBits - 1)
        ELSE /\ page \in Offsets /\ page >= base
             /\ paging.stride > 0 => skip \in 0..(paging.stride - 1)
             /\ paging.stride > 0 => (page - base) * paging.stride + skip = paging.from
             /\ paging.stride = 0 => page = base /\ skip = 0

\* An endpoint is asked for what it can give: no more than it accepts or the caller wants,
\* and something if the caller wants something.  A limit that is no offset turns negative,
\* and nothing holds it back from the endpoint.
LimitIsHonoured(limit, cap, fallback) ==
    LET want == ClampLimit(limit, cap, fallback)
    IN  /\ want <= cap
        /\ want = 0 => limit = 0
        /\ limit # PageNoLimit => want <= limit
        /\ IF limit < 2^(PageBits - 1) \/ limit = PageNoLimit
           THEN want >= 0 ELSE want = limit - 2^PageBits /\ want < 0

=============================================================================
