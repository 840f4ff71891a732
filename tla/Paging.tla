-------------------------------- MODULE Paging --------------------------------
(***************************************************************************)
(* The pages of a list and the links between them (controller/paging.go).  *)
(* A client asks for a page and follows its links, while rows are added at *)
(* the end of the list or removed.                                         *)
(***************************************************************************)
EXTENDS Integers, FiniteSetsExt

CONSTANTS
    PageSizeDefault,
    PageSizeMax,
    MaxRows,            \* bound: rows of the list
    Offsets, Limits     \* what clients ask for; a limit of NoLimit is not given

NoLimit == -100
NoLink == [offset |-> -1, limit |-> -1]

ASSUME PagingAssumption ==
    /\ PageSizeDefault \in 1..PageSizeMax /\ PageSizeMax \in Nat /\ MaxRows \in Nat
    /\ Offsets \subseteq Int /\ Limits \subseteq Int

VARIABLES
    rowCount,       \* rows of the list
    page,           \* [offset, limit] of the page that is shown, NoLink at first
    total,          \* the total its links were made for
    walked          \* rows seen by following next since the list changed, {} if none

pagingVars == <<rowCount, page, total, walked>>

PagingInit == rowCount = 0 /\ page = NoLink /\ total = 0 /\ walked = {}

\* computePagingLimits
ComputePagingLimits(offset, limit) ==
    [offset |-> Max({offset, 0}),
     limit  |-> IF limit = NoLimit \/ limit <= 0 THEN PageSizeDefault ELSE Min({limit, PageSizeMax})]

\* Rows of a page of a list of n rows.
RowsOn(p, n) == {i \in p.offset..(p.offset + p.limit - 1) : i < n}

\* A page that would start before the first row is cut.
Cut(start, limit) == IF start < 0 THEN [offset |-> 0, limit |-> limit + start] ELSE [offset |-> start, limit |-> limit]

\* The four links of setPagingLinks, of page p of n rows.
PrevLink(p, n) ==
    IF p.offset = 0 \/ n = 0 THEN NoLink
    ELSE Cut(IF p.offset <= n THEN p.offset - p.limit
             ELSE p.offset - ((p.offset - n) \div p.limit + 1) * p.limit, p.limit)

\* Mutant of NextLink: a row between two pages is skipped.
NextLinkSkip(p, n) ==
    LET start == p.offset + p.limit + 1
    IN  IF start < n THEN [offset |-> start, limit |-> p.limit] ELSE NoLink

NextLink(p, n) ==
    LET start == p.offset + Cardinality(RowsOn(p, n))
    IN  IF start < n THEN [offset |-> start, limit |-> p.limit] ELSE NoLink

FirstLink(p) == [offset |-> 0, limit |-> IF p.offset > 0 THEN p.offset % p.limit ELSE p.limit]

LastLink(p, n) ==
    Cut(IF p.offset < n THEN p.offset + ((n - p.offset - 1) \div p.limit) * p.limit
        ELSE p.offset - ((p.offset - n) \div p.limit + 1) * p.limit, p.limit)

\* A page is shown; seen are the rows that a walk has seen before it.
Show(offset, limit, seen) ==
    LET p == ComputePagingLimits(offset, limit)
    IN  /\ page' = p /\ total' = rowCount
        /\ walked' = seen \cup RowsOn(p, rowCount)
        /\ UNCHANGED rowCount

AskFor(offset, limit) == Show(offset, limit, {})

FollowNext ==
    /\ page # NoLink /\ NextLink(page, total) # NoLink
    /\ Show(NextLink(page, total).offset, NextLink(page, total).limit, walked)

FollowLink ==
    /\ page # NoLink
    /\ \E link \in {PrevLink(page, total), FirstLink(page), LastLink(page, total)} \ {NoLink} :
        Show(link.offset, link.limit, {})

\* Rows are added or removed.  A walk that has begun does not count any more.
RowsChange(n) == rowCount' = n /\ walked' = {} /\ UNCHANGED <<page, total>>

PagingNext ==
    \/ \E offset \in Offsets, limit \in Limits : AskFor(offset, limit)
    \/ FollowNext
    \/ FollowLink
    \/ \E n \in {rowCount - 1, rowCount + 1} \cap 0..MaxRows : RowsChange(n)

PagingSpec == PagingInit /\ [][PagingNext]_pagingVars

-------------------------------------------------------------------------------

\* The links lead where they say: the previous page ends where this one begins, or shows
\* the last rows if this one begins past the end, and the last page shows the last row and has
\* no next one.  (The first link of a page that begins at a multiple of its limit has the
\* limit 0, which is answered with a page of the default size.)
LinksLeadToTheirRows ==
    page # NoLink =>
        LET prev == PrevLink(page, total)
            end == LastLink(page, total)
        IN  /\ prev # NoLink =>
                    /\ prev.limit \in 1..page.limit
                    /\ IF page.offset <= total THEN prev.offset + prev.limit = page.offset
                       ELSE total - 1 \in RowsOn(prev, total)
            /\ total > 0 => total - 1 \in RowsOn(end, total) /\ NextLink(end, total) = NoLink

\* Following next always gets further, whatever limit was asked for: a page is never empty
\* while rows are left.
NextGetsFurther == [][FollowNext => page'.offset > page.offset]_pagingVars

\* Who follows next until there is no such link has seen every row of the list from where
\* the walk began, if the list did not change meanwhile.
WalksSeeAll ==
    page # NoLink /\ total = rowCount /\ walked # {} /\ NextLink(page, total) = NoLink =>
        walked = Min(walked)..(total - 1)

\* The links of a page lead to the rows they name, and following them shows every row and
\* comes to an end.
PagesAreConnected == [](LinksLeadToTheirRows /\ WalksSeeAll) /\ NextGetsFurther
===============================================================================
