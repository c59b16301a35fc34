------------------------------- MODULE Paging -------------------------------
(***************************************************************************)
(* Paging of the discovery listings.  One spec's listing is paged by SQL   *)
(* (limitClause), a sweep over every spec by slicing (pageWindow); either  *)
(* way pageWindow says what the answer's offset is and whether more        *)
(* follows, and the client asks on from offset + showing.                  *)
(***************************************************************************)
EXTENDS Integers, Sequences

CONSTANT DefaultLimit   \* config.DefaultLimit

ASSUME PagingAssumption == DefaultLimit \in Nat

VARIABLES
  listing,   \* what matches, in order
  limit,     \* the client's limit argument
  offset,    \* the client's next offset argument
  first,     \* the one it started from
  got,       \* what it has been given
  more,      \* does it ask on?
  changed    \* was the index changed since it started?

pageVars == <<listing, limit, offset, first, got, more, changed>>

\* getLimit: 0 is everything; a negative limit is as good as none.
GetLimit(arg) == IF arg >= 0 THEN arg ELSE DefaultLimit
GetOffset(arg) == IF arg > 0 THEN arg ELSE 0

Least(a, b) == IF a <= b THEN a ELSE b

PageStart(total, off) == Least(GetOffset(off), total)

Truncated(total, lim, off) ==
  GetLimit(lim) > 0 /\ total - PageStart(total, off) > GetLimit(lim)

PageEnd(total, lim, off) ==
  IF Truncated(total, lim, off) THEN PageStart(total, off) + GetLimit(lim) ELSE total

\* A sweep's page, a slice of all its rows.
SlicedPage(rows, lim, off) ==
  SubSeq(rows, PageStart(Len(rows), off) + 1, PageEnd(Len(rows), lim, off))

\* Mutant: OFFSET is left out when every row is asked for.
SqlPage_NoOffset(rows, lim, off) ==
  LET skip == IF GetLimit(lim) <= 0 THEN 0 ELSE GetOffset(off)
      take == IF GetLimit(lim) <= 0 THEN Len(rows) ELSE GetLimit(lim) IN
  SubSeq(rows, skip + 1, Least(skip + take, Len(rows)))

\* LIMIT and OFFSET; LIMIT -1 stands for every row after the offset.
SqlPage(rows, lim, off) ==
  LET skip == GetOffset(off)
      take == IF GetLimit(lim) <= 0 THEN Len(rows) ELSE GetLimit(lim) IN
  SubSeq(rows, skip + 1, Least(skip + take, Len(rows)))

\* The client asks for a listing, from an offset.
StartPaging(rows, lim, off) ==
  /\ listing' = rows
  /\ limit' = lim
  /\ offset' = off
  /\ first' = off
  /\ got' = << >>
  /\ more' = TRUE
  /\ changed' = FALSE

\* One call: the page, offset and truncated of its answer, and on from there.
FetchPage(sweep) ==
  /\ more
  /\ LET page == IF sweep THEN SlicedPage(listing, limit, offset)
                          ELSE SqlPage(listing, limit, offset) IN
     /\ got' = got \o page
     /\ offset' = PageStart(Len(listing), offset) + Len(page)
     /\ more' = Truncated(Len(listing), limit, offset)
  /\ UNCHANGED <<listing, limit, first, changed>>

\* The spec is indexed again between two calls.
Reindexed(rows) ==
  /\ more
  /\ listing' = rows
  /\ changed' = (changed \/ rows # listing)
  /\ UNCHANGED <<limit, offset, first, got, more>>

-----------------------------------------------------------------------------
(* Properties *)

PagesFrom == PageStart(Len(listing), first)

\* Offset plus showing is a sound place to ask on from: however the listing is
\* paged, the pages given so far are the listing from the first offset up to
\* the next one, nothing skipped and nothing twice, and when no more is
\* announced they reach its end (tools.go:362-374, query.go:401-411).
PagesAreTheListing ==
  ~changed =>
    LET next == PageStart(Len(listing), offset) IN
    /\ got = SubSeq(listing, PagesFrom + 1, next)
    /\ ~more => next = Len(listing)
=============================================================================
