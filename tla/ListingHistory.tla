--------------------------- MODULE ListingHistory ---------------------------
(***************************************************************************)
(* Listing, and a client that walks through the pages: page 1, 2, ... with *)
(* one limit and one filter, until a page is short.                        *)
(***************************************************************************)
EXTENDS Listing

VARIABLES
  walk,    \* how far the client is, with what it saw and what changed
  moved    \* the matching accounts changed since the last count

hvars == <<vars, walk, moved>>

NoWalk == [page |-> 0, limit |-> 0, filter |-> Absent, ended |-> FALSE,
           times |-> [i \in Ids |-> 0], came |-> {}, went |-> {}]

HInit == Init /\ walk = NoWalk /\ moved = FALSE

\* Accounts that begin or cease to match, in this step, the filter of before it.
Coming(filter) == UNION {Matching(f)' \ Matching(f) : f \in {filter}}
Going(filter)  == UNION {Matching(f) \ Matching(f)' : f \in {filter}}

Begins == req'.at.page = 1

Follows ==
  /\ ~ walk.ended
  /\ req'.at.page = walk.page + 1
  /\ req'.at.limit = walk.limit
  /\ req'.filter = walk.filter

\* The client sees a page: the first, the next, or another, which it ignores.
Walk(seen) ==
  [page |-> req'.at.page, limit |-> req'.at.limit, filter |-> req'.filter,
   ended |-> Cardinality(req'.users) < req'.at.limit,
   times |-> [i \in Ids |-> seen[i] + IF i \in req'.users THEN 1 ELSE 0],
   came |-> IF Begins THEN {} ELSE walk.came,
   went |-> IF Begins THEN {} ELSE walk.went]

HNext ==
  /\ Next
  /\ walk' =
       IF Find
       THEN IF Begins THEN Walk(NoWalk.times)
            ELSE IF Follows THEN Walk(walk.times) ELSE walk
       ELSE IF walk.page = 0 THEN walk
            ELSE [walk EXCEPT !.came = @ \cup Coming(walk.filter),
                              !.went = @ \cup Going(walk.filter)]
  /\ moved' = IF Count THEN FALSE
              ELSE moved \/ (req.pc = "find" /\ Coming(req.filter) \cup Going(req.filter) # {})

HSpec == HInit /\ [][HNext]_hvars

-----------------------------------------------------------------------------
\* An account that is there from the first page to the last is missed only if
\* an account before it went meanwhile: the pages are counted from the first
\* account each time.
OnlyDeparturesHide ==
  walk.ended =>
    \A i \in Ids : walk.times[i] = 0 =>
      \/ i \notin Matching(walk.filter)
      \/ i \in walk.came \cup walk.went
      \/ \E j \in walk.went : Before(j, i)

\* An account is shown twice only if another came before it meanwhile: it was
\* inserted later than its created_at says, or its status was changed.
OnlyLateArrivalsRepeat ==
  \A i \in Ids : walk.times[i] > 1 => \E j \in walk.came : Before(j, i)

\* total is what the pages add up to, unless accounts came or went between the
\* two calls, or the client asked for a page so far that the count of the
\* accounts before it wraps: a page in the middle is full, the last has the rest,
\* those beyond are empty.
PagesAddUpToTotal ==
  req.pc = "page" /\ ~ moved =>
    LET before == (req.at.page - 1) * req.at.limit
    IN  \/ before >= 2^Word
        \/ Cardinality(req.users) = Max({0, Min({req.at.limit, req.total - before})})
=============================================================================
