---------------------------- MODULE ListingProofs ----------------------------
(***************************************************************************)
(* Theorems about Listing, for any number of accounts, statuses, limits    *)
(* and widths of the integers.                                             *)
(***************************************************************************)
EXTENDS ListingHistory, FiniteSetTheorems, TLAPS

-----------------------------------------------------------------------------
(* Arithmetic.                                                             *)

LEMMA WordType == 2^Word \in Nat \ {0}
<1> DEFINE bits == 1..Word
<1>1. IsFiniteSet(bits) /\ Cardinality(bits) = Word
  BY FS_Interval, ListingConstants
<1>2. IsFiniteSet(SUBSET bits) /\ Cardinality(SUBSET bits) = 2^Word
  BY <1>1, FS_SUBSET
<1>3. Cardinality(SUBSET bits) \in Nat
  BY <1>2, FS_CardinalityType
<1>4. Cardinality(SUBSET bits) # 0
  <2>1. {} \in SUBSET bits
    OBVIOUS
  <2> HIDE DEF bits
  <2> QED BY <1>2, <2>1, FS_EmptySet
<1> QED BY <1>2, <1>3, <1>4

LEMMA MaxOfTwo ==
  ASSUME NEW m \in Int, NEW n \in Int
  PROVE  Max({m, n}) = IF m >= n THEN m ELSE n
<1>1. \E x \in {m, n} : \A y \in {m, n} : x >= y
  OBVIOUS
<1>2. Max({m, n}) \in {m, n} /\ \A y \in {m, n} : Max({m, n}) >= y
  BY <1>1 DEF Max
<1> QED BY <1>2

LEMMA MinOfTwo ==
  ASSUME NEW m \in Int, NEW n \in Int
  PROVE  Min({m, n}) = IF m <= n THEN m ELSE n
<1>1. \E x \in {m, n} : \A y \in {m, n} : x =< y
  OBVIOUS
<1>2. Min({m, n}) \in {m, n} /\ \A y \in {m, n} : Min({m, n}) =< y
  BY <1>1 DEF Min
<1> QED BY <1>2

LEMMA SkipUnwrapped ==
  ASSUME NEW page \in Nat \ {0}, NEW limit \in Nat
  PROVE  /\ Skip(page, limit) \in Nat
         /\ (page - 1) * limit \in Nat
         /\ page * limit = (page - 1) * limit + limit
         /\ (page - 1) * limit < 2^Word => Skip(page, limit) = (page - 1) * limit
<1> DEFINE w == 2^Word
           n == (page - 1) * limit
<1>1. w \in Nat \ {0}
  BY WordType
<1>2. n \in Nat /\ page * limit = n + limit
  OBVIOUS
<1>3. Skip(page, limit) = n % w
  BY DEF Skip
<1> HIDE DEF w, n
<1>4. n % w \in Nat /\ (n < w => n % w = n)
  BY <1>1, <1>2
<1> QED BY <1>2, <1>3, <1>4 DEF w, n

-----------------------------------------------------------------------------
(* Ranks.  The order of creation is total, so that the ranks of a set of n *)
(* accounts are 0 to n - 1, each once.                                     *)

Dated == created \in [Ids -> Int]

Earlier(i, S) == {j \in S : Before(j, i)}

LEMMA BeforeOrders ==
  ASSUME Dated
  PROVE  /\ \A i \in Ids : ~ Before(i, i)
         /\ \A i, j, k \in Ids : Before(i, j) /\ Before(j, k) => Before(i, k)
         /\ \A i, j \in Ids : Before(i, j) \/ Before(j, i) \/ i = j
  BY ListingConstants DEF Dated, Before

LEMMA RankOfSubset ==
  ASSUME NEW S \in SUBSET Ids, NEW T \in SUBSET Ids, NEW i \in Ids,
         Earlier(i, S) \subseteq T
  PROVE  Rank(i, S) \in Nat /\ Rank(i, S) <= Rank(i, T)
<1>1. IsFiniteSet(Earlier(i, S)) /\ IsFiniteSet(Earlier(i, T))
  BY ListingConstants, FS_Subset DEF Earlier
<1>2. Earlier(i, S) \subseteq Earlier(i, T)
  BY DEF Earlier
<1>3. Cardinality(Earlier(i, S)) <= Cardinality(Earlier(i, T))
  BY <1>1, <1>2, FS_Subset
<1>4. Cardinality(Earlier(i, S)) \in Nat
  BY <1>1, FS_CardinalityType
<1> QED BY <1>3, <1>4 DEF Rank, Earlier

LEMMA RankBounds ==
  ASSUME Dated, NEW S \in SUBSET Ids
  PROVE  /\ Cardinality(S) \in Nat
         /\ \A i \in S : Rank(i, S) \in 0..(Cardinality(S) - 1)
<1>1. IsFiniteSet(S) /\ Cardinality(S) \in Nat
  BY ListingConstants, FS_Subset, FS_CardinalityType
<1>2. ASSUME NEW i \in S PROVE Rank(i, S) \in 0..(Cardinality(S) - 1)
  <2>1. Earlier(i, S) \subseteq S \ {i}
    BY BeforeOrders DEF Earlier
  <2>2. IsFiniteSet(S \ {i}) /\ Cardinality(S \ {i}) = Cardinality(S) - 1
    BY <1>1, FS_RemoveElement
  <2>3. /\ IsFiniteSet(Earlier(i, S)) /\ Cardinality(Earlier(i, S)) \in Nat
        /\ Cardinality(Earlier(i, S)) <= Cardinality(S) - 1
    BY <2>1, <2>2, FS_Subset, FS_CardinalityType
  <2> QED BY <1>1, <2>3 DEF Rank, Earlier
<1> QED BY <1>1, <1>2

LEMMA RankGrows ==
  ASSUME Dated, NEW S \in SUBSET Ids, NEW i \in S, NEW j \in S, Before(j, i)
  PROVE  Rank(j, S) < Rank(i, S)
<1>1. IsFiniteSet(Earlier(i, S)) /\ IsFiniteSet(Earlier(j, S))
  BY ListingConstants, FS_Subset DEF Earlier
<1>2. Earlier(j, S) \cup {j} \subseteq Earlier(i, S) /\ j \notin Earlier(j, S)
  BY BeforeOrders DEF Earlier
<1>3. /\ IsFiniteSet(Earlier(j, S) \cup {j})
      /\ Cardinality(Earlier(j, S) \cup {j}) = Cardinality(Earlier(j, S)) + 1
  BY <1>1, <1>2, FS_AddElement
<1>4. Cardinality(Earlier(j, S) \cup {j}) <= Cardinality(Earlier(i, S))
  BY <1>1, <1>2, FS_Subset
<1>5. Cardinality(Earlier(j, S)) \in Nat /\ Cardinality(Earlier(i, S)) \in Nat
  BY <1>1, FS_CardinalityType
<1> QED BY <1>3, <1>4, <1>5 DEF Rank, Earlier

Ranks(S) == [i \in S |-> Rank(i, S)]

LEMMA RanksFill ==
  ASSUME Dated, NEW S \in SUBSET Ids
  PROVE  Ranks(S) \in Bijection(S, 0..(Cardinality(S) - 1))
<1> DEFINE n == Cardinality(S)
           T == 0..(n - 1)
<1>1. n \in Nat /\ \A i \in S : Rank(i, S) \in T
  BY RankBounds
<1>2. IsFiniteSet(T) /\ Cardinality(T) = n
  BY <1>1, FS_Interval
<1>3. \A i, j \in S : Rank(i, S) = Rank(j, S) => i = j
  <2>1. ASSUME NEW i \in S, NEW j \in S, i # j PROVE Rank(i, S) # Rank(j, S)
    <3>1. Before(i, j) \/ Before(j, i)
      BY <2>1, BeforeOrders
    <3>2. Rank(i, S) \in Int /\ Rank(j, S) \in Int
      BY <1>1
    <3>3. Rank(i, S) < Rank(j, S) \/ Rank(j, S) < Rank(i, S)
      BY <3>1, RankGrows
    <3> QED BY <3>2, <3>3
  <2> QED BY <2>1
<1>4. Ranks(S) \in Injection(S, T)
  BY <1>1, <1>3 DEF Ranks, Injection, IsInjective
<1>5. Ranks(S) \in Surjection(S, T)
  BY <1>2, <1>4, FS_Injection
<1> QED BY <1>4, <1>5 DEF Bijection

\* A page has the accounts whose ranks it covers: as many as there are.
LEMMA PageSize ==
  ASSUME Dated, NEW S \in SUBSET Ids, NEW skip \in Nat, NEW limit \in Nat \ {0}
  PROVE  Cardinality(Page(S, skip, limit)) =
           IF Cardinality(S) <= skip THEN 0
           ELSE IF Cardinality(S) <= skip + limit THEN Cardinality(S) - skip ELSE limit
<1> DEFINE n == Cardinality(S)
           top == IF n <= skip + limit THEN n ELSE skip + limit
           P == Page(S, skip, limit)
           T == skip..(top - 1)
           f == [i \in P |-> Rank(i, S)]
<1>1. n \in Nat
  BY RankBounds
<1>2. Ranks(S) \in Bijection(S, 0..(n - 1))
  BY RanksFill
<1>3. /\ \A i \in S : Rank(i, S) \in 0..(n - 1)
      /\ \A i, j \in S : Rank(i, S) = Rank(j, S) => i = j
      /\ \A m \in 0..(n - 1) : \E i \in S : Rank(i, S) = m
  BY <1>2 DEF Ranks, Bijection, Injection, IsInjective, Surjection
<1>4. P = {i \in S : Rank(i, S) \in T}
  BY <1>1, <1>3 DEF Page
<1>5. f \in Bijection(P, T)
  <2>1. f \in Injection(P, T)
    BY <1>3, <1>4 DEF Injection, IsInjective
  <2>2. \A m \in T : \E i \in P : Rank(i, S) = m
    BY <1>1, <1>3, <1>4
  <2>3. f \in Surjection(P, T)
    BY <2>1, <2>2 DEF Injection, Surjection
  <2> QED BY <2>1, <2>3 DEF Bijection
<1>6. IsFiniteSet(P)
  BY ListingConstants, FS_Subset DEF Page
<1>7. Cardinality(T) = Cardinality(P)
  BY <1>5, <1>6, FS_Bijection DEF ExistsBijection
<1>8. Cardinality(T) = IF skip > top - 1 THEN 0 ELSE (top - 1) - skip + 1
  <2> DEFINE last == top - 1
  <2>1. skip \in Int /\ last \in Int
    BY <1>1
  <2> HIDE DEF last
  <2>2. Cardinality(skip..last) = IF skip > last THEN 0 ELSE last - skip + 1
    BY <2>1, FS_Interval
  <2> QED BY <2>2 DEF last
<1>9. n <= skip => Cardinality(T) = 0
  BY <1>1, <1>8
<1>10. n > skip => Cardinality(T) = IF n <= skip + limit THEN n - skip ELSE limit
  BY <1>1, <1>8
<1> HIDE DEF P
<1> QED BY <1>1, <1>7, <1>9, <1>10 DEF P

\* What page k of limit L shows of the accounts M, and when it is short.
LEMMA PageSeen ==
  ASSUME Dated, NEW M \in SUBSET Ids, NEW k \in Nat \ {0}, NEW L \in Nat \ {0},
         (k - 1) * L < 2^Word
  PROVE  LET users == Page(M, Skip(k, L), L)
         IN  /\ users \subseteq M
             /\ \A i \in users : (k - 1) * L <= Rank(i, M) /\ Rank(i, M) < k * L
             /\ \A i \in M \ users : Rank(i, M) < (k - 1) * L \/ k * L <= Rank(i, M)
             /\ Cardinality(users) < L => \A i \in M : Rank(i, M) < k * L
             /\ ~ (Cardinality(users) < L) => k * L <= Cardinality(Ids)
<1> DEFINE skip == Skip(k, L)
           users == Page(M, skip, L)
           n == Cardinality(M)
           low == (k - 1) * L
           high == k * L
<1>1. skip = low /\ low \in Nat /\ high = low + L
  BY SkipUnwrapped
<1>2. n \in Nat /\ \A i \in M : Rank(i, M) \in 0..(n - 1)
  BY RankBounds
<1>3. n <= Cardinality(Ids) /\ Cardinality(Ids) \in Nat
  BY ListingConstants, FS_Subset, FS_CardinalityType
<1>4. Cardinality(users) = IF n <= low THEN 0 ELSE IF n <= low + L THEN n - low ELSE L
  BY <1>1, PageSize
<1>5. users = {i \in M : low <= Rank(i, M) /\ Rank(i, M) < low + L}
  BY <1>1, <1>2 DEF Page
<1> HIDE DEF skip, users, n, low, high
<1>6. /\ users \subseteq M
      /\ \A i \in users : low <= Rank(i, M) /\ Rank(i, M) < high
  BY <1>1, <1>5
<1>7. \A i \in M \ users : Rank(i, M) < low \/ high <= Rank(i, M)
  BY <1>1, <1>2, <1>5
<1>8. Cardinality(users) < L => n <= high
  BY <1>1, <1>2, <1>4
<1>9. ~ (Cardinality(users) < L) => high <= n
  BY <1>1, <1>2, <1>4
<1>10. Cardinality(users) < L => \A i \in M : Rank(i, M) < high
  BY <1>1, <1>2, <1>8
<1>11. ~ (Cardinality(users) < L) => high <= Cardinality(Ids)
  BY <1>1, <1>2, <1>3, <1>9
<1> QED
  BY <1>6, <1>7, <1>10, <1>11 DEF skip, users, low, high

-----------------------------------------------------------------------------
(* Types.                                                                  *)

Asked(at) ==
  /\ at.page \in Nat \ {0} /\ at.limit \in Nat \ {0}
  /\ at.skip = Skip(at.page, at.limit)

ListingOK ==
  /\ now \in Nat /\ Dated
  /\ stored \subseteq Ids /\ \A i \in stored : created[i] # -1
  /\ req.pc # "idle" => Asked(req.at) /\ req.filter \in Filters

\* created_at is written once.
DatesKept == \A i \in Ids : created[i] # -1 => created'[i] = created[i]

LEMMA PaginateAsked ==
  ASSUME NEW p \in Pages \cup {Absent}, NEW l \in Limits \cup {Absent}
  PROVE  Asked(Paginate(p, l))
<1>1. PageOf(p) \in Nat \ {0}
  BY ListingConstants, WordType, MaxOfTwo DEF PageOf
<1>2. LimitOf(l) \in Nat \ {0}
  <2>1. CASE l = Absent
    BY <2>1, ListingConstants DEF LimitOf
  <2>2. CASE l # Absent
    <3>1. l \in Int /\ MaxLimit \in Int
      BY <2>2, ListingConstants
    <3>2. Min({l, MaxLimit}) \in Int
      BY <3>1, MinOfTwo
    <3>3. Max({Min({l, MaxLimit}), 1}) \in Nat \ {0}
      BY <3>2, MaxOfTwo
    <3> QED BY <2>2, <3>3 DEF LimitOf
  <2> QED BY <2>1, <2>2
<1> QED BY <1>1, <1>2 DEF Paginate, Asked

LEMMA ListingStep ==
  ASSUME ListingOK, [Next]_vars PROVE ListingOK' /\ DatesKept
<1> USE DEF ListingOK, Dated, DatesKept
<1>1. CASE Tick
  BY <1>1 DEF Tick
<1>2. ASSUME NEW i \in Ids, NewUser(i) PROVE ListingOK' /\ DatesKept
  BY <1>2 DEF NewUser
<1>3. ASSUME NEW i \in Ids, Insert(i) PROVE ListingOK' /\ DatesKept
  BY <1>3 DEF Insert
<1>4. ASSUME NEW i \in Ids, NEW s \in Statuses, UpdateStatus(i, s)
      PROVE  ListingOK' /\ DatesKept
  BY <1>4 DEF UpdateStatus
<1>5. ASSUME NEW i \in Ids, DeleteUser(i) PROVE ListingOK' /\ DatesKept
  BY <1>5 DEF DeleteUser
<1>6. ASSUME NEW p \in Pages \cup {Absent}, NEW l \in Limits \cup {Absent},
             NEW f \in Filters, ListUsers(p, l, f)
      PROVE  ListingOK' /\ DatesKept
  BY <1>6, PaginateAsked DEF ListUsers
<1>7. CASE Count
  BY <1>7 DEF Count
<1>8. CASE Find
  BY <1>8 DEF Find
<1>9. CASE Fail \/ Answer
  BY <1>9 DEF Fail, Answer, Idle
<1>10. CASE UNCHANGED vars
  BY <1>10 DEF vars
<1> QED
  BY <1>1, <1>2, <1>3, <1>4, <1>5, <1>6, <1>7, <1>8, <1>9, <1>10 DEF Next

LEMMA Changes ==
  ASSUME NEW f
  PROVE  /\ Matching(f)' \subseteq Matching(f) \cup Coming(f)
         /\ Matching(f) \subseteq Matching(f)' \cup Going(f)
         /\ Coming(f) \subseteq Matching(f)' /\ Going(f) \subseteq Matching(f)
  BY DEF Coming, Going

-----------------------------------------------------------------------------
(* The total.                                                              *)

\* The count is that of the accounts that match, as long as none came or went.
TotalKept ==
  req.pc = "find" /\ ~ moved => req.total = Cardinality(Matching(req.filter))

LEMMA TotalNext ==
  ASSUME ListingOK, TotalKept, PagesAddUpToTotal, [HNext]_hvars
  PROVE  TotalKept' /\ PagesAddUpToTotal'
<1>1. CASE HNext /\ Count
  BY <1>1 DEF Count, Matching, TotalKept, PagesAddUpToTotal
<1>2. CASE HNext /\ Find
  <2> DEFINE M == Matching(req.filter)
             k == req.at.page
             L == req.at.limit
             n == Cardinality(M)
             before == (k - 1) * L
  <2>1. /\ req.pc = "find" /\ Asked(req.at)
        /\ req' = [pc |-> "page", at |-> req.at, filter |-> req.filter, total |-> req.total,
                   users |-> Page(M, req.at.skip, L)]
        /\ UNCHANGED created
    BY <1>2 DEF Find, ListingOK
  <2>2. ~ moved' => req.total = n
    BY <1>2, <2>1 DEF HNext, Count, TotalKept
  <2>3. k \in Nat \ {0} /\ L \in Nat \ {0} /\ req.at.skip = Skip(k, L)
    BY <2>1 DEF Asked
  <2>4. M \in SUBSET Ids /\ Dated
    BY DEF ListingOK, Matching
  <2>5. before \in Nat /\ (before < 2^Word => req.at.skip = before)
    BY <2>3, SkipUnwrapped
  <2>6. n \in Nat
    BY <2>4, RankBounds
  <2>7. before < 2^Word =>
          Cardinality(req'.users) = IF n <= before THEN 0
                                    ELSE IF n <= before + L THEN n - before ELSE L
    BY <2>1, <2>3, <2>4, <2>5, PageSize
  <2>8. Max({0, Min({L, n - before})}) = IF n <= before THEN 0
                                    ELSE IF n <= before + L THEN n - before ELSE L
    <3> HIDE DEF before, n, L
    <3>1. L \in Int /\ n - before \in Int
      BY <2>3, <2>5, <2>6
    <3>2. Min({L, n - before}) = IF L <= n - before THEN L ELSE n - before
      BY <3>1, MinOfTwo
    <3> DEFINE least == Min({L, n - before})
    <3>3. least \in Int
      BY <3>1, <3>2
    <3> HIDE DEF least
    <3>4. Max({0, least}) = IF 0 >= least THEN 0 ELSE least
      BY <3>3, MaxOfTwo
    <3> QED BY <2>3, <2>5, <2>6, <3>2, <3>4 DEF least
  <2>9. ~ moved' =>
          \/ before >= 2^Word
          \/ Cardinality(req'.users) = Max({0, Min({L, n - before})})
    BY <2>5, <2>7, <2>8, WordType
  <2>10. PagesAddUpToTotal'
    BY <2>1, <2>2, <2>9 DEF PagesAddUpToTotal
  <2> QED BY <2>1, <2>10 DEF TotalKept
<1>3. CASE HNext /\ ~ Count /\ ~ Find
  <2>1. \/ UNCHANGED req
        \/ req'.pc \notin {"find", "page"}
    BY <1>3 DEF HNext, Next, Tick, NewUser, Insert, UpdateStatus, DeleteUser, ListUsers,
                Fail, Answer, Idle
  <2>2. ~ moved' => ~ moved
    BY <1>3 DEF HNext
  <2>3. ASSUME UNCHANGED req, req.pc = "find", ~ moved'
        PROVE  Matching(req.filter)' = Matching(req.filter)
    <3> SUFFICES ASSUME NEW f, f = req.filter
                 PROVE  Matching(f)' = Matching(f)
      BY <2>3 DEF Matching
    <3>1. Coming(f) = {} /\ Going(f) = {}
      BY <1>3, <2>3 DEF HNext
    <3> QED BY <3>1, Changes
  <2> QED BY <2>1, <2>2, <2>3 DEF TotalKept, PagesAddUpToTotal
<1>4. CASE UNCHANGED hvars
  BY <1>4 DEF hvars, vars, TotalKept, PagesAddUpToTotal, Matching
<1> QED BY <1>1, <1>2, <1>3, <1>4

LEMMA ListingInit == Init => ListingOK
  BY DEF Init, Idle, ListingOK, Dated

\* Whatever page and limit are asked for, an answer shows as many accounts as
\* its total says that page has, unless accounts came or went between the two
\* calls or the number to skip wrapped around.
THEOREM PagesAddUp == HSpec => []PagesAddUpToTotal
<1>1. HInit => ListingOK /\ TotalKept /\ PagesAddUpToTotal
  BY ListingInit DEF HInit, Init, Idle, TotalKept, PagesAddUpToTotal
<1>2. ListingOK /\ TotalKept /\ PagesAddUpToTotal /\ [HNext]_hvars =>
        ListingOK' /\ TotalKept' /\ PagesAddUpToTotal'
  BY ListingStep, TotalNext DEF HNext, hvars
<1> QED BY <1>1, <1>2, PTL DEF HSpec

-----------------------------------------------------------------------------
(* The walk.  After k pages the client saw the accounts of the first k     *)
(* pages of the collection as it is now, but for those that an arrival     *)
(* pushed back, and none of the others, but for those that a departure     *)
(* moved up.                                                               *)

WalkShape ==
  walk \in [page : Nat, limit : Nat, filter : Filters, ended : BOOLEAN,
            times : [Ids -> Nat], came : SUBSET Ids, went : SUBSET Ids]

WalkDates ==
  \A i \in Ids : walk.times[i] > 0 \/ i \in walk.came \cup walk.went => created[i] # -1

\* Before the first page there is nothing to say.
Unstarted ==
  walk.page = 0 => ~ walk.ended /\ \A i \in Ids : walk.times[i] = 0

Walked == walk.page * walk.limit

\* The pages a client walks through do not wrap: they were full.
PagesFull == walk.page # 0 /\ ~ walk.ended => Walked <= Cardinality(Ids)

SeenBehind ==
  walk.page # 0 =>
    \A i \in Ids : walk.times[i] > 0 =>
      \/ \E j \in walk.came : Before(j, i)
      \/ walk.times[i] = 1 /\ Rank(i, Matching(walk.filter)) < Walked

UnseenAhead ==
  walk.page # 0 =>
    \A i \in Matching(walk.filter) : walk.times[i] = 0 =>
      \/ i \in walk.came \cup walk.went
      \/ \E j \in walk.went : Before(j, i)
      \/ ~ walk.ended /\ Walked <= Rank(i, Matching(walk.filter))

WInv ==
  ListingOK /\ WalkShape /\ WalkDates /\ Unstarted /\ PagesFull /\ SeenBehind /\ UnseenAhead

\* The accounts come, go and wait; the client sees no page.
LEMMA WalkWaits ==
  ASSUME WInv, [Next]_vars, walk.page # 0,
         walk' = [walk EXCEPT !.came = @ \cup Coming(walk.filter),
                              !.went = @ \cup Going(walk.filter)]
  PROVE  WInv'
<1>1. ListingOK' /\ DatesKept
  BY ListingStep DEF WInv
<1> SUFFICES ASSUME NEW f, f = walk.filter PROVE WInv'
  OBVIOUS
<1>2. /\ walk'.page = walk.page /\ walk'.limit = walk.limit /\ walk'.filter = f
      /\ walk'.ended = walk.ended /\ walk'.times = walk.times
      /\ walk'.came = walk.came \cup Coming(f) /\ walk'.went = walk.went \cup Going(f)
  BY DEF WInv, WalkShape
<1>3. Matching(f) \subseteq stored /\ Matching(f)' \subseteq stored'
  BY DEF Matching
<1>4. stored \subseteq Ids /\ stored' \subseteq Ids
  BY <1>1 DEF WInv, ListingOK
<1>5. /\ \A i \in stored : created[i] # -1 /\ created'[i] # -1
      /\ \A i \in stored' : created'[i] # -1
  BY <1>1, <1>4 DEF WInv, ListingOK, DatesKept
<1>6. Coming(f) \subseteq stored' /\ Going(f) \subseteq stored
  BY <1>3, Changes
<1>7. WalkShape'
  <2>1. Coming(f) \subseteq Ids /\ Going(f) \subseteq Ids
    BY <1>4, <1>6
  <2> QED BY <2>1 DEF WInv, WalkShape
<1>8. WalkDates'
  BY <1>1, <1>2, <1>4, <1>5, <1>6 DEF WInv, WalkDates, WalkShape, DatesKept
<1>9. Unstarted' /\ PagesFull'
  BY <1>2 DEF WInv, Unstarted, PagesFull, Walked
<1>10. walk.came \subseteq Ids /\ walk.went \subseteq Ids /\ Walked \in Nat /\ Walked' = Walked
  BY <1>2 DEF WInv, WalkShape, Walked
<1>11. \A i, j \in Ids : created[i] # -1 /\ created[j] # -1 => (Before(i, j)' <=> Before(i, j))
  BY <1>1 DEF DatesKept, Before
<1>12. SeenBehind'
  <2> SUFFICES ASSUME NEW i \in Ids, walk.times[i] > 0, \A j \in walk'.came : ~ Before(j, i)'
               PROVE  walk.times[i] = 1 /\ Rank(i, Matching(f))' < Walked
    BY <1>2, <1>10 DEF SeenBehind, Matching
  <2>1. created[i] # -1 /\ \A j \in walk.came : created[j] # -1
    BY <1>10 DEF WInv, WalkDates
  <2>2. \A j \in walk.came : ~ Before(j, i)
    BY <1>2, <1>10, <1>11, <2>1
  <2>3. walk.times[i] = 1 /\ Rank(i, Matching(f)) < Walked
    BY <2>1, <2>2 DEF WInv, SeenBehind
  <2>4. \A j \in Matching(f)' : Before(j, i)' => j \in Matching(f) /\ Before(j, i)
    <3> SUFFICES ASSUME NEW j \in Matching(f)', Before(j, i)'
                 PROVE  j \in Matching(f) /\ Before(j, i)
      OBVIOUS
    <3>1. j \in Matching(f)
      BY <1>2, Changes
    <3> QED BY <1>3, <1>4, <1>5, <1>11, <2>1, <3>1
  <2> DEFINE now_ == {j \in Matching(f)' : Before(j, i)'}
             was == Earlier(i, Matching(f))
  <2>5. now_ \subseteq was /\ IsFiniteSet(was)
    BY <1>3, <1>4, <2>4, ListingConstants, FS_Subset DEF Earlier
  <2>6. /\ Cardinality(now_) <= Cardinality(was)
        /\ Cardinality(now_) \in Nat /\ Cardinality(was) \in Nat
    BY <2>5, FS_Subset, FS_CardinalityType
  <2>7. Rank(i, Matching(f))' = Cardinality(now_) /\ Rank(i, Matching(f)) = Cardinality(was)
    BY DEF Rank, Earlier
  <2> HIDE DEF now_, was
  <2> QED BY <1>10, <2>3, <2>6, <2>7
<1>13. UnseenAhead'
  <2> SUFFICES ASSUME NEW i \in Matching(f)', walk.times[i] = 0,
                      i \notin walk'.came \cup walk'.went,
                      \A j \in walk'.went : ~ Before(j, i)'
               PROVE  ~ walk.ended /\ Walked <= Rank(i, Matching(f))'
    BY <1>2, <1>10 DEF UnseenAhead, Matching
  <2>1. i \in Matching(f) /\ i \in Ids /\ created[i] # -1
    BY <1>2, <1>3, <1>4, <1>5, Changes
  <2>2. \A j \in walk.went : created[j] # -1
    BY <1>10 DEF WInv, WalkDates
  <2>3. \A j \in walk.went : ~ Before(j, i)
    BY <1>2, <1>10, <1>11, <2>1, <2>2
  <2>4. ~ walk.ended /\ Walked <= Rank(i, Matching(f))
    BY <1>2, <2>1, <2>3 DEF WInv, UnseenAhead
  <2>5. \A j \in Matching(f) : Before(j, i) => j \in Matching(f)' /\ Before(j, i)'
    <3> SUFFICES ASSUME NEW j \in Matching(f), Before(j, i)
                 PROVE  j \in Matching(f)' /\ Before(j, i)'
      OBVIOUS
    <3>1. Before(j, i)'
      BY <1>3, <1>4, <1>5, <1>11, <2>1
    <3>2. j \notin Going(f)
      BY <1>2, <3>1
    <3> QED BY <3>1, <3>2, Changes
  <2> DEFINE now_ == {j \in Matching(f)' : Before(j, i)'}
             was == Earlier(i, Matching(f))
  <2>6. was \subseteq now_ /\ IsFiniteSet(now_)
    BY <1>3, <1>4, <2>5, ListingConstants, FS_Subset DEF Earlier
  <2>7. /\ Cardinality(was) <= Cardinality(now_) /\ IsFiniteSet(was)
        /\ Cardinality(now_) \in Nat
    BY <2>6, FS_Subset, FS_CardinalityType
  <2>8. Cardinality(was) \in Nat
    BY <2>7, FS_CardinalityType
  <2>9. Rank(i, Matching(f))' = Cardinality(now_) /\ Rank(i, Matching(f)) = Cardinality(was)
    BY DEF Rank, Earlier
  <2> HIDE DEF now_, was
  <2> QED BY <1>10, <2>4, <2>7, <2>8, <2>9
<1> QED BY <1>1, <1>7, <1>8, <1>9, <1>12, <1>13 DEF WInv

\* The client sees page k, having seen the pages before it.
LEMMA PageWalked ==
  ASSUME ListingOK, Find,
         NEW k, k = req.at.page, NEW L, L = req.at.limit, NEW f, f = req.filter,
         NEW seen \in [Ids -> Nat], NEW came \in SUBSET Ids, NEW went \in SUBSET Ids,
         \A i \in Ids : seen[i] > 0 \/ i \in came \cup went => created[i] # -1,
         (k - 1) * L < 2^Word,
         \A i \in Ids : seen[i] > 0 =>
           \/ \E j \in came : Before(j, i)
           \/ seen[i] = 1 /\ Rank(i, Matching(f)) < (k - 1) * L,
         \A i \in Matching(f) : seen[i] = 0 =>
           \/ i \in came \cup went
           \/ \E j \in went : Before(j, i)
           \/ (k - 1) * L <= Rank(i, Matching(f)),
         walk' = [page |-> k, limit |-> L, filter |-> f,
                  ended |-> Cardinality(req'.users) < L,
                  times |-> [i \in Ids |-> seen[i] + IF i \in req'.users THEN 1 ELSE 0],
                  came |-> came, went |-> went]
  PROVE  WInv'
<1> DEFINE M == Matching(f)
           users == Page(M, Skip(k, L), L)
           low == (k - 1) * L
           high == k * L
<1>1. /\ k \in Nat \ {0} /\ L \in Nat \ {0} /\ f \in Filters
      /\ req'.users = users
      /\ UNCHANGED <<now, created, stored, status>>
  BY DEF ListingOK, Find, Asked
<1>2. /\ walk'.page = k /\ walk'.limit = L /\ walk'.filter = f
      /\ walk'.ended = (Cardinality(users) < L)
      /\ \A i \in Ids : walk'.times[i] = seen[i] + IF i \in users THEN 1 ELSE 0
      /\ walk'.came = came /\ walk'.went = went
  BY <1>1
<1>3. ListingOK'
  BY ListingStep DEF Next
<1>4. M \in SUBSET Ids /\ Dated /\ \A i \in M : created[i] # -1
  BY DEF ListingOK, Matching
<1>5. /\ users \subseteq M
      /\ \A i \in users : low <= Rank(i, M) /\ Rank(i, M) < high
      /\ \A i \in M \ users : Rank(i, M) < low \/ high <= Rank(i, M)
      /\ Cardinality(users) < L => \A i \in M : Rank(i, M) < high
      /\ ~ (Cardinality(users) < L) => high <= Cardinality(Ids)
  BY <1>1, <1>4, PageSeen
<1>6. low \in Nat /\ high \in Nat /\ low <= high
  <2>1. low \in Nat /\ high = low + L
    BY <1>1, SkipUnwrapped
  <2> HIDE DEF low, high
  <2> QED BY <1>1, <2>1
<1>7. \A i \in Ids : Rank(i, M) \in Nat
  BY <1>4, RankOfSubset DEF Earlier
<1>8. /\ Matching(walk.filter)' = M /\ Walked' = high
      /\ \A i, j \in Ids : Before(i, j)' <=> Before(i, j)
      /\ \A i \in Ids : Rank(i, Matching(walk.filter))' = Rank(i, M)
  BY <1>1, <1>2 DEF Matching, Walked, Before, Rank
<1> HIDE DEF M, users, low, high
<1>9. WalkShape'
  <2>1. [i \in Ids |-> seen[i] + IF i \in users THEN 1 ELSE 0] \in [Ids -> Nat]
    OBVIOUS
  <2>2. (Cardinality(users) < L) \in BOOLEAN
    OBVIOUS
  <2> QED BY <1>1, <2>1, <2>2 DEF WalkShape
<1>10. WalkDates'
  BY <1>1, <1>2, <1>4, <1>5 DEF WalkDates
<1>11. Unstarted' /\ PagesFull'
  BY <1>1, <1>2, <1>5, <1>8 DEF Unstarted, PagesFull
<1>12. SeenBehind'
  <2> SUFFICES ASSUME NEW i \in Ids, walk'.times[i] > 0, \A j \in came : ~ Before(j, i)
               PROVE  walk'.times[i] = 1 /\ Rank(i, M) < high
    BY <1>2, <1>8 DEF SeenBehind
  <2>1. seen[i] > 0 => seen[i] = 1 /\ Rank(i, M) < low
    BY DEF M, low
  <2>2. CASE i \in users
    <3>1. seen[i] = 0
      BY <1>5, <1>6, <1>7, <2>1, <2>2
    <3> QED BY <1>2, <1>5, <2>2, <3>1
  <2>3. CASE i \notin users
    <3>1. seen[i] > 0 /\ walk'.times[i] = seen[i]
      BY <1>2, <2>3
    <3> QED BY <1>6, <1>7, <2>1, <3>1
  <2> QED BY <2>2, <2>3
<1>13. UnseenAhead'
  <2> SUFFICES ASSUME NEW i \in M, walk'.times[i] = 0, i \notin came \cup went,
                      \A j \in went : ~ Before(j, i)
               PROVE  ~ (Cardinality(users) < L) /\ high <= Rank(i, M)
    BY <1>2, <1>4, <1>8 DEF UnseenAhead
  <2>1. i \in Ids /\ i \notin users /\ seen[i] = 0
    BY <1>2, <1>4
  <2>2. low <= Rank(i, M)
    BY <2>1 DEF M, low
  <2>3. high <= Rank(i, M)
    BY <1>5, <1>6, <1>7, <2>1, <2>2
  <2> QED BY <1>5, <1>6, <1>7, <2>1, <2>3
<1> QED BY <1>3, <1>9, <1>10, <1>11, <1>12, <1>13 DEF WInv

LEMMA WInvNext == WInv /\ [HNext]_hvars => WInv'
<1> SUFFICES ASSUME WInv, [HNext]_hvars PROVE WInv'
  OBVIOUS
<1>0. 2^Word \in Nat \ {0} /\ Cardinality(Ids) \in Nat /\ Cardinality(Ids) < 2^Word
  BY WordType, ListingConstants, FS_CardinalityType
<1>1. CASE HNext /\ Find
  <2> DEFINE k == req.at.page
             L == req.at.limit
             f == req.filter
  <2>1. /\ k \in Nat \ {0} /\ L \in Nat \ {0}
        /\ req'.at = req.at /\ req'.filter = f
        /\ UNCHANGED <<now, created, stored, status>>
    BY <1>1 DEF WInv, ListingOK, Find, Asked
  <2>2. ListingOK /\ Find
    BY <1>1 DEF WInv
  <2>3. CASE k = 1
    <3> DEFINE none == [i \in Ids |-> 0]
    <3>1. walk' = [page |-> k, limit |-> L, filter |-> f,
                   ended |-> Cardinality(req'.users) < L,
                   times |-> [i \in Ids |-> none[i] + IF i \in req'.users THEN 1 ELSE 0],
                   came |-> {}, went |-> {}]
      BY <1>1, <2>1, <2>3 DEF HNext, Begins, Walk, NoWalk
    <3>2. (k - 1) * L = 0
      BY <2>1, <2>3
    <3>3. \A i \in Ids : Rank(i, Matching(f)) \in Nat
      BY RankOfSubset DEF Earlier, Matching, WInv, ListingOK
    <3>4. none \in [Ids -> Nat] /\ \A i \in Ids : none[i] = 0
      OBVIOUS
    <3>5. \A i \in Matching(f) : (k - 1) * L <= Rank(i, Matching(f))
      BY <3>2, <3>3 DEF Matching, WInv, ListingOK
    <3>6. (k - 1) * L < 2^Word
      BY <1>0, <3>2
    <3> HIDE DEF none, k, L, f
    <3> QED BY <2>2, <3>1, <3>4, <3>5, <3>6, PageWalked DEF k, L, f
  <2>4. CASE k # 1 /\ Follows
    <3>1. /\ walk.page # 0 /\ ~ walk.ended /\ k - 1 = walk.page
          /\ L = walk.limit /\ f = walk.filter
      BY <2>1, <2>4 DEF Follows, WInv, WalkShape
    <3>2. walk' = [page |-> k, limit |-> L, filter |-> f,
                   ended |-> Cardinality(req'.users) < L,
                   times |-> [i \in Ids |-> walk.times[i] + IF i \in req'.users THEN 1 ELSE 0],
                   came |-> walk.came, went |-> walk.went]
      BY <1>1, <2>1, <2>4 DEF HNext, Begins, Walk
    <3>3. (k - 1) * L = Walked /\ Walked \in Nat
      BY <2>1, <3>1 DEF Walked, WInv, WalkShape
    <3>4. (k - 1) * L < 2^Word
      BY <1>0, <3>1, <3>3 DEF WInv, PagesFull
    <3>5. \A i \in Ids : walk.times[i] > 0 =>
            \/ \E j \in walk.came : Before(j, i)
            \/ walk.times[i] = 1 /\ Rank(i, Matching(f)) < (k - 1) * L
      BY <3>1, <3>3 DEF WInv, SeenBehind
    <3>6. \A i \in Matching(f) : walk.times[i] = 0 =>
            \/ i \in walk.came \cup walk.went
            \/ \E j \in walk.went : Before(j, i)
            \/ (k - 1) * L <= Rank(i, Matching(f))
      BY <3>1, <3>3 DEF WInv, UnseenAhead
    <3>7. /\ walk.times \in [Ids -> Nat] /\ walk.came \in SUBSET Ids /\ walk.went \in SUBSET Ids
          /\ \A i \in Ids : walk.times[i] > 0 \/ i \in walk.came \cup walk.went => created[i] # -1
      BY DEF WInv, WalkShape, WalkDates
    <3> DEFINE seen == walk.times
               came == walk.came
               went == walk.went
    <3> HIDE DEF k, L, f, seen, came, went
    <3> QED BY <2>2, <3>2, <3>4, <3>5, <3>6, <3>7, PageWalked DEF k, L, f, seen, came, went
  <2>5. CASE k # 1 /\ ~ Follows
    <3>1. walk' = walk
      BY <1>1, <2>1, <2>5 DEF HNext, Begins
    <3>2. ListingOK'
      BY <1>1, ListingStep DEF HNext, WInv
    <3>3. /\ Matching(walk.filter)' = Matching(walk.filter)
          /\ \A i, j : Before(i, j)' <=> Before(i, j)
          /\ \A i : Rank(i, Matching(walk.filter))' = Rank(i, Matching(walk.filter))
      BY <2>1, <3>1 DEF Matching, Before, Rank
    <3>4. WalkShape' /\ WalkDates' /\ Unstarted' /\ PagesFull'
      BY <2>1, <3>1 DEF WInv, WalkShape, WalkDates, Unstarted, PagesFull, Walked
    <3>5. SeenBehind'
      BY <3>1, <3>3 DEF WInv, SeenBehind, Walked
    <3>6. UnseenAhead'
      BY <3>1, <3>3 DEF WInv, UnseenAhead, Walked
    <3> QED BY <3>2, <3>4, <3>5, <3>6 DEF WInv
  <2> QED BY <2>3, <2>4, <2>5
<1>2. CASE HNext /\ ~ Find /\ walk.page = 0
  <2>1. walk' = walk
    BY <1>2 DEF HNext
  <2>2. ListingOK' /\ DatesKept
    BY <1>2, ListingStep DEF HNext, WInv
  <2> QED BY <1>2, <2>1, <2>2
          DEF WInv, WalkShape, WalkDates, Unstarted, PagesFull, Walked, SeenBehind,
              UnseenAhead, DatesKept
<1>3. CASE HNext /\ ~ Find /\ walk.page # 0
  BY <1>3, WalkWaits DEF HNext
<1>4. CASE UNCHANGED hvars
  BY <1>4 DEF hvars, vars, WInv, ListingOK, Dated, WalkShape, WalkDates, Unstarted, PagesFull,
              Walked, SeenBehind, UnseenAhead, Before, Rank, Matching
<1> QED BY <1>1, <1>2, <1>3, <1>4

LEMMA WInvHolds == HSpec => []WInv
<1>1. HInit => WInv
  BY ListingInit DEF HInit, NoWalk, WInv, WalkShape, WalkDates, Unstarted, PagesFull,
                     SeenBehind, UnseenAhead, Filters
<1> QED BY <1>1, WInvNext, PTL DEF HSpec

\* However accounts come, go and change their status between two pages, the
\* client that walks to the last page misses an account that stayed only if one
\* before it left the list.
THEOREM DeparturesHide == HSpec => []OnlyDeparturesHide
<1>1. WInv => OnlyDeparturesHide
  <2> SUFFICES ASSUME WInv, walk.ended, NEW i \in Ids, walk.times[i] = 0,
                      i \in Matching(walk.filter)
               PROVE  i \in walk.came \cup walk.went \/ \E j \in walk.went : Before(j, i)
    BY DEF OnlyDeparturesHide
  <2> QED BY DEF WInv, Unstarted, UnseenAhead
<1> QED BY <1>1, WInvHolds, PTL

\* Likewise, the client sees an account twice only if one came before it.
THEOREM LateArrivalsRepeat == HSpec => []OnlyLateArrivalsRepeat
<1>1. WInv => OnlyLateArrivalsRepeat
  <2> SUFFICES ASSUME WInv, NEW i \in Ids, walk.times[i] > 1
               PROVE  \E j \in walk.came : Before(j, i)
    BY DEF OnlyLateArrivalsRepeat
  <2>1. walk.page # 0 /\ walk.times[i] > 0 /\ walk.times[i] # 1
    BY DEF WInv, Unstarted, WalkShape
  <2> QED BY <2>1 DEF WInv, SeenBehind
<1> QED BY <1>1, WInvHolds, PTL
=============================================================================
