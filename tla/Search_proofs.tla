--------------------------- MODULE Search_proofs ---------------------------
(***************************************************************************)
(* Proofs about Search: the ranking of runSearch() shows the best entries, *)
(* for any index, query and limit, and the list in the dialog always       *)
(* answers the query in its input, whatever was typed, closed and opened   *)
(* while the index was on its way.                                         *)
(***************************************************************************)
EXTENDS Search, TLAPS, FiniteSetTheorems, SequenceTheorems

-----------------------------------------------------------------------------
(***************************************************************************)
(* Scores.                                                                 *)
(***************************************************************************)
LEMMA IndexFinite ==
  /\ DOMAIN Index = 1..Len(Index) /\ Len(Index) \in Nat
  /\ IsFiniteSet(DOMAIN Index)
BY SearchAssumption, FS_Interval

LEMMA CountsAreNat ==
  ASSUME NEW q \in Queries, NEW text
  PROVE  TermsIn(text, q) \in Nat /\ TermsFirst(text, q) \in Nat
<1>1. IsFiniteSet(DOMAIN q)
  BY SearchAssumption, FS_Interval
<1>2. IsFiniteSet({j \in DOMAIN q : HasTerm(text, q[j])})
  BY <1>1, FS_Subset
<1>3. IsFiniteSet({j \in DOMAIN q : text # <<>> /\ text[1] = q[j]})
  BY <1>1, FS_Subset
<1> QED
  BY <1>2, <1>3, FS_CardinalityType DEF TermsIn, TermsFirst

LEMMA ScoreIsNat ==
  ASSUME NEW e, NEW q \in Queries PROVE Score(e, q) \in Nat
<1>1. /\ TermsIn(e.t, q) \in Nat /\ TermsFirst(e.t, q) \in Nat
      /\ TermsIn(e.d, q) \in Nat /\ TermsIn(e.s, q) \in Nat /\ TermsIn(e.c, q) \in Nat
  BY CountsAreNat
<1>2. TermsScore(e, q) \in Nat
  BY <1>1 DEF TermsScore
<1>3. PhraseScore(e, q) \in Nat
  BY DEF PhraseScore, If
<1> QED
  BY <1>2, <1>3 DEF Score

\* The sort compares any two entries, one way only, and consistently.
LEMMA BeforeIsOrder ==
  ASSUME NEW q \in Queries, NEW k \in DOMAIN Index, NEW l \in DOMAIN Index, NEW m \in DOMAIN Index
  PROVE  /\ ~Before(q, k, k)
         /\ Before(q, k, l) => ~Before(q, l, k)
         /\ Before(q, k, l) /\ Before(q, l, m) => Before(q, k, m)
         /\ k # l => Before(q, k, l) \/ Before(q, l, k)
<1>1. k \in Nat /\ l \in Nat /\ m \in Nat
  BY IndexFinite
<1>2. Score(Index[k], q) \in Nat /\ Score(Index[l], q) \in Nat /\ Score(Index[m], q) \in Nat
  BY ScoreIsNat
<1> QED
  BY <1>1, <1>2 DEF Before

-----------------------------------------------------------------------------
(***************************************************************************)
(* Sorting.                                                                *)
(***************************************************************************)
\* An entry that comes before another has a smaller place.
LEMMA PlaceGrows ==
  ASSUME NEW q \in Queries, NEW S \in SUBSET DOMAIN Index,
         NEW k \in S, NEW m \in S, Before(q, k, m)
  PROVE  Place(S, q, k) < Place(S, q, m)
<1> DEFINE A == {l \in S : Before(q, l, k)}
           B == {l \in S : Before(q, l, m)}
<1>1. IsFiniteSet(S)
  BY IndexFinite, FS_Subset
<1>2. IsFiniteSet(B) /\ Cardinality(B) \in Nat
  BY <1>1, FS_Subset, FS_CardinalityType
<1>3. A \subseteq B
  BY BeforeIsOrder
<1>4. k \in B /\ k \notin A
  BY BeforeIsOrder
<1> HIDE DEF A, B
<1>5. IsFiniteSet(A) /\ Cardinality(A) \in Nat /\ Cardinality(A) <= Cardinality(B)
  BY <1>2, <1>3, FS_Subset, FS_CardinalityType
<1>6. Cardinality(A) # Cardinality(B)
  BY <1>2, <1>3, <1>4, FS_Subset
<1>7. Cardinality(A) < Cardinality(B)
  BY <1>2, <1>5, <1>6
<1> QED
  BY <1>7 DEF Place, A, B

\* Places are numbers below the size of the set, and differ.
LEMMA PlacesDiffer ==
  ASSUME NEW q \in Queries, NEW S \in SUBSET DOMAIN Index
  PROVE  /\ IsFiniteSet(S) /\ Cardinality(S) \in Nat
         /\ \A k \in S : Place(S, q, k) \in 0..(Cardinality(S) - 1)
         /\ \A k, m \in S : Place(S, q, k) = Place(S, q, m) => k = m
<1>1. IsFiniteSet(S) /\ Cardinality(S) \in Nat
  BY IndexFinite, FS_Subset, FS_CardinalityType
<1>2. ASSUME NEW k \in S PROVE Place(S, q, k) \in 0..(Cardinality(S) - 1)
  <2> DEFINE A == {l \in S : Before(q, l, k)}
  <2>1. A \in SUBSET (S \ {k})
    BY BeforeIsOrder
  <2>2. IsFiniteSet(S \ {k}) /\ Cardinality(S \ {k}) = Cardinality(S) - 1
    BY <1>1, FS_RemoveElement
  <2> HIDE DEF A
  <2>3. IsFiniteSet(A) /\ Cardinality(A) \in Nat /\ Cardinality(A) <= Cardinality(S) - 1
    BY <2>1, <2>2, FS_Subset, FS_CardinalityType
  <2>4. Cardinality(A) \in 0..(Cardinality(S) - 1)
    BY <1>1, <2>3
  <2> QED
    BY <2>4 DEF Place, A
<1>3. ASSUME NEW k \in S, NEW m \in S, Place(S, q, k) = Place(S, q, m), k # m PROVE FALSE
  <2>1. Place(S, q, k) \in Nat /\ Place(S, q, m) \in Nat
    BY <1>1, <1>2
  <2>2. Before(q, k, m) \/ Before(q, m, k)
    BY <1>3, BeforeIsOrder
  <2>3. Place(S, q, k) < Place(S, q, m) \/ Place(S, q, m) < Place(S, q, k)
    BY <2>2, PlaceGrows
  <2> QED
    BY <1>3, <2>1, <2>3
<1> QED
  BY <1>1, <1>2, <1>3

\* Every place is taken: as many places as entries, and no two entries share one.
LEMMA PlacesTaken ==
  ASSUME NEW q \in Queries, NEW S \in SUBSET DOMAIN Index, NEW i \in 1..Cardinality(S)
  PROVE  \E k \in S : Place(S, q, k) = i - 1
<1> DEFINE n == Cardinality(S)
           T == 0..(n - 1)
           f == [k \in S |-> Place(S, q, k)]
<1>1. IsFiniteSet(S) /\ n \in Nat
  BY PlacesDiffer
<1>2. f \in Injection(S, T)
  BY PlacesDiffer DEF Injection, IsInjective
<1>3. IsFiniteSet(T) /\ Cardinality(T) = n
  <2>1. 0 \in Int /\ n - 1 \in Int BY <1>1
  <2>2. IsFiniteSet(T) /\ Cardinality(T) = (IF 0 > n - 1 THEN 0 ELSE (n - 1) - 0 + 1) BY <2>1, FS_Interval
  <2> QED BY <1>1, <2>2
<1> HIDE DEF T
<1>4. f \in Surjection(S, T)
  BY <1>2, <1>3, FS_Injection
<1>5. i - 1 \in T
  BY <1>1 DEF T
<1>6. \E k \in S : f[k] = i - 1
  BY <1>4, <1>5 DEF Surjection
<1> QED
  BY <1>6

LEMMA SortedPlaces ==
  ASSUME NEW q \in Queries, NEW S \in SUBSET DOMAIN Index
  PROVE  /\ Sorted(S, q) \in Seq(S) /\ Len(Sorted(S, q)) = Cardinality(S)
         /\ \A i \in 1..Cardinality(S) :
              Sorted(S, q)[i] \in S /\ Place(S, q, Sorted(S, q)[i]) = i - 1
<1>1. Cardinality(S) \in Nat
  BY PlacesDiffer
<1>2. ASSUME NEW i \in 1..Cardinality(S)
      PROVE  Sorted(S, q)[i] \in S /\ Place(S, q, Sorted(S, q)[i]) = i - 1
  BY PlacesTaken DEF Sorted
<1>3. Sorted(S, q) \in [1..Cardinality(S) -> S]
  BY <1>2 DEF Sorted
<1> QED
  BY <1>1, <1>2, <1>3

\* What runSearch() puts in the list are matching entries, at most Limit of them,
\* each in its place: an entry that is not among the first k scores no higher than
\* the k-th, and equal scores keep the order of the index.
RanksBest(q, r) ==
  /\ r \in Seq(DOMAIN Index) /\ Len(r) <= Limit
  /\ \A k \in DOMAIN r :
       /\ Matched(Index[r[k]], q)
       /\ \A m \in DOMAIN Index \ {r[l] : l \in 1..k} :
            Matched(Index[m], q) => Score(Index[m], q) <= Score(Index[r[k]], q)

\* The list is as long as there are matches, up to the limit.
LEMMA RankedLength ==
  ASSUME NEW q \in Queries
  PROVE  /\ Ranked(q) \in Seq(Found(q))
         /\ Len(Ranked(q)) = IF Cardinality(Found(q)) < Limit THEN Cardinality(Found(q)) ELSE Limit
         /\ \A i \in 1..Len(Ranked(q)) : Ranked(q)[i] = Sorted(Found(q), q)[i]
<1> DEFINE S == Found(q)
           sorted == Sorted(S, q)
           n == IF Len(sorted) < Limit THEN Len(sorted) ELSE Limit
<1>1. S \in SUBSET DOMAIN Index
  BY DEF Found
<1>2. sorted \in Seq(S) /\ Len(sorted) = Cardinality(S) /\ Cardinality(S) \in Nat
  BY <1>1, SortedPlaces, PlacesDiffer
<1>3. n \in 0..Len(sorted)
  BY <1>2, SearchAssumption
<1>4. Ranked(q) = SubSeq(sorted, 1, n)
  BY DEF Ranked
<1> HIDE DEF S, sorted
<1>5. /\ SubSeq(sorted, 1, n) \in Seq(S) /\ Len(SubSeq(sorted, 1, n)) = n
      /\ \A i \in 1..n : SubSeq(sorted, 1, n)[i] = sorted[i]
  BY <1>2, <1>3
<1> QED
  BY <1>2, <1>4, <1>5 DEF sorted, S

\* The ranking of runSearch() is right for every index, query and limit.
THEOREM RankedIsBest ==
  ASSUME NEW q \in Queries
  PROVE  RanksBest(q, Ranked(q))
<1> DEFINE S == Found(q)
           r == Ranked(q)
<1>1. S \in SUBSET DOMAIN Index
  BY DEF Found
<1>2. IsFiniteSet(S) /\ Cardinality(S) \in Nat
  BY <1>1, PlacesDiffer
<1>3. r \in Seq(S) /\ Len(r) \in Nat /\ Len(r) <= Cardinality(S) /\ Len(r) <= Limit
  BY <1>2, RankedLength, SearchAssumption
<1>4. \A i \in 1..Len(r) : r[i] \in S /\ Place(S, q, r[i]) = i - 1
  <2>1. \A i \in 1..Len(r) : i \in 1..Cardinality(S) /\ r[i] = Sorted(S, q)[i]
    BY <1>2, <1>3, RankedLength
  <2> QED
    BY <1>1, <2>1, SortedPlaces
<1>5. ASSUME NEW k \in DOMAIN r, NEW m \in DOMAIN Index \ {r[l] : l \in 1..k}, Matched(Index[m], q)
      PROVE  Score(Index[m], q) <= Score(Index[r[k]], q)
  <2>1. m \in S
    BY <1>5 DEF Found
  <2>2. k \in 1..Len(r) /\ r[k] \in S /\ Place(S, q, r[k]) = k - 1 /\ m # r[k]
    BY <1>3, <1>4
  <2>3. Place(S, q, m) \in Nat
    BY <1>1, <1>2, <2>1, PlacesDiffer
  <2>4. Place(S, q, m) >= k
    <3>1. ASSUME Place(S, q, m) < k PROVE FALSE
      <4> DEFINE i == Place(S, q, m) + 1
      <4>1. i \in 1..k /\ i \in 1..Len(r) /\ i - 1 = Place(S, q, m)
        BY <2>2, <2>3, <3>1
      <4> HIDE DEF i
      <4>2. r[i] \in S /\ Place(S, q, r[i]) = Place(S, q, m)
        BY <1>4, <4>1
      <4>3. r[i] = m
        BY <1>1, <2>1, <4>2, PlacesDiffer
      <4> QED
        BY <4>1, <4>3
    <3> QED
      BY <2>2, <2>3, <3>1
  <2>5. ~Before(q, m, r[k])
    <3>1. Before(q, m, r[k]) => Place(S, q, m) < Place(S, q, r[k])
      BY <1>1, <2>1, <2>2, PlaceGrows
    <3> QED
      BY <2>2, <2>3, <2>4, <3>1
  <2>6. Before(q, r[k], m)
    BY <1>1, <2>1, <2>2, <2>5, BeforeIsOrder
  <2>7. Score(Index[m], q) \in Nat /\ Score(Index[r[k]], q) \in Nat
    BY ScoreIsNat
  <2> QED
    BY <2>6, <2>7 DEF Before
<1>6. \A k \in DOMAIN r : Matched(Index[r[k]], q)
  BY <1>3, <1>4 DEF Found
<1>7. r \in Seq(DOMAIN Index)
  BY <1>1, <1>3
<1> QED
  BY <1>3, <1>5, <1>6, <1>7 DEF RanksBest

-----------------------------------------------------------------------------
(***************************************************************************)
(* The dialog.                                                             *)
(***************************************************************************)
\* Without an index there are no results; what is listed is the ranking of the
\* query in the input, and is shown as such.
Listing ==
  /\ ~loaded => results = <<>>
  /\ results # <<>> => results = Ranked(query) /\ shown.kind = "results"
  /\ shown.kind \in {"results", "none"} => shown.query = query
  /\ Len(results) <= Limit

SearchInv == SearchTypeOK /\ Listing /\ SelectionInList

\* The parts of the state that a search changes.
ListTyped ==
  /\ results \in Seq(DOMAIN Index) /\ Len(results) <= Limit
  /\ selected \in 0..Limit
  /\ shown.kind \in {"nothing", "initial", "loading", "none", "results"}
NetTyped ==
  /\ loaded \in BOOLEAN /\ isLoading \in BOOLEAN
  /\ \A f \in fetches : f.then \in Callbacks
  /\ micro \in Seq(Callbacks)

LEMMA fetchIndexTyped ==
  ASSUME NetTyped, NEW then \in Callbacks, NEW queue \in Seq(Callbacks), fetchIndex(then, queue)
  PROVE  NetTyped' /\ loaded' = loaded
<1>1. CASE loaded \/ isLoading
  <2>1. Append(queue, then) \in Seq(Callbacks) OBVIOUS
  <2> QED BY <1>1, <2>1 DEF fetchIndex, network, NetTyped
<1>2. CASE ~(loaded \/ isLoading)
  BY <1>2 DEF fetchIndex, NetTyped
<1> QED
  BY <1>1, <1>2

LEMMA EmptyList ==
  ASSUME results' = <<>>
  PROVE  results' \in Seq(DOMAIN Index) /\ Len(results') <= Limit
BY SearchAssumption

\* runSearch() leaves a list that answers q, and no list where there is no index.
LEMMA runSearchLists ==
  ASSUME NetTyped, ListTyped, Listing, SelectionInList,
         NEW q \in Queries, NEW queue \in Seq(Callbacks), runSearch(q, queue), query' = q
  PROVE  NetTyped' /\ ListTyped' /\ Listing' /\ SelectionInList'
<1>1. CASE q = <<>>
  <2>1. selected' = 0 /\ results' = <<>> /\ shown' = Blank("initial") /\ micro' = queue /\ UNCHANGED network
    BY <1>1 DEF runSearch, renderInitialState
  <2>2. shown'.kind = "initial" BY <2>1 DEF Blank
  <2>3. results' \in Seq(DOMAIN Index) /\ Len(results') <= Limit BY <2>1, EmptyList
  <2>4. NetTyped' BY <2>1 DEF NetTyped, network
  <2>5. ListTyped' BY <2>1, <2>2, <2>3, SearchAssumption DEF ListTyped
  <2>6. Listing' /\ SelectionInList' BY <2>1, <2>2, <2>3 DEF Listing, SelectionInList
  <2> QED BY <2>4, <2>5, <2>6
<1>2. CASE q # <<>> /\ ~loaded
  <2>1. shown' = Blank("loading") /\ UNCHANGED <<selected, results>> /\ fetchIndex("run", queue)
    BY <1>2 DEF runSearch
  <2>2. shown'.kind = "loading" BY <2>1 DEF Blank
  <2>3. NetTyped' /\ loaded' = loaded BY <2>1, fetchIndexTyped DEF Callbacks
  <2>4. results' = <<>> BY <1>2, <2>1 DEF Listing
  <2>5. ListTyped' BY <2>1, <2>2 DEF ListTyped
  <2>6. Listing' /\ SelectionInList' BY <2>1, <2>2, <2>3, <2>4, EmptyList DEF Listing, SelectionInList
  <2> QED BY <2>3, <2>5, <2>6
<1>3. CASE q # <<>> /\ loaded
  <2>1. /\ results' = Ranked(q) /\ selected' = (IF results' = <<>> THEN 0 ELSE 1)
        /\ shown' = [kind |-> IF results' = <<>> THEN "none" ELSE "results", query |-> q]
        /\ micro' = queue /\ UNCHANGED network
    BY <1>3 DEF runSearch, renderResults
  <2>2. results' \in Seq(DOMAIN Index) /\ Len(results') <= Limit BY <2>1, RankedIsBest DEF RanksBest
  <2>3. shown'.kind = (IF results' = <<>> THEN "none" ELSE "results") /\ shown'.query = q BY <2>1
  <2>4. NetTyped' /\ loaded' BY <1>3, <2>1 DEF NetTyped, network
  <2>5. ListTyped' BY <2>1, <2>2, <2>3, SearchAssumption DEF ListTyped
  <2>6. Listing' BY <2>1, <2>2, <2>3, <2>4 DEF Listing
  <2>7. SelectionInList'
    <3>1. results' # <<>> => 1 \in DOMAIN results' BY <2>2
    <3> QED BY <2>1, <3>1 DEF SelectionInList
  <2> QED BY <2>4, <2>5, <2>6, <2>7
<1> QED
  BY <1>1, <1>2, <1>3 DEF NetTyped

\* What the keys and the mouse select is in the list.
LEMMA SelectIn ==
  ASSUME results \in Seq(DOMAIN Index), results # <<>>, selected \in DOMAIN results, NEW down \in BOOLEAN,
         selected' = IF down THEN (selected % Len(results)) + 1
                     ELSE IF selected = 1 THEN Len(results) ELSE selected - 1
  PROVE  selected' \in DOMAIN results
<1>1. Len(results) \in Nat \ {0} /\ DOMAIN results = 1..Len(results)
  BY EmptySeq
<1>2. selected % Len(results) \in 0..(Len(results) - 1)
  BY <1>1
<1> QED
  BY <1>1, <1>2

LEMMA SearchParts ==
  /\ SearchInv <=> /\ NetTyped /\ ListTyped /\ Listing /\ SelectionInList
                   /\ open \in BOOLEAN /\ turn \in BOOLEAN /\ query \in Queries
                   /\ target \in {0} \cup DOMAIN Index /\ keys \in 0..MaxKeys
  /\ SearchInv' <=> /\ NetTyped' /\ ListTyped' /\ Listing' /\ SelectionInList'
                    /\ open' \in BOOLEAN /\ turn' \in BOOLEAN /\ query' \in Queries
                    /\ target' \in {0} \cup DOMAIN Index /\ keys' \in 0..MaxKeys
BY DEF SearchInv, SearchTypeOK, NetTyped, ListTyped, Listing

\* A step that leaves the list, the input and the index.
LEMMA ListSame ==
  ASSUME ListTyped, Listing, SelectionInList, UNCHANGED <<results, selected, shown, query>>,
         loaded => loaded'
  PROVE  ListTyped' /\ Listing' /\ SelectionInList'
BY DEF ListTyped, Listing, SelectionInList

\* A step that selects.
LEMMA SelectSame ==
  ASSUME ListTyped, Listing, SelectionInList, UNCHANGED <<results, shown, query, loaded>>,
         results # <<>>, selected' \in DOMAIN results
  PROVE  ListTyped' /\ Listing' /\ SelectionInList'
<1>1. selected' \in 0..Limit
  <2>1. DOMAIN results = 1..Len(results) /\ Len(results) \in Nat /\ Len(results) <= Limit
    BY DEF ListTyped
  <2> QED BY <2>1, SearchAssumption
<1> QED
  BY <1>1 DEF ListTyped, Listing, SelectionInList

LEMMA InitSearch == Init => SearchInv
<1> SUFFICES ASSUME Init PROVE SearchInv
  OBVIOUS
<1>1. results \in Seq(DOMAIN Index) /\ Len(results) <= Limit /\ micro \in Seq(Callbacks)
  BY SearchAssumption DEF Init
<1>2. shown.kind = "nothing"
  BY DEF Init, Blank
<1>3. NetTyped /\ ListTyped /\ Listing /\ SelectionInList
  <2>1. NetTyped BY <1>1 DEF Init, NetTyped
  <2>2. selected \in 0..Limit BY SearchAssumption DEF Init
  <2>3. ListTyped BY <1>1, <1>2, <2>2 DEF ListTyped
  <2>4. Listing BY <1>1, <1>2 DEF Init, Listing
  <2>5. SelectionInList BY DEF Init, SelectionInList
  <2> QED BY <2>1, <2>3, <2>4, <2>5
<1>4. open \in BOOLEAN /\ turn \in BOOLEAN /\ query \in Queries /\ target \in {0} \cup DOMAIN Index
      /\ keys \in 0..MaxKeys
  <2>1. keys \in 0..MaxKeys BY SearchAssumption DEF Init
  <2>2. query \in Queries BY SearchAssumption DEF Init
  <2> QED BY <2>1, <2>2 DEF Init
<1> QED
  BY <1>3, <1>4, SearchParts

LEMMA NextSearch == SearchInv /\ [Next]_vars => SearchInv'
<1> SUFFICES ASSUME SearchInv, [Next]_vars PROVE SearchInv'
  OBVIOUS
<1>0. /\ NetTyped /\ ListTyped /\ Listing /\ SelectionInList
      /\ open \in BOOLEAN /\ turn \in BOOLEAN /\ query \in Queries
      /\ target \in {0} \cup DOMAIN Index /\ keys \in 0..MaxKeys
  BY SearchParts
<1>a. Event => keys' \in 0..MaxKeys
  BY <1>0, SearchAssumption DEF Event
<1>b. micro \in Seq(Callbacks) /\ (micro # <<>> => Tail(micro) \in Seq(Callbacks))
  BY <1>0 DEF NetTyped
<1>1. CASE Microtask
  <2>1. micro # <<>> /\ turn' = ~turn /\ UNCHANGED <<open, query, target, keys>> BY <1>1 DEF Microtask
  <2>2. CASE runSearch(query, Tail(micro))
    BY <1>0, <1>b, <2>1, <2>2, runSearchLists, SearchParts
  <2>3. CASE micro' = Tail(micro) /\ UNCHANGED <<network, list>>
    <3>1. NetTyped' BY <1>0, <1>b, <2>1, <2>3 DEF NetTyped, network
    <3>2. ListTyped' /\ Listing' /\ SelectionInList' BY <1>0, <2>1, <2>3, ListSame DEF network, list
    <3> QED BY <1>0, <2>1, <3>1, <3>2, SearchParts
  <2> QED BY <1>1, <2>2, <2>3 DEF Microtask
<1>2. ASSUME NEW f \in fetches, FetchDone(f) PROVE SearchInv'
  <2>1. f.then \in Callbacks BY <1>0 DEF NetTyped
  <2>2. <<f.then>> \in Seq(Callbacks) BY <2>1
  <2>3. NetTyped' BY <1>0, <1>2, <2>2 DEF FetchDone, NetTyped
  <2>a. UNCHANGED <<results, selected, shown, query>> BY <1>2 DEF FetchDone, list
  <2>b. loaded => loaded' BY <1>2 DEF FetchDone
  <2>4. ListTyped' /\ Listing' /\ SelectionInList' BY <1>0, <2>a, <2>b, ListSame
  <2> QED BY <1>0, <1>2, <2>3, <2>4, SearchParts DEF FetchDone
<1>3. CASE Prefetch
  <2>1. NetTyped' /\ loaded' = loaded BY <1>0, <1>b, <1>3, fetchIndexTyped DEF Prefetch, Callbacks
  <2>2. ListTyped' /\ Listing' /\ SelectionInList' BY <1>0, <1>3, <2>1, ListSame DEF Prefetch, list
  <2> QED BY <1>0, <1>a, <1>3, <2>1, <2>2, SearchParts DEF Prefetch
<1>4. CASE openSearch
  <2>1. NetTyped' /\ loaded' = loaded BY <1>0, <1>b, <1>4, fetchIndexTyped DEF openSearch, Callbacks
  <2>2. results' = <<>> /\ selected' = 0 /\ shown'.kind = "initial" /\ query' = <<>> /\ open' = TRUE
        /\ UNCHANGED <<target, turn>>
    BY <1>4 DEF openSearch, renderInitialState, Blank
  <2>3. results' \in Seq(DOMAIN Index) /\ Len(results') <= Limit BY <2>2, EmptyList
  <2>4. ListTyped' /\ Listing' /\ SelectionInList'
    BY <2>2, <2>3, SearchAssumption DEF ListTyped, Listing, SelectionInList
  <2> QED BY <1>0, <1>a, <1>4, <2>1, <2>2, <2>4, SearchParts, SearchAssumption DEF openSearch
<1>5. CASE closeSearch
  <2>1. NetTyped' BY <1>0, <1>5 DEF closeSearch, NetTyped, network
  <2>2. ListTyped' /\ Listing' /\ SelectionInList' BY <1>0, <1>5, ListSame DEF closeSearch, list, network
  <2> QED BY <1>0, <1>a, <1>5, <2>1, <2>2, SearchParts DEF closeSearch
<1>6. CASE openSelected
  <2>1. NetTyped' BY <1>0, <1>6 DEF openSelected, NetTyped, network
  <2>2. ListTyped' /\ Listing' /\ SelectionInList' BY <1>0, <1>6, ListSame DEF openSelected, list, network
  <2>3. target' \in DOMAIN Index BY <1>0, <1>6, ElementOfSeq DEF openSelected, ListTyped
  <2> QED BY <1>0, <1>a, <1>6, <2>1, <2>2, <2>3, SearchParts DEF openSelected
<1>7. ASSUME NEW q \in Queries, Type(q) PROVE SearchInv'
  <2>1. query' = q /\ runSearch(q, micro) /\ UNCHANGED <<open, target, turn>> BY <1>7 DEF Type
  <2>2. NetTyped' /\ ListTyped' /\ Listing' /\ SelectionInList' BY <1>0, <1>b, <2>1, runSearchLists
  <2> QED BY <1>0, <1>a, <1>7, <2>1, <2>2, SearchParts DEF Type
<1>8. ASSUME NEW down \in BOOLEAN, moveSelection(down) PROVE SearchInv'
  <2>1. NetTyped' BY <1>0, <1>8 DEF moveSelection, NetTyped, network
  <2>2. results # <<>> /\ selected \in DOMAIN results /\ results \in Seq(DOMAIN Index)
    BY <1>0, <1>8 DEF moveSelection, SelectionInList, ListTyped
  <2>3. selected' \in DOMAIN results BY <1>8, <2>2, SelectIn DEF moveSelection
  <2>4. ListTyped' /\ Listing' /\ SelectionInList'
    BY <1>0, <1>8, <2>2, <2>3, SelectSame DEF moveSelection, network
  <2> QED BY <1>0, <1>a, <1>8, <2>1, <2>4, SearchParts DEF moveSelection
<1>9. ASSUME NEW k \in 1..Limit, Hover(k) PROVE SearchInv'
  <2>1. NetTyped' BY <1>0, <1>9 DEF Hover, NetTyped, network
  <2>2. results # <<>> /\ selected' \in DOMAIN results BY <1>9 DEF Hover
  <2>3. ListTyped' /\ Listing' /\ SelectionInList' BY <1>0, <1>9, <2>2, SelectSame DEF Hover, network
  <2> QED BY <1>0, <1>a, <1>9, <2>1, <2>3, SearchParts DEF Hover
<1>10. CASE UNCHANGED vars
  <2>1. NetTyped' BY <1>0, <1>10 DEF vars, NetTyped
  <2>2. ListTyped' /\ Listing' /\ SelectionInList' BY <1>0, <1>10, ListSame DEF vars
  <2> QED BY <1>0, <1>10, <2>1, <2>2, SearchParts DEF vars
<1> QED
  BY <1>1, <1>2, <1>3, <1>4, <1>5, <1>6, <1>7, <1>8, <1>9, <1>10 DEF Next

LEMMA SearchInvariant == Spec => []SearchInv
BY InitSearch, NextSearch, PTL DEF Spec

\* Every variable of the dialog keeps its values; the selection stays within the
\* limit and the page that Enter opens is an entry of the index.
THEOREM SearchTypes == Spec => []SearchTypeOK
<1>1. SearchInv => SearchTypeOK
  BY DEF SearchInv
<1> QED
  BY <1>1, SearchInvariant, PTL

\* The list answers the query in the input at any time: the ranking of
\* runSearch() is that of the query, also when it ran as a callback of fetchIndex()
\* after more was typed or the dialog was closed and opened again.
THEOREM ListAnswers == Spec => []ListAnswersQuery
<1>1. ASSUME SearchInv PROVE ListAnswersQuery
  <2>1. Listing /\ query \in Queries BY <1>1 DEF SearchInv, SearchTypeOK
  <2>2. RanksBest(query, Ranked(query)) BY <2>1, RankedIsBest
  <2>3. CASE results = <<>> BY <2>1, <2>3 DEF ListAnswersQuery, Listing
  <2>4. CASE results # <<>>
    <3>1. results = Ranked(query) BY <2>1, <2>4 DEF Listing
    <3>2. RanksBest(query, results) BY <2>2, <3>1
    <3> QED BY <2>1, <3>2 DEF ListAnswersQuery, Listing, RanksBest, Matched
  <2> QED BY <2>3, <2>4
<1> QED
  BY <1>1, SearchInvariant, PTL

\* Enter never opens anything but a result that is shown: moveSelection() wraps
\* around within the list, and a new list starts with its first result.
THEOREM SelectionIsInList == Spec => []SelectionInList
<1>1. SearchInv => SelectionInList
  BY DEF SearchInv
<1> QED
  BY <1>1, SearchInvariant, PTL

=============================================================================
