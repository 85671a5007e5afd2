------------------------------- MODULE Search -------------------------------
(***************************************************************************)
(* The search dialog of the documentation site                             *)
(* (site/internal/sitewiki/search.js): an index fetched once, a query that *)
(* is run on every keystroke, a list with a selection.                     *)
(*                                                                         *)
(* JavaScript runs the callbacks of promises that are already resolved     *)
(* before anything else: before the next key, and before the answer of a   *)
(* fetch.  `micro` is the queue of such callbacks, and every other action  *)
(* waits until it is empty.                                                *)
(*                                                                         *)
(* Texts are sequences of words; a term matches a word.  Escaping,         *)
(* highlighting, snippets and focus are left out.                          *)
(***************************************************************************)
EXTENDS Naturals, Sequences, FiniteSets

CONSTANTS Words,      \* the words of texts and queries
          Index,      \* the entries of search-index.json
          Queries,    \* what the user types: sequences of terms
          Limit,      \* results shown; 12 in the code
          MaxKeys     \* bound on the events of the user

ASSUME SearchAssumption ==
  /\ Index \in Seq([t : Seq(Words), d : Seq(Words), s : Seq(Words), c : Seq(Words)])
  /\ Queries \subseteq Seq(Words) /\ <<>> \in Queries
  /\ Limit \in Nat \ {0} /\ MaxKeys \in Nat

VARIABLES loaded,     \* searchIndex is set
          fetches,    \* who waits for the fetches in flight
          isLoading,
          open,       \* the dialog is open
          query,      \* the trimmed value of the input; <<>> if it is blank
          results,    \* currentResults, as positions in Index
          selected,   \* selectedIndex, where 0 is none and 1 the first
          shown,      \* what #searchResults shows
          target,     \* the entry whose page was opened, if any
          micro,      \* callbacks of resolved promises
          turn,       \* flips with every callback
          keys        \* events left

vars == <<loaded, fetches, isLoading, open, query, results, selected, shown, target,
          micro, turn, keys>>
network == <<loaded, fetches, isLoading>>
list == <<results, selected, shown>>

\* What the promise of fetchIndex() continues with: nothing after a prefetch,
\* the check in openSearch(), or runSearch() again.
Callbacks == {"prefetch", "open", "run"}

Blank(kind) == [kind |-> kind, query |-> <<>>]

Init ==
  /\ loaded = FALSE /\ fetches = {} /\ isLoading = FALSE
  /\ open = FALSE /\ query = <<>>
  /\ results = <<>> /\ selected = 0 /\ shown = Blank("nothing")
  /\ target = 0
  /\ micro = <<>> /\ turn = FALSE
  /\ keys = MaxKeys

(***************************************************************************)
(* Scores                                                                  *)
(***************************************************************************)
\* A text holds the words of q one after the other.
HasPhrase(text, q) ==
  \E k \in 0..(Len(text) - Len(q)) : SubSeq(text, k + 1, k + Len(q)) = q

HasTerm(text, t) == \E k \in DOMAIN text : text[k] = t

If(b, points) == IF b THEN points ELSE 0

TermMatched(e, t) ==
  HasTerm(e.t, t) \/ HasTerm(e.d, t) \/ HasTerm(e.s, t) \/ HasTerm(e.c, t)

\* How many terms of q a text holds, and how many it begins with.
TermsIn(text, q) == Cardinality({j \in DOMAIN q : HasTerm(text, q[j])})
TermsFirst(text, q) == Cardinality({j \in DOMAIN q : text # <<>> /\ text[1] = q[j]})

TermsScore(e, q) ==
  45 * TermsIn(e.t, q) + 40 * TermsFirst(e.t, q)
  + 25 * TermsIn(e.d, q) + 15 * TermsIn(e.s, q) + 10 * TermsIn(e.c, q)

PhraseScore(e, q) ==
  IF HasPhrase(e.t, q) THEN 80
  ELSE IF HasPhrase(e.d, q) THEN 40
  ELSE If(HasPhrase(e.c, q), 30)

\* Seeded fault: one matching term is enough.
MatchedByAny(e, q) == \E j \in DOMAIN q : TermMatched(e, q[j])

Matched(e, q) == \A j \in DOMAIN q : TermMatched(e, q[j])

Score(e, q) == TermsScore(e, q) + PhraseScore(e, q)

Found(q) == {k \in DOMAIN Index : Matched(Index[k], q)}

\* The order of a stable sort by falling score.
Before(q, k, l) ==
  \/ Score(Index[k], q) > Score(Index[l], q)
  \/ Score(Index[k], q) = Score(Index[l], q) /\ k < l

\* The i-th of the sorted entries is the one that i - 1 others come before.
Place(S, q, k) == Cardinality({l \in S : Before(q, l, k)})
Sorted(S, q) == [i \in 1..Cardinality(S) |-> CHOOSE k \in S : Place(S, q, k) = i - 1]

\* Seeded fault: the first matches are kept, then sorted.
CutFirst(q) ==
  Sorted({k \in Found(q) : Cardinality({l \in Found(q) : l < k}) < Limit}, q)

\* matches.sort(...).slice(0, 12).
Ranked(q) ==
  LET sorted == Sorted(Found(q), q)
  IN SubSeq(sorted, 1, IF Len(sorted) < Limit THEN Len(sorted) ELSE Limit)

(***************************************************************************)
(* The functions                                                           *)
(***************************************************************************)
\* fetchIndex().then(then): while a fetch is in flight the promise is resolved
\* too, with nothing.
fetchIndex(then, queue) ==
  IF loaded \/ isLoading
  THEN micro' = Append(queue, then) /\ UNCHANGED network
  ELSE /\ isLoading' = TRUE
       /\ fetches' = fetches \cup {[then |-> then, n |-> Cardinality(fetches)]}
       /\ micro' = queue /\ UNCHANGED loaded

renderInitialState == shown' = Blank("initial")

\* Seeded fault: the selection is kept from one list to the next.
renderResultsKeeping(q) ==
  /\ results' = Ranked(q)
  /\ selected' = selected
  /\ shown' = [kind |-> IF results' = <<>> THEN "none" ELSE "results", query |-> q]

renderResults(q) ==
  /\ results' = Ranked(q)
  /\ selected' = IF results' = <<>> THEN 0 ELSE 1
  /\ shown' = [kind |-> IF results' = <<>> THEN "none" ELSE "results", query |-> q]

\* runSearch() with the input at q and the other callbacks in queue.
runSearch(q, queue) ==
  IF q = <<>>
  THEN /\ selected' = 0 /\ results' = <<>> /\ renderInitialState
       /\ micro' = queue /\ UNCHANGED network
  ELSE IF ~loaded
  THEN /\ shown' = Blank("loading") /\ UNCHANGED <<selected, results>>
       /\ fetchIndex("run", queue)
  ELSE renderResults(q) /\ micro' = queue /\ UNCHANGED network

\* The next callback of a resolved promise.
Microtask ==
  /\ micro # <<>>
  /\ turn' = ~turn
  /\ UNCHANGED <<open, query, target, keys>>
  /\ \/ /\ Head(micro) = "run" \/ (Head(micro) = "open" /\ query # <<>>)
        /\ runSearch(query, Tail(micro))
     \/ /\ Head(micro) = "prefetch" \/ (Head(micro) = "open" /\ query = <<>>)
        /\ micro' = Tail(micro)
        /\ UNCHANGED <<network, list>>

\* The answer of a fetch, or its failure; either way the callback runs next.
FetchDone(f) ==
  /\ micro = <<>> /\ f \in fetches
  /\ fetches' = fetches \ {f}
  /\ isLoading' = FALSE
  /\ loaded' \in {TRUE, loaded}
  /\ micro' = <<f.then>>
  /\ UNCHANGED <<open, query, list, target, turn, keys>>

Event == micro = <<>> /\ keys > 0 /\ keys' = keys - 1

\* Hovering over or focusing the button.
Prefetch ==
  /\ Event /\ ~open
  /\ fetchIndex("prefetch", micro)
  /\ UNCHANGED <<open, query, list, target, turn>>

\* Seeded fault: the list of the last visit is kept behind the empty input.
openSearchKeeping ==
  /\ Event /\ ~open
  /\ open' = TRUE /\ query' = <<>>
  /\ UNCHANGED list
  /\ fetchIndex("open", micro)
  /\ UNCHANGED <<target, turn>>

openSearch ==
  /\ Event /\ ~open
  /\ open' = TRUE /\ query' = <<>>
  /\ selected' = 0 /\ results' = <<>> /\ renderInitialState
  /\ fetchIndex("open", micro)
  /\ UNCHANGED <<target, turn>>

\* The close button, the backdrop, Escape and the shortcut.
closeSearch ==
  /\ Event /\ open
  /\ open' = FALSE
  /\ UNCHANGED <<network, query, list, target, turn, micro>>

\* An input event.
Type(q) ==
  /\ Event /\ open /\ q # query
  /\ query' = q
  /\ runSearch(q, micro)
  /\ UNCHANGED <<open, target, turn>>

\* Seeded fault: the arrows do not wrap around.
moveSelectionOff(down) ==
  /\ Event /\ open /\ results # <<>>
  /\ selected' = IF down THEN selected + 1 ELSE selected - 1
  /\ UNCHANGED <<network, open, query, results, shown, target, turn, micro>>

\* The arrow keys wrap around.
moveSelection(down) ==
  /\ Event /\ open /\ results # <<>>
  /\ selected' = IF down THEN (selected % Len(results)) + 1
                 ELSE IF selected = 1 THEN Len(results) ELSE selected - 1
  /\ UNCHANGED <<network, open, query, results, shown, target, turn, micro>>

\* The mouse moves over a result that is shown.
Hover(k) ==
  /\ Event /\ open /\ shown.kind = "results" /\ k \in DOMAIN results
  /\ selected' = k
  /\ UNCHANGED <<network, open, query, results, shown, target, turn, micro>>

\* Enter; the page is left.
openSelected ==
  /\ Event /\ open /\ selected \in DOMAIN results /\ target = 0
  /\ target' = results[selected]
  /\ UNCHANGED <<network, open, query, list, turn, micro>>

Next ==
  \/ Microtask
  \/ \E f \in fetches : FetchDone(f)
  \/ Prefetch \/ openSearch \/ closeSearch \/ openSelected
  \/ \E q \in Queries : Type(q)
  \/ \E down \in BOOLEAN : moveSelection(down)
  \/ \E k \in 1..Limit : Hover(k)

\* Callbacks run, and every fetch is answered or fails.
Fairness == WF_vars(Microtask) /\ WF_vars(\E f \in fetches : FetchDone(f))

Spec == Init /\ [][Next]_vars /\ Fairness
-----------------------------------------------------------------------------
\* The values of every variable.
SearchTypeOK ==
  /\ loaded \in BOOLEAN /\ isLoading \in BOOLEAN /\ open \in BOOLEAN /\ turn \in BOOLEAN
  /\ \A f \in fetches : f.then \in Callbacks
  /\ query \in Queries
  /\ results \in Seq(DOMAIN Index)
  /\ selected \in 0..Limit
  /\ shown.kind \in {"nothing", "initial", "loading", "none", "results"}
  /\ target \in {0} \cup DOMAIN Index
  /\ micro \in Seq(Callbacks)
  /\ keys \in 0..MaxKeys

\* The list always answers the query in the input, whatever was typed, closed
\* and opened again while the index was on its way: the best entries in order
\* of their score, and none that misses a term.
ListAnswersQuery ==
  /\ shown.kind \in {"results", "none"} => shown.query = query
  /\ results # <<>> => shown.kind = "results"
  /\ \A k \in DOMAIN results :
       /\ \A j \in DOMAIN query : TermMatched(Index[results[k]], query[j])
       /\ \A m \in DOMAIN Index \ {results[l] : l \in 1..k} :
            (\A j \in DOMAIN query : TermMatched(Index[m], query[j])) =>
              Score(Index[m], query) <= Score(Index[results[k]], query)

\* Enter never opens anything but a result that is shown: a selection exists
\* exactly while there are results, and is one of them.
SelectionInList ==
  IF results = <<>> THEN selected = 0 ELSE selected \in DOMAIN results

\* A page stays responsive: its callbacks come to an end.  (Refuted: typing
\* while the index is loading runs runSearch() in a circle of callbacks that
\* keeps the answer of the fetch from ever being delivered.)
PageResponds == []<>(micro = <<>>)
=============================================================================
