----------------------------- MODULE SearchBox -----------------------------
(***************************************************************************)
(* The search box and its results (state/Search.tsx, hooks/useSearch.ts,   *)
(* SearchResults of Home.tsx).  The box is kept in a context, and in the   *)
(* address once a search has succeeded; a search waits for a pause in      *)
(* typing, and its answer may come after the box, the forum or the page    *)
(* has changed.  The results exist only while the home page shows a        *)
(* non-blank query.                                                        *)
(***************************************************************************)
EXTENDS ForumRoute, FiniteSets

VARIABLES
  query,        \* the box, trimmed
  results,      \* the state of useSearch: hits, isLoading, the debounce timer
  requests      \* searches in flight

searchVars == <<query, results, requests>>

NoResults == [hits |-> None, loading |-> FALSE, timer |-> FALSE]

Searching == route.page = "home" /\ route.slug \in Forums /\ query # NoQuery

(* Leaving the results clears their timer and leaves requests in flight:   *)
(* the last of them is still the latest for inflightRef.                   *)
Abandoned == {[r EXCEPT !.mounted = FALSE] : r \in requests}

(* The effect of useSearch, after a step that may have changed the box,    *)
(* the forum or the page.                                                  *)
SearchEffect ==
  IF ~Searching'
  THEN results' = NoResults /\ requests' = Abandoned
  ELSE IF ~Searching
  THEN /\ results' = [NoResults EXCEPT !.loading = TRUE, !.timer = TRUE]
       /\ requests' = Abandoned
  ELSE IF query' # query \/ forum' # forum
  THEN /\ results' = [results EXCEPT !.loading = TRUE, !.timer = TRUE]
       /\ UNCHANGED requests
  ELSE UNCHANGED <<results, requests>>

SearchInit ==
  /\ query = route.q
  /\ results = IF Searching THEN [NoResults EXCEPT !.loading = TRUE, !.timer = TRUE]
               ELSE NoResults
  /\ requests = {}

-----------------------------------------------------------------------------
(* The visitor types, or deletes what was typed: the address is untouched. *)
SetQuery(q) ==
  /\ Settled /\ q # query /\ Move
  /\ query' = q
  /\ UNCHANGED <<route, forum, stored, welcomed, synced, navigating, wanted, fingerprint>>

(* clearQuery also takes the query out of the address. *)
ClearQuery ==
  /\ Settled /\ query # NoQuery /\ Move
  /\ query' = NoQuery
  /\ route' = [route EXCEPT !.q = NoQuery]
  /\ UNCHANGED <<forum, stored, welcomed, synced, navigating, wanted, fingerprint>>

(* 300 ms without another keystroke: the request becomes the latest one. *)
TimerFires ==
  /\ results.timer
  /\ results' = [results EXCEPT !.timer = FALSE]
  /\ requests' = {[r EXCEPT !.latest = @ /\ ~r.mounted] : r \in requests} \cup
       {[id |-> CHOOSE n \in 0..Cardinality(requests) : \A r \in requests : r.id # n,
         query |-> query, forum |-> forum, latest |-> TRUE, mounted |-> TRUE]}
  /\ UNCHANGED <<routeVars, query>>

(* Whatever is searched by now, the hits are those of the request. *)
Arrived(r, hits) ==
  /\ requests' = requests \ {r}
  /\ results' = IF r.mounted
                THEN [results EXCEPT !.hits = hits, !.loading = FALSE]
                ELSE results
  /\ UNCHANGED <<forum, stored, welcomed, synced, navigating, wanted, fingerprint, moves, query>>

(* A slip: every answer is taken, however old its request is. *)
AnswerAny(r) ==
  /\ r \in requests
  /\ Arrived(r, [query |-> r.query, forum |-> r.forum])
  /\ route' = [route EXCEPT !.q = r.query]

(* Only the answer of the latest request counts; it also writes its query  *)
(* into whatever address is shown by then.                                 *)
Answer(r) ==
  /\ r \in requests
  /\ IF r.latest
     THEN /\ Arrived(r, [query |-> r.query, forum |-> r.forum])
          /\ route' = [route EXCEPT !.q = r.query]
     ELSE /\ requests' = requests \ {r}
          /\ UNCHANGED <<routeVars, query, results>>

Failure(r) ==
  /\ r \in requests /\ r.latest
  /\ Arrived(r, None)
  /\ UNCHANGED route

-----------------------------------------------------------------------------
SearchTypeOK ==
  /\ query \in Queries \cup {NoQuery}
  /\ results.loading \in BOOLEAN /\ results.timer \in BOOLEAN
  /\ \A r \in requests : r.query \in Queries /\ r.forum \in Forums

(***************************************************************************)
(* When the visitor rests, the hits are those of the query in the box and  *)
(* of the forum on the screen, or of a search that failed, and nothing     *)
(* loads: no answer that came late, for an earlier query or for another    *)
(* forum, is what remains (useSearch.ts:72).                               *)
(***************************************************************************)
HitsSettle ==
  <>[](Searching =>
         /\ ~results.loading
         /\ results.hits \in {None, [query |-> query, forum |-> forum]})

(***************************************************************************)
(* "Clear the search query and sync the URL" (Search.tsx:15): a query that *)
(* enters the address is the one in the box.  It does not hold: a late     *)
(* answer writes its query after the box was cleared (useSearch.ts:77-81). *)
(***************************************************************************)
AddressShowsTheBox ==
  [][route'.q \notin {route.q, NoQuery} => route'.q = query']_<<routeVars, searchVars>>

=============================================================================
