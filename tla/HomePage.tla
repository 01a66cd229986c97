------------------------------ MODULE HomePage ------------------------------
(***************************************************************************)
(* The home page (Home.tsx): the search results while the box holds a      *)
(* query, the ranked statements of the forum otherwise.  One mounts as the *)
(* other unmounts, whoever changed the box, the forum or the page.         *)
(***************************************************************************)
EXTENDS SearchBox, RankedFeed

ASSUME HomePageAssumption == Feeds = Forums /\ Nowhere \notin Forums

homeVars == <<routeVars, searchVars, feedVars>>

(* RankedBrowse is mounted, for the forum of the context. *)
FeedForum ==
  IF route.page = "home" /\ route.slug \in Forums /\ query = NoQuery
  THEN forum ELSE Nowhere

HomeInit == RouteInit /\ SearchInit /\ FeedInit(FeedForum)

Rendered ==
  /\ SearchEffect
  /\ feed' = FeedOf(FeedForum')
  /\ UNCHANGED <<ranked, pages, changes>>

Mounted(r) == r.slug \in Forums

(* The box belongs to the layout: it goes when an address without a forum  *)
(* is shown, and starts from the address when the layout comes back.       *)
Route(step) ==
  /\ step
  /\ query' = IF Mounted(route) /\ Mounted(route') THEN query
              ELSE IF Mounted(route') THEN route'.q ELSE NoQuery
  /\ Rendered

Box == (\E q \in Queries \cup {NoQuery} : SetQuery(q)) \/ ClearQuery

(* A reload forgets everything but the address and local storage. *)
Reload ==
  /\ ReloadRoute
  /\ query' = IF Mounted(route) THEN route.q ELSE NoQuery
  /\ requests' = {}
  /\ results' = IF Searching' THEN [NoResults EXCEPT !.loading = TRUE, !.timer = TRUE]
                ELSE NoResults
  /\ pages' = [f \in Feeds |-> [o \in Offsets |-> Unread]]
  /\ feed' = Fresh(FeedForum')
  /\ UNCHANGED <<ranked, changes>>

Search == TimerFires \/ \E r \in requests : Answer(r) \/ Failure(r)

HomeNext ==
  \/ Route(VisitorStep) \/ Route(RouteEffect)
  \/ Box /\ Rendered
  \/ Reload
  \/ Search /\ UNCHANGED feedVars
  \/ FeedStep /\ UNCHANGED <<routeVars, searchVars>>

=============================================================================
