------------------------------ MODULE Browser ------------------------------
(***************************************************************************)
(* The web client over its address and its local storage: the home page    *)
(* and the form to write a statement.  They meet in the address, the forum *)
(* and the fingerprint of ForumRoute and in nothing else, and one of them  *)
(* is mounted at a time; a visit is to one of the two, on any way.         *)
(***************************************************************************)
EXTENDS HomePage, LocalRecords

VARIABLE visit

browserVars == <<homeVars, recordVars, visit>>

BrowserInit ==
  /\ visit \in {"home", "write"}
  /\ HomeInit /\ RecordInit
  /\ IF visit = "home"
     THEN /\ route.page # "write"
          /\ drafts = [k \in Keys |-> NoText] /\ bookmarks = [k \in Keys |-> {}]
          /\ account = Anonymous
     ELSE /\ query = NoQuery /\ feed = Fresh(Nowhere)
          /\ stored = forum /\ welcomed
          /\ ranked = [f \in Feeds |-> CHOOSE r \in Rankings[f] : TRUE]

(* The home page makes no use of the fingerprint, which stays unread. *)
HomeVisit(step) ==
  /\ visit = "home" /\ step /\ route'.page # "write" /\ fingerprint' = None
  /\ UNCHANGED <<recordVars, visit>>

WriteVisit(step) ==
  /\ visit = "write" /\ step /\ stored' = forum'
  /\ UNCHANGED <<searchVars, feedVars, visit>>

BrowserNext ==
  \/ HomeVisit(HomeNext)
  \/ WriteVisit(RouteRecords(VisitorStep) \/ RouteRecords(RouteEffect) \/ RecordStep)

(* Effects, redirects, timers, storage events and answers come; of the     *)
(* visitor and of other tabs nothing is assumed.                           *)
BrowserSpec ==
  /\ BrowserInit /\ [][BrowserNext]_browserVars
  /\ WF_browserVars(HomeVisit(Route(RouteEffect)))
  /\ WF_browserVars(HomeVisit(TimerFires /\ UNCHANGED feedVars))
  /\ WF_browserVars(HomeVisit((\E r \in requests : Answer(r)) /\ UNCHANGED feedVars))
  /\ WF_browserVars(HomeVisit(ReadPage /\ UNCHANGED <<routeVars, searchVars>>))
  /\ WF_browserVars(WriteVisit(RouteRecords(RouteEffect)))
  /\ WF_browserVars(WriteVisit(StorageEvent \/ NicknameEvent))

-----------------------------------------------------------------------------
(***************************************************************************)
(* The client keeps to the forum the visitor asked for last: the context   *)
(* does not bounce back to the old address, and the home page, which may   *)
(* still merge pages of an earlier forum's offset, shows statements of its *)
(* own forum alone (votes go to that forum, by number).                    *)
(***************************************************************************)
ForumIsKept == ForumNeverBounces /\ []ShownIsOfForum

(* Once visitor and rankings rest, hits and list are those of the chain.   *)
HomeSettles == HitsSettle /\ LastPageFresh

=============================================================================
