----------------------------- MODULE ForumRoute -----------------------------
(***************************************************************************)
(* Which forum the web client shows (state/Forum.tsx, App.tsx, Root.tsx).  *)
(* The forum is kept in three places: the first segment of the address,    *)
(* the context of ForumProvider, and local storage, which all tabs share.  *)
(* An effect carries the address into the context, choosing a forum sets   *)
(* the context first and the address a moment later, and bare or unknown   *)
(* addresses are redirected to the stored forum.                           *)
(***************************************************************************)
EXTENDS Naturals

CONSTANTS
  Forums,          \* the deployed forums, each with its slug
  Global,          \* the default
  Unlisted,        \* a slug, or a stored name, of no forum
  Queries, NoQuery,
  None,
  MaxMoves         \* steps of the visitor and of other tabs

ASSUME ForumRouteAssumption ==
  /\ Global \in Forums /\ Unlisted \notin Forums
  /\ None \notin Forums \cup {"home", "write", "other"}
  /\ NoQuery \notin Queries /\ MaxMoves \in Nat

VARIABLES
  route,        \* the address: page, slug and the query of the search box
  forum,        \* forumName of ForumProvider
  stored,       \* symvolia:selectedForum
  welcomed,     \* symvolia:welcome:seen
  synced,       \* the slug useForumSlugSync has last passed on
  navigating,   \* the forum chosen whose address the router has yet to show
  wanted,       \* the forum asked for last, in the address or in the dialog
  fingerprint,  \* of the chain: None until its genesis block has been read
  moves

routeVars == <<route, forum, stored, welcomed, synced, navigating,
              wanted, fingerprint, moves>>

LayoutPages == {"home", "write", "other"}

Pages == {"root", "welcome"} \cup LayoutPages

At(page, slug, q) == [page |-> page, slug |-> slug, q |-> q]

(* getStoredForum and getStoredForumSlug *)
StoredForum == IF stored \in Forums THEN stored ELSE Global

RouteInit ==
  /\ route \in {At("root", None, NoQuery)} \cup
       {At("home", slug, q) : slug \in Forums \cup {Unlisted}, q \in Queries \cup {NoQuery}}
       \cup {At("write", slug, NoQuery) : slug \in Forums}
  /\ stored \in Forums \cup {Unlisted, None}
  /\ forum = StoredForum
  /\ welcomed \in BOOLEAN
  /\ synced = None /\ navigating = None
  /\ wanted = IF route.slug \in Forums THEN route.slug ELSE forum
  /\ fingerprint = None
  /\ moves = 0

-----------------------------------------------------------------------------
Move == moves < MaxMoves /\ moves' = moves + 1

InForum == route.page \in LayoutPages

(* Effects and transitions run before the next rendering, and before the   *)
(* visitor can click.                                                      *)
Quiet ==
  navigating = None /\ (InForum /\ route.slug \in Forums => route.slug = synced)

Settled == Quiet /\ InForum /\ route.slug \in Forums

(* The visitor follows a link, types an address or goes back. *)
Visit(page, slug) ==
  /\ Quiet /\ Move
  /\ route' = At(page, IF page \in LayoutPages THEN slug ELSE None, NoQuery)
  /\ wanted' = IF route'.slug \in Forums THEN slug ELSE wanted
  /\ synced' = IF route'.slug \in Forums THEN synced ELSE None   \* Root unmounts
  /\ UNCHANGED <<forum, stored, welcomed, navigating, fingerprint>>

(* useForumNavigate: the page changes, the forum of the context stays. *)
Go(page) ==
  /\ Settled /\ page # route.page /\ Move
  /\ route' = At(page, forum, NoQuery)
  /\ wanted' = forum
  /\ UNCHANGED <<forum, stored, welcomed, synced, navigating, fingerprint>>

RedirectTo(target) ==
  /\ route' = target
  /\ wanted' = IF target.slug = None THEN wanted ELSE target.slug
  /\ UNCHANGED <<forum, stored, welcomed, synced, navigating, moves, fingerprint>>

RootRedirect ==
  /\ route.page = "root"
  /\ RedirectTo(IF welcomed THEN At("home", StoredForum, NoQuery)
                ELSE At("welcome", None, NoQuery))

ValidateForumSlug ==
  /\ InForum /\ route.slug \notin Forums
  /\ RedirectTo(At("home", StoredForum, NoQuery))

EnterFromWelcome ==
  /\ route.page = "welcome"
  /\ welcomed' = TRUE
  /\ route' = At("home", StoredForum, NoQuery)
  /\ wanted' = StoredForum
  /\ UNCHANGED <<forum, stored, synced, navigating, moves, fingerprint>>

SetForum(f) == forum' = f /\ stored' = f

(* Slips of the effect: it runs again when the context changes, which is   *)
(* what an unstable callback would make it do; or only when it mounts.     *)
SyncWheneverDifferent ==
  /\ InForum /\ route.slug \in Forums \ {forum}
  /\ SetForum(route.slug)
  /\ synced' = route.slug
  /\ UNCHANGED <<route, welcomed, navigating, wanted, moves, fingerprint>>

SyncWhenMounted ==
  /\ InForum /\ route.slug \in Forums /\ synced = None
  /\ SetForum(route.slug)
  /\ synced' = route.slug
  /\ UNCHANGED <<route, welcomed, navigating, wanted, moves, fingerprint>>

(* useForumSlugSync: runs when the slug is another one than before. *)
SyncFromSlug ==
  /\ InForum /\ route.slug \in Forums /\ route.slug # synced
  /\ SetForum(route.slug)
  /\ synced' = route.slug
  /\ UNCHANGED <<route, welcomed, navigating, wanted, moves, fingerprint>>

(* The dialog sets the context; the router shows the address in a          *)
(* transition of its own.                                                  *)
ChooseForum(f) ==
  /\ Settled /\ Move
  /\ SetForum(f)
  /\ navigating' = f
  /\ wanted' = f
  /\ UNCHANGED <<route, welcomed, synced, fingerprint>>

NavigateToChosen ==
  /\ navigating # None
  /\ route' = At("home", navigating, NoQuery)
  /\ wanted' = navigating
  /\ navigating' = None
  /\ UNCHANGED <<forum, stored, welcomed, synced, moves, fingerprint>>

(* Another tab selects a forum. *)
OtherTab(f) ==
  /\ Move /\ stored' = f
  /\ UNCHANGED <<route, forum, welcomed, synced, navigating, wanted, fingerprint>>

ReloadRoute ==
  /\ Move
  /\ forum' = StoredForum
  /\ stored' = StoredForum
  /\ synced' = None /\ navigating' = None /\ fingerprint' = None
  /\ wanted' = IF route.slug \in Forums THEN route.slug ELSE wanted
  /\ UNCHANGED <<route, welcomed>>

(* ForumProvider asks for the genesis block once a load.  The answer sweeps *)
(* every record that is neither exempt nor of this chain: the mark that    *)
(* the welcome page has been seen is such a record.                        *)
ReadFingerprint ==
  /\ fingerprint = None
  /\ \/ fingerprint' = "chain" /\ welcomed' = FALSE
     \/ fingerprint' = "unknown" /\ welcomed' = welcomed
  /\ UNCHANGED <<route, forum, stored, synced, navigating, wanted, moves>>

(* What the client does by itself, and what the visitor or a tab does. *)
RouteEffect ==
  \/ RootRedirect \/ ValidateForumSlug \/ SyncFromSlug \/ NavigateToChosen
  \/ ReadFingerprint

VisitorStep ==
  \/ \E page \in Pages, slug \in Forums \cup {Unlisted} : Visit(page, slug)
  \/ \E page \in LayoutPages : Go(page)
  \/ EnterFromWelcome
  \/ \E f \in Forums : ChooseForum(f) \/ OtherTab(f)

-----------------------------------------------------------------------------
RouteTypeOK ==
  /\ route \in [page : Pages, slug : Forums \cup {Unlisted, None},
                q : Queries \cup {NoQuery}]
  /\ forum \in Forums /\ stored \in Forums \cup {Unlisted, None}
  /\ welcomed \in BOOLEAN /\ wanted \in Forums
  /\ {synced, navigating} \subseteq Forums \cup {None}
  /\ fingerprint \in {None} \cup {"chain", "unknown"}

(***************************************************************************)
(* The client never leaves the forum the visitor asked for last: while the *)
(* router has yet to show the address of a chosen forum, the old address   *)
(* does not bounce the client back (the hazard named at Forum.tsx:184).    *)
(* A reload starts from the stored forum and is left out.                  *)
(***************************************************************************)
ForumNeverBounces ==
  [][forum' # forum /\ synced' # None => forum' = wanted']_routeVars

(***************************************************************************)
(* "the context always matches the URL" (Root.tsx:25), in the end: when    *)
(* the visitor rests, the client shows the forum of its address.           *)
(***************************************************************************)
ForumFollowsRoute == <>[](InForum => forum = route.slug)

(***************************************************************************)
(* The welcome page is for those who have not entered from it yet: the     *)
(* flag "records whether the visitor has seen (and dismissed) the          *)
(* full-page welcome screen" (welcome.ts:4).  It does not hold: the sweep  *)
(* of the next load removes the flag (Forum.tsx:39-61).                    *)
(***************************************************************************)
WelcomeIsRemembered == [][welcomed => welcomed']_routeVars

=============================================================================
