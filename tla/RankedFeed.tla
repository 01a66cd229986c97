---------------------------- MODULE RankedFeed ----------------------------
(***************************************************************************)
(* The ranked statements of the home page (RankedBrowse of Home.tsx): the  *)
(* pages loaded so far, kept while the visitor scrolls, of a ranking that  *)
(* changes with every block.  Only the page loaded last is read again.     *)
(***************************************************************************)
EXTENDS Naturals, Sequences

CONSTANTS
  Feeds,            \* the forums
  Rankings,         \* for each, the rankings it may have: sequences of statements
  PageSize,
  Unread, Nowhere,
  MaxChanges, MaxPages

ASSUME RankedFeedAssumption ==
  /\ PageSize \in Nat \ {0} /\ MaxChanges \in Nat /\ MaxPages \in Nat \ {0}
  /\ \A f \in Feeds : \A r \in Rankings[f] : r \in Seq({r[i] : i \in DOMAIN r})

VARIABLES
  ranked,       \* the ranking of each forum on the chain
  feed,         \* React state: offset, statements, hasMore, the pause of a load
  pages,        \* the query cache, by forum and offset
  changes

feedVars == <<ranked, feed, pages, changes>>

Offsets == {i * PageSize : i \in 0..MaxPages - 1}

(* RankedBrowse as it mounts for a forum; Nowhere: it is not mounted. *)
Fresh(forum) ==
  [forum |-> forum, offset |-> 0, shown |-> <<>>, hasMore |-> FALSE, pausing |-> FALSE]

FeedInit(forum) ==
  /\ ranked \in [Feeds -> UNION {Rankings[f] : f \in Feeds}]
  /\ \A f \in Feeds : ranked[f] \in Rankings[f]
  /\ feed = Fresh(forum)
  /\ pages = [f \in Feeds |-> [o \in Offsets |-> Unread]]
  /\ changes = 0

-----------------------------------------------------------------------------
(* rankedCount and getRankedStatementsPage, read in one go.  Beyond the    *)
(* end the call reverts; like an empty page, that changes nothing.         *)
PageAt(forum, offset) ==
  LET ranking == ranked[forum]
      length == IF offset >= Len(ranking) THEN 0
                ELSE IF offset + PageSize <= Len(ranking) THEN PageSize
                ELSE Len(ranking) - offset
  IN  [count |-> Len(ranking),
       statements |-> [i \in 1..length |-> <<forum, ranking[offset + i]>>]]

(* The effect on a page that was read: it lands at the offset shown now. *)
Merged(f, page) ==
  IF page = Unread \/ page.statements = <<>> THEN f
  ELSE LET last == f.offset + Len(page.statements)
       IN  [f EXCEPT
             !.shown = [i \in DOMAIN @ \cup (f.offset + 1..last) |->
                          IF i \in f.offset + 1..last THEN page.statements[i - f.offset]
                          ELSE @[i]],
             !.hasMore = last < page.count]

(* What RankedBrowse shows when the home page shows a forum's feed: a      *)
(* mount starts afresh; another forum resets the state, but the page of    *)
(* the old offset, if it was cached, is merged before the offset is zero.  *)
FeedOf(forum) ==
  IF forum = feed.forum THEN feed
  ELSE IF Nowhere \in {forum, feed.forum}
  THEN IF forum = Nowhere THEN Fresh(forum)
       ELSE Merged(Fresh(forum), pages[forum][0])
  ELSE LET reset == [Fresh(forum) EXCEPT !.offset = feed.offset]
           merged == Merged(reset, pages[forum][feed.offset])
       IN  Merged([merged EXCEPT !.offset = 0], pages[forum][0])

-----------------------------------------------------------------------------
(* The page of the current offset is read, first and with every block. *)
ReadPage ==
  /\ feed.forum # Nowhere
  /\ LET page == PageAt(feed.forum, feed.offset)
     IN  /\ pages' = [pages EXCEPT ![feed.forum][feed.offset] = page]
         /\ feed' = Merged(feed, page)
  /\ UNCHANGED <<ranked, changes>>

(* handleLoadMore, when the visitor reaches the end of the list. *)
LoadMore ==
  /\ feed.forum # Nowhere
  /\ feed.hasMore /\ ~feed.pausing /\ pages[feed.forum][feed.offset] # Unread
  /\ feed.offset + PageSize \in Offsets
  /\ feed' = Merged([feed EXCEPT !.offset = @ + PageSize, !.pausing = TRUE],
                    pages[feed.forum][feed.offset + PageSize])
  /\ UNCHANGED <<ranked, pages, changes>>

PauseEnds ==
  /\ feed.pausing
  /\ feed' = [feed EXCEPT !.pausing = FALSE]
  /\ UNCHANGED <<ranked, pages, changes>>

RankingChanges(forum, ranking) ==
  /\ changes < MaxChanges /\ ranking # ranked[forum]
  /\ changes' = changes + 1
  /\ ranked' = [ranked EXCEPT ![forum] = ranking]
  /\ UNCHANGED <<feed, pages>>

FeedStep ==
  \/ ReadPage \/ LoadMore \/ PauseEnds
  \/ \E forum \in Feeds : \E ranking \in Rankings[forum] : RankingChanges(forum, ranking)

-----------------------------------------------------------------------------
(***************************************************************************)
(* Once the ranking rests, the page loaded last is the chain's, and the    *)
(* list knows whether there is more.  Earlier pages and the tail of a list *)
(* that became shorter are as they were read.                              *)
(***************************************************************************)
LastPageFresh ==
  <>[](feed.forum # Nowhere =>
         LET page == PageAt(feed.forum, feed.offset)
             last == feed.offset + Len(page.statements)
         IN  page.statements # <<>> =>
               /\ \A i \in DOMAIN page.statements :
                    /\ feed.offset + i \in DOMAIN feed.shown
                    /\ feed.shown[feed.offset + i] = page.statements[i]
               /\ feed.hasMore = (last < page.count))

(***************************************************************************)
(* The list asks for no page that starts beyond the ranking it was read    *)
(* from last.  It does not hold: the page of a ranking that shrank below   *)
(* its start is refused and asked for again (Forum.sol:190).               *)
(***************************************************************************)
EndIsReached ==
  feed.forum # Nowhere /\ pages[feed.forum][feed.offset] # Unread =>
    feed.offset <= pages[feed.forum][feed.offset].count

(***************************************************************************)
(* The home page never mixes forums: whatever is merged, from the cache or *)
(* from the chain, before and after the forum changes, belongs to the      *)
(* forum on the screen (votes go to that forum, by number).                *)
(***************************************************************************)
ShownIsOfForum ==
  \A i \in DOMAIN feed.shown : feed.shown[i][1] = feed.forum

=============================================================================
