---------------------------- MODULE LocalRecords ----------------------------
(***************************************************************************)
(* What the web client keeps in the browser's local storage for each chain,*)
(* forum and account (CreateStatementForm.tsx, useLocalStorageSet.ts and   *)
(* the sweep of Forum.tsx): the draft of a new statement, which the form   *)
(* of the page "write" loads and saves by a timer, and the bookmarks,      *)
(* which several tabs change; and the nickname of an account               *)
(* (useUserIdentity.ts, useLocalStorageValue.ts).  A record is found by a  *)
(* key, and the key may change under a form that is being filled in.       *)
(***************************************************************************)
EXTENDS ForumRoute

CONSTANTS
  Accounts, Anonymous,
  Texts, NoText,         \* NoText: an empty text and no initial support
  Ids,                   \* statements to be bookmarked
  Nicknames, NoNickname,
  MaxEdits               \* of texts, bookmarks and nicknames

ASSUME LocalRecordsAssumption ==
  Anonymous \in Accounts /\ NoText \notin Texts /\ MaxEdits \in Nat

VARIABLES
  account,     \* whose address the wallet shows
  drafts,      \* the stored drafts, by key
  form,        \* CreateStatementForm, where it is mounted
  bookmarks,   \* the stored sets, by key
  starred,     \* the set the page shows
  nicknames,   \* the stored nicknames, by account
  nickname,    \* the one the page shows
  news,        \* the records whose storage events have yet to be handled
  edits

nameVars == <<nicknames, nickname>>

recordVars == <<account, drafts, form, bookmarks, starred, nameVars, news, edits>>

Keys == {"chain", "unknown"} \X Forums \X Accounts

KeysOfChain == {"chain"} \X Forums \X Accounts

(* createDraftStorageKey, and storageKey of useLocalStorageSet: none while *)
(* the chain is not known.                                                 *)
Key == IF fingerprint = None THEN None ELSE <<fingerprint, forum, account>>

NoForm == [open |-> FALSE, text |-> NoText, key |-> None, hydrated |-> FALSE,
           timer |-> FALSE, leaving |-> None, typed |-> FALSE, carried |-> FALSE]

FormOpen == route.page = "write" /\ route.slug \in Forums

LoadDraft(key) == drafts'[key]

(* A slip: the draft is loaded once, whatever the key becomes. *)
HydratedOnce(f, key) ==
  IF key = None THEN f
  ELSE [f EXCEPT !.key = key, !.hydrated = TRUE,
                 !.text = IF f.hydrated THEN @ ELSE LoadDraft(key)]

(* The first effect: a form that already holds a text takes it along to    *)
(* the new key, an empty one loads what is stored there.  Whether the      *)
(* visitor has typed under the key, and whether the form came to it with a *)
(* text, is what the property below refers to.                             *)
Hydrated(f, key) ==
  IF key = None THEN [f EXCEPT !.key = None, !.hydrated = FALSE]
  ELSE IF f.key = key THEN f
  ELSE IF f.text # NoText
  THEN [f EXCEPT !.key = key, !.hydrated = TRUE, !.typed = FALSE, !.carried = TRUE]
  ELSE [f EXCEPT !.key = key, !.hydrated = TRUE, !.text = LoadDraft(key),
                 !.typed = FALSE, !.carried = FALSE]

(* The form f after rendering under a key.  The second effect starts the   *)
(* pause of 300 ms again for a changed text or key.                        *)
RenderedForm(f, key) ==
  LET g == Hydrated(f, key)
      same == <<g.text, g.key, g.hydrated>> = <<form.text, form.key, form.hydrated>>
  IN  [g EXCEPT !.open = TRUE,
                !.timer = IF same THEN f.timer ELSE g.hydrated /\ key # None]

Snapshot == IF Key = None THEN {} ELSE bookmarks[Key]

(* Identities that are not verified share an entry that is never written. *)
StoredNickname == nicknames[account]

RecordInit ==
  /\ account \in Accounts
  /\ \E key \in KeysOfChain, text \in Texts \cup {NoText} :
       drafts = [k \in Keys |-> IF k = key THEN text ELSE NoText]
  /\ bookmarks = [k \in Keys |-> {}]
  /\ form = [NoForm EXCEPT !.open = FormOpen]
  /\ starred = {} /\ news = {}
  /\ nicknames = [a \in Accounts |-> NoNickname] /\ nickname = NoNickname
  /\ edits = 0

-----------------------------------------------------------------------------
(* The form, its effects and the page after a step; base is the form as    *)
(* the step leaves it.  A storage snapshot is read anew when its key is.   *)
RenderRecords(base) ==
  /\ form' = IF FormOpen' THEN RenderedForm(base, Key') ELSE NoForm
  /\ starred' = IF Key' # Key THEN Snapshot' ELSE starred
  /\ nickname' = IF account' # account THEN StoredNickname' ELSE nickname
  /\ news' = {n \in news : IF n = "nickname" THEN account' = account ELSE Key' = Key}

(* A step of the address, of the forum or of the chain: the sweep removes  *)
(* the records of any other chain.                                         *)
RouteRecords(step) ==
  /\ step
  /\ LET swept == fingerprint = None /\ fingerprint' = "chain"
     IN  /\ drafts' = [k \in Keys |-> IF swept /\ k[1] # "chain" THEN NoText ELSE drafts[k]]
         /\ bookmarks' = [k \in Keys |-> IF swept /\ k[1] # "chain" THEN {} ELSE bookmarks[k]]
  /\ UNCHANGED <<account, nicknames, edits>>
  /\ RenderRecords(form)

(* The visitor connects a wallet, disconnects it or selects another account. *)
SwitchAccount(a) ==
  /\ a # account /\ Move
  /\ account' = a
  /\ UNCHANGED <<route, forum, stored, welcomed, synced, navigating, wanted,
                 fingerprint, drafts, bookmarks, nicknames, edits>>
  /\ RenderRecords(form)

ReloadRecords ==
  /\ ReloadRoute
  /\ form' = [NoForm EXCEPT !.open = FormOpen]
  /\ starred' = {} /\ nickname' = StoredNickname /\ news' = {}
  /\ UNCHANGED <<account, drafts, bookmarks, nicknames, edits>>

Edit == edits < MaxEdits /\ edits' = edits + 1

Type(text) ==
  /\ form.open /\ form.leaving = None /\ text # form.text /\ Edit
  /\ UNCHANGED <<routeVars, account, drafts, bookmarks, nicknames>>
  /\ RenderRecords([form EXCEPT !.text = text, !.typed = TRUE])

(* The debounced save: a blank draft is removed. *)
SaveDraft ==
  /\ form.timer
  /\ drafts' = [drafts EXCEPT ![form.key] = form.text]
  /\ form' = [form EXCEPT !.timer = FALSE]
  /\ UNCHANGED <<routeVars, account, bookmarks, starred, nameVars, news, edits>>

(* handleCreate and handleCancel: the draft is removed at once, the page   *)
(* changes a moment later, and until then the timer of the form runs on.   *)
Close(page) ==
  /\ form.open /\ form.leaving = None
  /\ form' = [form EXCEPT !.leaving = page]
  /\ drafts' = IF Key = None THEN drafts ELSE [drafts EXCEPT ![Key] = NoText]
  /\ UNCHANGED <<routeVars, account, bookmarks, starred, nameVars, news, edits>>

Create == form.text # NoText /\ account # Anonymous /\ Close("other")

Cancel == Close("home")

Leave ==
  /\ form.leaving # None
  /\ RouteRecords(RedirectTo(At(form.leaving, forum, NoQuery)))

-----------------------------------------------------------------------------
Toggled(set, id) == (set \ {id}) \cup ({id} \ set)

(* A slip: the browser does not tell a tab of its own writes. *)
ToggledUntold(id) ==
  /\ Key # None /\ Edit
  /\ bookmarks' = [bookmarks EXCEPT ![Key] = Toggled(@, id)]
  /\ UNCHANGED <<routeVars, account, drafts, form, starred, nameVars, news>>

(* toggle: what is stored is read, changed and written in one go, and the  *)
(* hooks of this tab are told by an event of their own.                    *)
ToggleBookmark(id) ==
  /\ Key # None /\ Edit
  /\ bookmarks' = [bookmarks EXCEPT ![Key] = Toggled(@, id)]
  /\ UNCHANGED <<routeVars, account, drafts, form, nameVars, news>>
  /\ starred' = Snapshot'

(* Another tab of this chain, of any forum and account, does the same; this *)
(* one is told by a storage event.                                         *)
OtherTabToggles(key, id) ==
  /\ Edit
  /\ bookmarks' = [bookmarks EXCEPT ![key] = Toggled(@, id)]
  /\ news' = news \cup (IF key = Key THEN {"bookmarks"} ELSE {})
  /\ UNCHANGED <<routeVars, account, drafts, form, starred, nameVars>>

StorageEvent ==
  /\ "bookmarks" \in news
  /\ news' = news \ {"bookmarks"}
  /\ starred' = Snapshot
  /\ UNCHANGED <<routeVars, account, drafts, form, bookmarks, nameVars, edits>>

(* setNickname, of a verified identity, in this tab or in another one. *)
SetNickname(name) ==
  /\ account # Anonymous /\ Edit
  /\ nicknames' = [nicknames EXCEPT ![account] = name]
  /\ nickname' = name
  /\ UNCHANGED <<routeVars, account, drafts, form, bookmarks, starred, news>>

OtherTabNames(a, name) ==
  /\ a # Anonymous /\ Edit
  /\ nicknames' = [nicknames EXCEPT ![a] = name]
  /\ news' = news \cup (IF a = account THEN {"nickname"} ELSE {})
  /\ UNCHANGED <<routeVars, account, drafts, form, bookmarks, starred, nickname>>

NicknameEvent ==
  /\ "nickname" \in news
  /\ news' = news \ {"nickname"}
  /\ nickname' = StoredNickname
  /\ UNCHANGED <<routeVars, account, drafts, form, bookmarks, starred, nicknames, edits>>

RecordStep ==
  \/ \E a \in Accounts : SwitchAccount(a)
  \/ ReloadRecords
  \/ \E text \in Texts \cup {NoText} : Type(text)
  \/ SaveDraft \/ Create \/ Cancel \/ Leave
  \/ \E id \in Ids : ToggleBookmark(id)
  \/ \E key \in KeysOfChain, id \in Ids : OtherTabToggles(key, id)
  \/ \E name \in Nicknames : SetNickname(name) \/ \E a \in Accounts : OtherTabNames(a, name)
  \/ StorageEvent \/ NicknameEvent

-----------------------------------------------------------------------------
RecordTypeOK ==
  /\ account \in Accounts
  /\ drafts \in [Keys -> Texts \cup {NoText}]
  /\ bookmarks \in [Keys -> SUBSET Ids] /\ starred \subseteq Ids
  /\ form.key \in Keys \cup {None}
  /\ nicknames \in [Accounts -> Nicknames \cup {NoNickname}]
  /\ nicknames[Anonymous] = NoNickname /\ news \subseteq {"bookmarks", "nickname"}

(***************************************************************************)
(* A stored draft of this chain is removed when its own form is closed,    *)
(* and is otherwise replaced by the text of the form alone, under the key  *)
(* the form has, after the visitor has typed in it under that key, or has  *)
(* carried a text to it from another forum or account: the second is a     *)
(* loss, for the draft that was stored there has never been shown.         *)
(* Opening the form, switching the forum or the account of an empty one    *)
(* and reloading the page cost no draft, although each of them starts the  *)
(* timer that saves, and no step costs the draft of another key.           *)
(***************************************************************************)
DraftIsKept ==
  [][\A k \in KeysOfChain :
       drafts[k] # NoText /\ drafts'[k] # drafts[k] =>
         \/ k = Key /\ drafts'[k] = NoText /\ form.leaving = None /\ form'.leaving # None
         \/ k = form.key /\ drafts'[k] = form.text /\ (form.typed \/ form.carried)
    ]_<<routeVars, recordVars>>

(***************************************************************************)
(* When the visitor and the other tabs rest, the page shows the bookmarks  *)
(* and the nickname that are stored for its chain, forum and account: all  *)
(* hooks on a key "stay in sync", across tabs and within one               *)
(* (useLocalStorageSet.ts:46-48, useLocalStorageValue.ts:21-23).           *)
(***************************************************************************)
RecordsSettle == <>[](starred = Snapshot /\ nickname = StoredNickname)

(***************************************************************************)
(* A closed form leaves no draft.  It does not hold: the timer may fire    *)
(* between the removal and the change of the page                          *)
(* (CreateStatementForm.tsx:116-134, 153-179).                             *)
(***************************************************************************)
ClosedLeavesNoDraft ==
  [][form.leaving # None /\ form'.leaving = None /\ form.key # None =>
       drafts[form.key] = NoText]_<<routeVars, recordVars>>

=============================================================================
