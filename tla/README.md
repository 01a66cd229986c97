# A TLA+ model of Symvolia (ourvoice)

Symvolia is a public forum whose statements are ranked by the support of
verified people. A person proves with a passport who they are, gets credits, and
spends them on statements. Support costs quadratically, fades with a half-life
of a week, and a bounded list holds the strongest statements. The contracts
(`src/blockchain`) hold the truth; a web client (`src/frontend`) stages a
member's changes and commits them in one transaction; a Python back end
(`src/backend`) indexes statements for search, decides whose transactions are
sponsored and relays RPC requests; a worker in the browser keeps a local search
index; CI deploys and reconciles forums, and a Cloudflare worker serves the site.

This directory holds TLA+ modules translated from that code, TLC configurations
that check them on small instances, and theorems that TLAPS checks for every
value of the constants. `PROJECT.json` names for every definition the lines it
stands for, and lists the hazards at the line where each bites.

## 1. The system

| Component (module) | State | Operations | What makes it hard | What makes it correct |
|---|---|---|---|---|
| **Forum contract** `Forum.sol` (SupportDecay, StatementRanking, Statements, RankingHistory, UserSupports, MemberAccount, Forum) | aggregate support, rank, peak rank, time of the last engagement event, `statementRankings`/`rankedCount`; per member supports, list of supported statements, credits | `addStatement`, `adjustSupport` (a batch), both through `multicall` | everything decays while nobody writes; the list is repaired around one statement per adjustment; lists are compacted in place; a batch reverts as a whole | list and ranks agree and are sorted; nobody gains credits; no support is lost from view; the aggregate drifts from the sum of its parts by rounding alone |
| **Decay arithmetic** `DecayUtils.sol` (DecayUtils, DecayedSupport) | none | `approxDecay` | fixed point in one word, bits dropped early, rounding per write-back | close to the exponential, in order, bounded drift |
| **Registry** `ISymvoliaRegistry.sol`, `SymvoliaRegistry.sol` (Registry) | address -> person, person -> registration | `register` | two mappings, repeated proofs from several addresses | bindings agree in both directions and never change |
| **Verification page** `GetVerified.tsx` (Verification) | step, phase, requests to the phone, transactions | walk, scan, submit, retry | callbacks of former requests, another account, a wallet that answers late | a submission discloses what was chosen; verified means registered |
| **Registration hook** `useUserRegistration.ts` (UserRegistration) | two cached queries | refetch per block | the second query depends on the first; the account changes | shows in the end what the registry holds |
| **Support state of the client** `UserVotes.tsx` (CommitReducer, UserVotes) | on-chain copy, staged edits, baseline and submitted clocks, pending hash, status; two keys of local storage | the reducer's actions, seven effects | a commit is recognised only by the account's clock; other devices, reload, timeout, smart wallets, another forum | no edit is lost or applied twice; confirmed means landed; the spinner ends |
| **Staged support** `UserVotes.tsx`, cards, forms, allocation bar (StagedVotes) | adjustments, new statements, draft | stage, merge, switch, drop, edit | credits on cards, fractions of parts in the reducer, rounded parts on chain | a card shows what was asked; enough credits means accepted |
| **Contract writes and sponsorship** `useContractWrite.ts`, `gas_sponsorship/*` (ContractWrites) | dialog, fee, user operations, leaky bucket | preview, acknowledge, sponsored send, fallback | a failed send may have been accepted; repeated webhooks; a preview that reserves nothing | executed once; charged once; within budget |
| **Local search** `LocalSearch.tsx`, `localSearch/*` (LocalSearch) | documents, vectors, cursor; the workers' indexes (LRU); IndexedDB | full sync, delta, switch of forum or engine, reload | asynchronous steps interleave at awaits; eviction; failed requests | forums are kept apart; the cursor covers what it passed; what was engaged is found |
| **Search box** `useSearch.ts`, `SearchField.tsx` (SearchBox) | query, hits, request counter | debounce, request, answer | answers out of order, box cleared, another forum | hits belong to the query and forum on screen |
| **Home feed** `Home.tsx` (RankedFeed, HomePage) | statements read, offset, cached pages | read, next page | a ranking that changes under the pages; another forum | the feed never mixes forums; the last page is fresh |
| **Routing** `App.tsx`, `Forum.tsx` (ForumRoute) | address, context, stored forum, welcome flag | choose, navigate, back, reload | two sources of truth that update one after the other | the address decides and nothing bounces |
| **Records in the browser** `useLocalStorageSet.ts`, `CreateStatementForm.tsx`, ... (LocalRecords, Browser) | bookmarks, nickname, draft | toggle, type, save by timer, restore | keys change under a form; two tabs | a draft changes only by its own form, or by a text carried over; tabs agree |
| **Indexer** `indexer.py` (Indexer) | cursor and documents in Meilisearch | rounds of batches, eviction sweep | crash, exception with other coroutines running on, failed tasks | nothing below the cursor is skipped; engagement never goes back |
| **Deployment** scripts and workflows (Deployment, Networks) | chain, Ignition's journal, artifact, generated files, hosted site | deploy, reconcile, dispatch | half-done runs, rejected pushes, edits meanwhile | served forums stay; files agree; what is configured comes |
| **Seeding** `seed-*.ts` (Seeding) | plan of votes, workers, mining | seed in phases | remainders and the author's own vote, budgets, mining switched in two requests | votes add up to the targets; mining is restored |
| **Cloudflare worker** (SiteProxy) | edge cache, browser cache, builds | serve, fall back, deploy | builds replace each other while files are cached | the site that is opened runs |
| RPC relay, search service, hit ranking, chart, presentation | none, or presentation only | - | - | not modelled, see 6 |

Interaction in one line: the client stages changes, commits them through a
contract write (sponsored or not) to `Forum`, which asks `Registry` who calls and
`DecayUtils` what is left of a support; `Forum` emits events, which the indexer
and the local search read to build their indices; the account's `lastUpdated` is
how the client learns that a commit landed.

## 2. Modules

    DecayUtils <- DecayedSupport                         <- MCDecayedSupport
    SupportDecay <- StatementRanking* <- Statements <- RankingHistory <- MCStatements
    SupportDecay <- UserSupports      <- MemberAccount   <- MCMemberAccount
    Statements, MemberAccount (INSTANCE) <- Forum        <- MCForum
    Registry <- Verification, UserRegistration (INSTANCE) <- MCVerification
    CommitReducer <- UserVotes                           <- MCUserVotes
    UserSupports <- StagedVotes;  ContractWrites         <- MCCommits
    Indexer                                              <- MCIndexer
    LocalSearch (run as it is)
    ForumRoute, SearchBox, RankedFeed <- HomePage
    HomePage, LocalRecords <- Browser                    <- MCBrowser
    Deployment, Seeding, SiteProxy <- Networks           <- MCNetworks
    Induction <- AccountProofs (MemberAccount, StagedVotes),
                 StatementsProofs (RankingHistory, DecayUtils), ForumProofs (Forum, Browser),
                 SearchProofs (Indexer, LocalSearch), CommitProofs (UserVotes, ContractWrites),
                 NetworksProofs (Networks)
    VerificationProofs (Registry, Verification)

(* `StatementRanking` is a module of pure operators that `Statements` extends
beside `SupportDecay`.)

### The contracts

**DecayUtils** is `approxDecay` step by step: whole half-lives by a right shift,
one multiplication per set bit of the rest of the time, the early shift that
keeps a product within the word, one rounding shift at the end. The contract's
twenty written-out blocks are one operator applied along the table (`Rounds`). Word
width, half-life and table are constants, so TLC evaluates the same algorithm on a
scaled table. **DecayedSupport** is one stored amount over time, with
`_updateSupportToBeCurrent` as its action.

**SupportDecay** has `_decayValue` and `_getCurrentSupportValue` for the modules
above it. They take the decay function as the constant `ApproxDecay` and state
what they need of it as assumptions (it keeps the sign and shrinks, more so as
time goes on). TLC instances use the scaled `DecayUtils`, tabulated once, so the
assumptions are evaluated for it; the proofs about the forum use nothing else of it,
and that `approxDecay` meets the first of them is itself proved.

**StatementRanking** is `_rankingMaintenance`, `_getRankingThreshold`,
`_setStatementRank`, `_getStatementRank` and `_updateStatementRanking`. The
contract swaps a statement through the array; the model computes the place where
the loop stops and shifts the block between. Places past `rankedCount` keep
their contents, as in the contract. **Statements** is the half of
`addStatement`/`adjustSupport` that does not depend on the caller.
**RankingHistory** adds one history variable, `swapped`: a second has passed that
brought the list out of order by rounding alone. What the contract promises of
the list it keeps until then (finding 1); a call that leaves it unsorted does not
set the variable.

**UserSupports** is the cost of support, the refund penalty and
`_updateUserSupportedStatements` (reuse of an empty slot, compaction).
**MemberAccount** is the half that belongs to one member. `Add` and `Adjust` are
the two calls; a batch is a function of the number of rounds done, on a draft
that becomes the state or is dropped (revert). `OtherAdds` stands for statements
by others. **Forum** composes them: one `Statements` and one `MemberAccount` per
user, each transaction one step of both.

**Registry** is `register` with every reason to revert and `_registerHelper`. A
proof is a record with the person, the disclosed nationality, the address it
names and a verdict; what the verifier does is the verdict. `isMember` of a
forum with a nationality is modelled here; `MemberAccount.IsMember` is only
"registered by now", so it admits every caller the contract admits and, for a
forum with a nationality, more: invariants carry over.

### The client

**CommitReducer** is the part of the reducer that follows a commit, as functions
on its state (`SyncOnChainState`, `TransactionSubmitted`, `CommitError`,
`RestorePendingCommit`, ...). **UserVotes** is the provider around it: which
query has answered with what, the effects that run after a render (`Render`
saves what the code's effects save), the wallet call and its 30-second timer,
the receipt, the two modals, reload, another forum, another device. An edit is
a member of a set; the chain counts how often it was applied. A transaction is
*outstanding* while it may still land, and also while its wallet call is awaited:
a hash that arrives then is tracked like any other, whatever has become of the
transaction. `history.excuses`
records behaviours in which the code gives no guarantee (findings 7-10); the
properties name them and claim nothing after them.

**StagedVotes** has the amounts behind the edits: the unstaged, staged and
merged forms of an adjustment, `SWITCH_USER_SUPPORT`, the conversions of
`util.ts`, what the reducer believes the commit costs, what the bar shows
(`CreditAllocation`), and what the contract does with the same multicall
(`ForumCharges`, `Accepted`, with the operators of UserSupports).

**ContractWrites** is one commit's way from the dialog to the chain, with the
fee preview that may answer after the dialog was closed and opened again, the
sponsored send, the policy webhook (delivered again at will, decisions
remembered for a while), the leaky bucket (what an identity has spent is the sum
over its operations), the bundler that may accept an
operation whose send failed, and the self-funded fallback. **MCCommits** lets a
behaviour follow a commit's amounts or its way to the chain, which share no state.

**LocalSearch** has one action per await: `LoadForumIndex`, `ReadHead`,
`ReadRanked`, `ReadChain`, `Indexed`, ... of a full sync and `DeltaHead`, `DeltaLogs`, ... of a
delta go on when the request or the worker answers, whatever the page does
meanwhile; `IsStale` and `SameForum` are what the code asks then. A document is the forum whose text it
is, which tells whether anything was mixed. Both workers have their own LRU of
indexes; the hybrid one embeds with a model that may fail to load.

**Verification** is the page in front of `Registry` and **UserRegistration** the
hook that everything else reads; **MCVerification** lets a behaviour follow one
of the two, which share the registry and the account.

**ForumRoute** keeps address and context, **SearchBox** the query and its
requests, **RankedFeed** the pages of the ranking; **HomePage** mounts box and
feed in turn, **LocalRecords** has the records in local storage, and **Browser**
lets a visitor be on the home page or on the form. The address, the forum and
the fingerprint of ForumRoute are what they share.

### Back end, deployment, site

**Indexer** has a round as a set of jobs, one per forum, each of which indexes a
batch and is awaited by the others; an exception abandons the round but not the
coroutines already running, which is why jobs outlive it. Block numbers are
timestamps.

**Deployment** has runs on checkouts: each step of a workflow is an action, any
of them may fail, a push is refused when the branch moved, and an accepted one starts a
run unless a workflow made it. **Seeding** is the plan, its workers and the mining of
the node: it is asked for automine and for the interval in two requests, by the shell
script around the standard data and by the stress test itself, either of which may
be refused (`RequestFails`). **SiteProxy** is the worker, the edge, which keeps an
answer for an hour or less, and one browser; **Networks** lets a behaviour follow one
of three: a public network's contracts, a local network, or a site.

Operators that a comment calls *a slip* are wrong variants of the definition
that follows them. No specification uses them. They record for each property a
plausible mistake in the code that the property would notice; `PROJECT.json`
("mutants") pairs them up. Properties that a comment says do not hold are claims
of the code's comments that TLC refutes (see Findings). The run `rounding` shows the
most serious one; no run lists the others.


## 3. Runs

| Run | States | Bounds | What it shows |
|---|---|---|---|
| `decay` | 10.8 k | half-life 4 s, 8-bit multipliers, 18-bit word, amounts -15..15, 10 s, 4 write-backs | `DecayIsFair`: within one unit of the exact exponential (compared in fourth powers, no reals), order and sign kept. `TouchDrift`: one unit of drift per write-back. 2.5 half-lives meet 0-2 halvings with every remainder; the word is so short that the pre-shift happens. |
| `ranking` | 1.5 M | 3 statements, list of 2, bar 1, timestamps 1-4, a tick half a half-life, amounts 0-3, engagement window 1 s | Decay rounds here as it does in production, so time may swap two neighbours; what depends on the order of the list is claimed until it has. `RankingSound`: peaks cover ranks always; ranks and list inverse to each other and sorted until then. `PlacesAreEarned`: the statement a call moves last is ranked or rightly left out until then, a peak never gets worse. All paths occur: rise, sink, fall below the bar, eviction from a full list, maintenance of decayed entries. |
| `rounding` | (violation) | list of 3, bar 2, amounts 0-5, otherwise as above | Finding 1: `RankConsistency` without the condition. TLC finds a second that swaps two neighbours, and a call after it that takes the wrong one off the list. |
| `account` | 174 k | 3 statements, batches of up to 2, allowance every 2 s, penalty 20 % | `NoFreeCredits`: no sequence of stakes, moves, withdrawals and waiting yields credits. `AccountIsKept`: a support is always listed, the clock moves with every change. |
| `forum` | 25 k | 2 members, one registered later, 2 statements, list of 1, batches of 2, timestamps 2-4, a tick half a half-life, amounts up to 5 | `ImplementsBoth`: the composition refines `Statements` and every `MemberAccount`, so what is checked of the parts holds in the whole. `SupportIsSum`: with `k` members whose support was ever written, the aggregate is within `(k-1)` per second that has passed of what they have; with one member it is exact. The amounts 2 and 1 round both ways, a stored 2 shows 1 after one second and still after two, so the parts do drift from the whole. |
| `verification` | 1.2 M | 2 addresses, 2 people, 1 nationality, 1 change of account, 1 transaction, 2 visits | `BindingsHold`, `NothingIsTaken`: the registry under the page's and anybody's calls. `DisclosedAsChosen`, `VerifiedMeansRegistered`: the page, with callbacks of requests it has given up. `StatusCatchesUp`: the hook. |
| `votes` | 452 k | 2 edits, 2 commits, one reload, one switch of forum, one call from elsewhere, at most 3 of these and edits together | `AppliedOnce`, `NoLostWork`, `ConfirmedMeansLanded`; `SpinnerEnds`, `LandedIsRecognised`, `CatchesUp`. |
| `commits` | 1.8 M | amounts: 3 statements, 2 on cards, 2 staged, 2 parts per credit, penalty 20 %, one tick of decay, one move by others; way to the chain: 4 operations of weight 1 or 2, 3 openings of the dialog, bucket of 2 leaking 1 per tick, 3 ticks, memory of 1 tick | `CardShowsWhatWasAsked`, `CreditsAreHonest`: what the client says is affordable is what the contract accepts, with rounding and decay in between. `ExecutedOnce`: never both sends. `BucketHolds`: within budget, each operation charged once however often the webhook is repeated. `FeeIsTrue`: the fee shown is of the opening on screen, and is found. |
| `search` | 1.4 M | 2 forums, 2 statements (one ranked), both engines, one index per worker, 3 blocks, 2 restarts, 2 deltas, 1 failure | `ForumsAreKeptApart`, `IndexIsComplete`; `EngagedIsFound`. One index per worker makes every switch an eviction. |
| `indexer` | 698 k | 2 forums with a statement each, 3 blocks, batches of 2, lookback 1, age 1, 1 failure, 2 crashes | `NothingIsSkipped`, `EngagementIsKept`; `EventuallySearchable`. |
| `browser` | 1.6 M | 2 forums, 2 statements, pages of 1, 2 queries, 2 moves, 1 change by others, 2 edits of records, 2 tabs | `ForumIsKept`: the context never bounces back to an address that was left, and the list never mixes forums. `DraftIsKept`: a stored draft changes under its own form's key alone, by typing, closing, or a text the form carried there from another key. `ForumFollowsRoute`, `HomeSettles`, `RecordsSettle`. |
| `networks` | 1.2 M | 3 forums to configure, 2 edits, 1 dispatch, 1 failed step, 1 wipe, 2 of the last three; 3 seeded users with 1 or 2 workers and 8 credits, where the dearest plan costs 9; 2 builds, 1 gateway error | `DeploymentsAgree`; `ConfiguredIsDeployed`: also after a rejected push, and after a failed run that another push follows. `VotesMeetTargets`; `MiningIsRestored`: also when a check, a call or the price of a plan stops the seeding. `SiteRuns`. |

Constants are small where the code's are large (production: bar 10,000,000,
1000 places, allowance interval 14400 s, adjustment interval 12 s, penalty
2000 bps, `creditMultiplier` 10^6), but every comparison in the code is between
two of them or a variable and one of them, and each bound puts values on both
sides. `MaxSupport` bounds amounts: a call beyond it reverts in the model as an
overflow would. `MaxTime`, `MaxHead`, `MaxStatements` and the other `Max...`
constants end a behaviour, so the runs do not check for deadlock. Each of them
appears in a guard, except in `votes`, where the constraint `Unexcused` also
leaves out behaviours that have met an excuse (below): the properties claim
nothing after one. `forum` has three timestamps because the product of two
accounts and the ranking is too large with four; an account is checked with four.

Most properties of a run are conjunctions of named parts, each with its own
comment. Every module also has a type invariant; those that no run lists
(`Forum`, `StagedVotes`, `UserVotes`, `Indexer`, `ForumRoute`, ...) hold of the
same instances and can be added to the configuration.

### Fairness and why it is justified

The contracts have no process of their own: nothing must happen there. What the
code does by itself is weakly fair, what a person, another device or the network
decides is not.

- `UserVotes`: the fingerprint arrives, React runs the queued renders, each
  query answers, the block number is polled (four seconds) and empty blocks are
  mined, a receipt is reported for what has landed, the timer fires, a wallet
  that submitted returns the hash. Nobody must press a button, and no
  transaction must ever be included.
- `ContractWrites`: a fee preview answers. Neither the bundler nor the webhook
  must.
- `LocalSearch`: an await ends, with an answer or an error, and a block-sync
  tick starts a delta.
- `Indexer`: the process is restarted by its supervisor, polls, and the awaited
  coroutines go on. New blocks, failures and crashes are bounded, as "in the end"
  needs.
- `Verification`'s hook: both queries are refetched on every block.
- `Browser`: effects run after a render, timers fire, requests answer, and a
  storage event reaches the other tab.
- `Deployment`: a workflow that was triggered runs its steps, each of which may
  fail within `MaxFailures`; a push to `develop` triggers the reconcile. `Seeding`: a
  script goes on. `SiteProxy`: a request is served, and the site is opened again
  and again (strong fairness: whether it can be opened comes and goes with
  requests under way).

### What the client's guarantees exclude

`UserVotes` keeps in `history.excuses` which of the following happened, all of
them reachable: *dismissed* (the error of a commit was closed while its
transaction was outstanding), *unsaved* (reload before the edits or the hash
could be saved, or while the wallet call was awaited), *kept* (the member chose to
keep outdated changes), *early* (an edit before key or clock were known), *late*
(the fingerprint restores over newer edits), *revived* (restore after a confirmed
commit), *carried* (another forum with the state of the last one).
`LocalSearch` has `past.crossed` (a step awaited across a change of forum or
engine) and `past.broken` (full sync or worker failed), `Indexer` has
`history.repeated` (a round ran again after an exception). A property that names
an excuse says what the code guarantees without it; that the excuse is needed is
a finding.

### Findings

Met while translating. Each names the property that states what the comment
promises; TLC refutes it within seconds when it is added to the configuration of
its module's run, with the changes noted (for `votes`, without `Unexcused`).

*Contracts*

1. Supports written at different times round differently as they decay, so two
   neighbours of the list can swap order without a call. A statement that falls
   below the bar then stops before the end of the list, and the code takes *the
   last place* off (`Forum.sol:343`; the comment says "unrank it and compact the
   array"). A statement that is still above the bar loses its place, while the
   one that fell stays. With the production constants: A staked 10,119,000 at
   t=0, B 10,118,861 at t=12 s; at t=10322 s A shows 9,999,999 and B 10,000,000,
   with the bar at 10,000,000 and A listed first. (`RankConsistency`; the run `rounding`.)
2. Compaction copies the last *occupied* slot and drops the *last* slot. If that
   one is itself empty, the copied statement is listed twice, and
   `getUserStatementSupport` returns it twice (`Forum.sol:575`; `ListedOnce`, with
   `MaxStatements = 4` and `userStartingCredits = 100`).
3. Every call restarts the allowance interval, so the part that had passed is
   lost; a member who calls more often than once per interval is never credited
   (`Forum.sol:26` says credited each interval, `505`; `AllowanceAccrues`).
4. `lastUpdated` is documented as strictly increasing on every call
   (`Forum.sol:417-418`; `UserVotes.tsx` builds on it), but two calls in one
   block leave it equal (`LastUpdatedAdvances`).
5. `DecayUtils.sol:36` says "rounded to nearest"; whole halvings truncate.
   `CloseToExponential` states the bound that holds, one unit.
6. `getRankedStatementsPage` refuses a start by `statementCount`, but computes
   with `rankedCount` (`Forum.sol:190`): when the ranking shrinks below what the
   home feed has read, the next page fails and is asked for again
   (`EndIsReached`).

*Client*

7. After a reload during a commit, the sync that shows the landing clears the
   edits, and the restore of local storage that runs later puts them back
   (`UserVotes.tsx:1058-1079` against 466-475). They can be committed again
   (`ConfirmedIsCleared`; *revived*).
8. A change of forum keeps the provider's state (`App.tsx:148-165`): staged edits
   show on the other forum, and the first forum's clock is the baseline until
   the next sync (*carried*).
9. A smart wallet reports the hash after the landing; a sync in between takes
   the own commit for a foreign one and opens the outdated dialog, which the
   comment at 486-488 excludes (`OutdatedMeansForeign`).
10. The 30-second timer also runs while the wallet waits for approval
    (`UserVotes.tsx:635`, 644-647). The fingerprint of the chain is read
    asynchronously: it may restore over newer edits (*late*), and when
    `getBlock` fails, storage is swept under the key "unknown"
    (`Forum.tsx:46-61`, 144-160).
11. The sweep also removes `symvolia:welcome:seen`, so the welcome page comes back
    (`welcome.ts:4`; `WelcomeIsRemembered`).
12. The dialog asks for an acknowledgement only when the commit is *expected* to be
    self-funded; the fallback (`useContractWrite.ts:176-185`) and the mobile
    drawer (`UserProfileMenu.tsx:54-57`) send self-funded without one
    (`CommitConfirmationDialog.tsx:54-55`; `SelfFundedIsAcknowledged`).
13. `CreateStatementModal.tsx` passes credits where parts are expected (124) and
    admits 280 characters (25) where the contract admits 120. `hasEnoughCredits`
    nets refunds against charges, while the multicall charges `addStatement`
    first.
14. `LocalSearch`: a delta or embedding awaited across a switch writes another
    forum's results (`LocalSearch.tsx:116`; `StaleStepsBail`); a full sync that failed is
    not retried, since deltas return while the cursor is 0 (251, 271;
    `FailedSyncIsRetried`); documents whose indexing failed in a delta are not
    indexed again (335); a failed model download is cached (`embedder.ts:75-88`).
15. `useSearch.ts:77-81` clears the box without giving up the request under
    way, whose answer then writes its query into the address (`AddressShowsTheBox`).
16. A proof that comes back after a change of account is submitted by the new
    account (`GetVerified.tsx:741-804`; `ProofIsBoundToSender`); the registry rejects it.
17. The draft's debounced save can fire after the form was closed
    (`CreateStatementForm.tsx:116-134`, 153-179; `ClosedLeavesNoDraft`). On a
    change of account or forum the form keeps its text and saves it under the new
    key (100-106), over a draft that was stored there and never shown.
    `DraftIsKept` names this as the one way a draft is lost outside its own form
    (`form.carried`).
18. `SimilarStatements` and `CreateStatementModal` read `statementCount` once, not
    per block, and drop newer hits.

*Back end, deployment, site*

19. A round repeated after an exception rewrites documents with an older
    `lastEngagement` while later rounds' coroutines still run (`indexer.py:697-722`);
    a crash leaves them so. Engagement of a statement that was evicted, or whose
    add failed, makes a document without text, which search never returns.
20. `reconcile` keeps the artifact's `forumOrder`, but the seeding scripts index the
    generated environment by the configuration's order (`seed-stress.ts:241-242`,
    `shared.ts:72-83`). Running `deploy.ts` after a reconcile, with Ignition's state,
    deploys the reconciled forums again. A manual dispatch from another branch
    never triggers `deploy-site`.
21. The Cloudflare worker sends the *immutable* header on error responses as well
    (`index.js:119-124`), and its fall-back answers deep paths with a page whose
    relative assets are resolved below them.
22. `seed-stress.ts` switches automine on and the interval off in two requests
    before the `try` whose `finally` undoes them (298-301): when the second is
    refused, or one of those at the end, the node keeps mining as it was left. In
    `contracts.sh` any refused request ends the script (`set -e`).
    `MiningIsRestored` excludes this as *stranded*.

## 4. Proofs

| Theorem | Says |
|---|---|
| `AccountProofs!AccountTypeCorrect` | types; in particular credits never go negative |
| `AccountProofs!SupportAlwaysListed` | a supported statement is on the member's list |
| `AccountProofs!AccountAlwaysPast` | no stored time in the future, nothing supported that does not exist |
| `AccountProofs!CreditsNeverFree` | balance plus the price of all supports never exceeds what was granted |
| `AccountProofs!SupportAlwaysMovesClock` | no support changes without the clock |
| `AccountProofs!AccountAlwaysKept` | the run's property `AccountIsKept`, from the four above |
| `AccountProofs!CardAlwaysShowsWhatWasAsked` | a card shows the credits last asked of it, whatever was staged, faded, synced or committed before |
| `AccountProofs!CreditsAlwaysHonest` | what bar, panel and commit button say of credits is what the forum does with the multicall, within the rounding the property names |
| `StatementsProofs!RankingAlwaysSound` | peaks cover ranks; every call leaves list and ranks inverse and sorted until a passing second has swapped two neighbours |
| `StatementsProofs!PlacesAlwaysEarned` | until then, the statement a call moves last is ranked or rightly left out; no best rank is lost |
| `StatementsProofs!DecayOnlyFades`, `DecayMeetsAssumption` | `approxDecay` makes no amount larger and turns no sign, for every amount, time and table of multipliers: `DecayAssumption` is true of it |
| `StatementsProofs!RoundsFitWord` | no multiplication of `approxDecay` leaves the word, which would revert, and no second of the time is left over |
| `StatementsProofs!PeakNeverLost` | peaks never get worse, in every run, even on a list that rounding has brought out of order |
| `ForumProofs!ForumImplementsBoth` | every transaction of a forum is a step of `Statements` and of the caller's `MemberAccount`, and at most a new statement to the other accounts: the forum implements both specifications |
| `ForumProofs!ForumInvariant` | no member's support is out of range or written in the future |
| `ForumProofs!ForumAlwaysKept` | the client's context never bounces back to an address the visitor has left, and the home page shows statements of its own forum alone |
| `ForumProofs!DraftAlwaysKept` | a stored draft changes only under the key of the open form: by typing, by closing it, or by a text carried over from another key (finding 17). Timers, sweeps, reloads and moves alone change none |
| `VerificationProofs!BindingsAlwaysAgree`, `BoundAlwaysRegistered`, `IdentityAlwaysStable`, `MembershipAlwaysKept` | the registry's four properties |
| `VerificationProofs!BindingsAlwaysHold`, `NothingIsEverTaken` | the same, as the run states them |
| `VerificationProofs!PageUsesRegistry` | every step of the page is a step of `Registry` or leaves it alone: the page implements `Registry`'s specification, so its theorems hold behind the page |
| `VerificationProofs!AlwaysDisclosedAsChosen` | no registration discloses what its visit did not choose to disclose |
| `VerificationProofs!VerifiedAlwaysRegistered` | an account shown as verified is registered |
| `CommitProofs!AlwaysAppliedOnce` | an edit counts at most once |
| `CommitProofs!WorkNeverLost` | an edit that was made and not dropped counts, is held, or will be restored |
| `CommitProofs!ConfirmedAlwaysLanded` | *confirmed* is shown only after a landing |
| `CommitProofs!BucketAlwaysHolds` | sponsored gas within capacity plus leak |
| `CommitProofs!AlwaysExecutedOnce` | what was confirmed once executes at most once |
| `CommitProofs!FeeAlwaysOfThisOpening` | the fee shown was asked for in this opening of the dialog |
| `SearchProofs!NothingIsEverSkipped` | nothing below the saved cursor is missing from the index |
| `SearchProofs!EngagementAlwaysKept` | documents carry the latest engagement below the cursor, until a round is repeated |
| `SearchProofs!ForumsAlwaysKeptApart` | what the page, a worker or IndexedDB keeps for a forum was made from its statements, unless something was awaited across a restart that does not ask which forum is shown |
| `SearchProofs!IndexAlwaysComplete` | with the same exception, the cursor covers the window; as long as no worker failed, an index that is ready has exactly the page's documents |
| `NetworksProofs!DeploymentsAlwaysAgree` | whatever runs overlap, fail or are refused: served forums keep their addresses until a redeployment, the branch names a registry of its mode and forums that ask it, its three files agree |
| `NetworksProofs!VotesAlwaysMeetTargets` | seeding that ends well leaves every statement with its target support, however many workers vote and in whatever order |
| `NetworksProofs!PlansAddUp` | what the plan asks of all users for a statement is the statement's target, wherever the remainder's turn begins |

*Assumptions.* Those the modules declare, and no others: `AccountAssumption`,
`InputsAssumption`, `ClockAssumption` (timestamps are far from 0),
`CostAssumption` (penalty at most 100 %), `StatementsAssumption`,
`StartAssumption`, `RankingAssumption` (bar, window and length of the list;
timestamps are far from 0), `ForumAssumption` (all of these, of the forum's parts),
`RegistryAssumption`,
`StagingBounds`, `WritesBounds`, `IndexerBounds`, `VotesBounds`, `SearchBounds` (counters
are natural numbers, windows not empty, and `None` or `Unvisited` is none of the values it
stands in for), `DeploymentAssumption` (a forum's
name is not a registry's: Ignition's identifiers of forums have a prefix),
`SeedingAssumption` (users, targets and starts are numbers, `NoJob` is no job),
`ForumRouteAssumption` (the default is a forum, `None` neither a forum nor a page),
`HomePageAssumption` (every forum has a ranking), `RankedFeedAssumption`
(rankings are sequences, pages not empty), and
`DecayAssumption`/`DecayMonotonicAssumption` on the decay function. The former is
proved of `approxDecay` (`DecayMeetsAssumption`) for every table that satisfies
`DecayTableAssumption`: times are the powers of two down to one second, multipliers
are positive and fit their bits, as the contract's twenty constants do. The latter, that a
longer time never leaves more, depends on how the multipliers are rounded; it is
supported by the instances' evaluation of it only.

*The account.* `IInv` is types, `AccountIsPast` and `SupportListed` together: a
list is kept only if what it holds exists, and a support that has decayed to
zero stays zero (`FadedStaysFaded`, from monotone decay), which is why a slot
once found empty may be reused. `UpdateKeepsListed` is the heart: `Track` then
`Compact`, where the emptiness of slots was judged before `Track` wrote to one
of them. A batch is treated by an invariant of the draft carried over the rounds.
`NoFreeCredits` is not inductive: the balance grows by whole intervals since
`lastUpdated`, the grant by whole intervals since registration, and the two end
at different moments. `CreditsBacked` states it at `lastUpdated`: credits plus
stake are at most what had been granted *then*; floor division is superadditive,
so the rest follows for any later time (`BackedNow`). `AdjustBacked` needs that
decay cheapens a support, so a refund at the decayed value is at most the price
in the stake, and that a penalty only lowers it.

*Staging.* The invariant of `StagedVotes` is that the client's copy and the chain
list the same statements, that every adjustment is on one of them, and what was
asked of a card; every action keeps the latter because whole credits pass through
`Math.round` untouched (`RoundingShifts`), whatever fraction of a credit decay has
left. What is said of credits needs no history: it is true of every well-formed
state. The forum's price is the client's rounded down, so the two charges are
apart by less than a part per cost (`StatementsCharged`, `AdjustmentsCharged`,
sums bounded element by element with `Induction`'s `SumBound`). That is why
`EnoughMeansAccepted` spares a part for every adjustment but one, and why
`LeftIsAsShown` allows one per cost. The bar subtracts decreases where the
reducer adds signed costs (`BarAlwaysAgrees`).

*The decay.* `InWord(v)` is the invariant of the rounds for a magnitude `v`: the
value fits in `bitsUsed` bits, those fit in the word, and the value is at most
`v * 2^toShift`. A multiplication adds as many bits to the value as to `toShift`; what
was shifted out before it to make room (`ApplyMultiplierFits`) is taken off `toShift`,
and dropping those bits can only lessen the value. The shift at the end rounds to
nearest and still does not exceed `v` (`RoundedShift`), because `v` is whole. The powers
of two are a recursive function, `TwoTo`: the provers know no law of `^`. How close the
result is to the exponential, and that it keeps the order of two amounts, is a matter of
the particular multipliers and stays with `DecayIsFair`.

*The ranking.* What holds in any order of the list is the invariant `Sound`: the
listed places hold statements that exist, what does not exist has neither rank
nor peak, a peak covers its rank. That the list is sorted and inverse to the
ranks (`Ordered`) does not hold without a condition: when rounding swaps two
neighbours, the code takes the wrong statement off the list (finding 1), which the
production decay can do. So the theorems are about `HistorySpec` and hold up to
there: while `swapped` is false, the list was in order before the call, and the
proof shows that the call, with everything it moves, leaves it so. The
heart is `UpdateSorted`: taken out of its place a statement leaves a `Hole`, the
two loops move the hole past everything weaker or stronger (`Opened`), and the
statement fills it, is cut off with the last place, or pushes the last one out.
`_rankingMaintenance` cuts a tail of the sorted list, so what is left has no hole.
A batch is an invariant of the list carried over its changes. The proof
showed that an earlier form of `StrongIsRanked`, about a call after which one
support differs, is true only of calls with one change: the batch may also move
another statement up, which pushes the first one out, and down again below the
bar. The property now speaks of the statement a call moves last.

*The forum.* `Forum` is a step simulation with the variables as they are: the
statements' part of a transaction by name, the caller's account through its place
in the three mappings, everybody else's account unchanged or with one more
statement (`OtherAdds`). What has to be known of the states is which changes the
member's side of a batch can hand to the statements: that `AdjustAll` returns one
of `Statements`' batches (`ChangesAreBatch`), because a support that is read is an
amount, so the difference of two of them is one a statement can get. That needs
`FInv`, no support out of range or from the future, and an induction over the
rounds. So the theorems about `Statements` and `MemberAccount` hold of the
statements and of every account of a forum with any number of members; the provers
cannot cite a theorem through an `INSTANCE`, so this last step is made here, not
by them. `SupportIsSum` stays with TLC: how far the sum of the members' supports
may be from the statement's depends on how nearly linear the decay is, which
`DecayAssumption` does not say. Its bound, a unit per stored support beyond the
first and second, is one rounding for each of them and is exact for a sole supporter.

*The client's forum, list and draft.* Three invariants, one for each part of
`Browser`. `RouteIInv`: an address the context has yet to take over is the one
asked for last, which is why the effect may follow the address and the dialog may
be ahead of it. It needs the effect to run for a *new* slug alone: with the slip
`SyncWheneverDifferent` the old address would be taken over again. `FeedIInv`: the
list, and each page of the cache, is of one forum. A page that is merged at the
old offset before the offset is zero is therefore of the right forum, and leaves
at worst a gap (`FeedOfFits`). `FormIInv`: a form with a key into which nothing
was typed or carried under it shows what is stored there, unless that was removed, so
its timer writes nothing new.
`ForumIsKept` and `DraftIsKept` are then about single steps.

*The registry and its page.* `BindingsAgree` and `BoundIsRegistered` need
`RegistrationsDated`: a registration that was made has a past date and is under
its own identifier, also before an address is known to lead to it. That the page
implements `Registry` is a step simulation with the variables as they are.
`DisclosedAsChosen` needs `OneVisit`: requests, proof and level on the screen are of
one visit, because leaving the last step forgets the first two before the level
can change. `VerifiedMeansRegistered` needs that the page follows a transaction
of its own (`Follows`) and that a registration that landed stays in the
registry whoever else registers (`LandedIsKnown`).

*Commits.* The invariant of `UserVotes` has three layers. `Shape` and `Synced`
hold always: what is staged, saved and submitted is of the right form, and what
the page knows of chain and clock was once true. `PlainInv` holds until an
excuse: what is restored was saved under the key of this account and forum
(`Restoring`), a wallet call is awaited by the commit that is shown (`Awaiting`),
a hash is tracked for the latest transaction (`Tracking`), every edit was made
(`Made`), the edits staged and the edits on the chain or outstanding are
disjoint (`Disjoint`), and none counts twice (`Once`). `OwnClock` and `NotLost`
hold as long as nobody acts for the account elsewhere either: then the clock of
the chain moves only with own commits, so a clock that moved means that this
one landed. `AppliedOnce` and `NoLostWork` are `Once` and `NotLost` under their
own hypotheses. The proof has one lemma per action and conjunct. It found that
the model had to count a transaction as outstanding while its wallet call is
awaited: with three commits of a smart wallet (the first reverts while its call
is awaited, its error is dismissed, the second lands, then the first one's hash
arrives and its revert is reported) the page restores what the second has
applied. The run, with two commits, never met it. It is another form of the
excuse *dismissed*, which now covers it.

*Contract writes.* `BucketHolds` follows from the level of the bucket: what
was granted is still in the bucket or has leaked (`Backed`). An operation is not
charged twice within the time to live because a charge of that age still has its
decision (`ChargeRemembered`). The sum is over all operations of the identity,
with the lemmas on sums in `Induction`. `ExecutedOnce` needs that, until an answer
is lost, everything a write sent before its last operation is dead (`Tried`).

*The indexer.* `NothingIsSkipped` is about the saved cursor; the invariant says it
of all three, the saved one, the one in memory and the one the round has
reached, and of the running batch up to what its awaited coroutines still owe
(`AllCovered`). Coroutines of an abandoned round take no document away. They may set
`lastEngagement` back, so `EngagementIsKept` needs that all coroutines are awaited
and the saved cursor is not ahead, which holds until a round is repeated
(`InOrder`, `AllKept`).

*The browser's index.* The invariant `ApartInv` says of every sync and delta what it
may still write. A superseded sync either asks `IsStale` before it does anything
(`SyncFits`) or awaits the lexical worker, whose answer changes nothing; a delta of
another forum has yet to ask `SameForum`. What is known of the order of use of a
worker's indexes is only that each forum in it has one, which is what an eviction
keeps. The second invariant, `CompleteInv`, is about time: for every delta of the
forum on screen, the page was covered up to where the delta began, and what it has
read since covers the rest (`DeltaKnows`), although other deltas move the cursor and
add documents meanwhile, and may set the cursor back. Log windows that begin too
early only add to that (`RoundedDown`). That a worker has the page's documents
holds only once it has answered, so the invariant speaks of the requests
under way: each document of the page is in the index or in one of them, and the answer to a request
will find the engine it was made for and a vector for each of its documents
(`WillBeIndexed`), whichever of two requests is answered first. A page that was made
ready from IndexedDB before the chain was read is told from one with a cursor by what
the sync remembers of its request (`ReadyFits`). A failed worker ends the second part and
leaves the first. TLC checked both invariants on the run's instance first.

*Deployments.* The three files of the branch are written by runs that may be
behind it, so the invariant (`DeployIInv`) speaks of every checkout as of the
branch: the artifact of each names a registry and forums that are on the chain and
belong together (`Sound`), a reconciliation keeps what its checkout named
(`Keeps`), deploys only what that lacked (`Reconciling`), and starts from the
branch's own files unless it is behind, in which case git refuses it. Of a
redeployment it says that Ignition's state is sound whatever run left it
(`JournalSound`) and that what is not yet in it is still to be deployed, the
registry first (`Deploying`), so a run that failed half-way and one that follows it
give every forum the registry the artifact names. That `hosted` is in the
branch needs that only a redeployment drops forums and that it is counted before it
starts (`WipesCounted`).

*Seeding.* `SeedIInv` says of each statement that its support is what was
asked of the users that have voted for it, the author by the initial support
and a user under way by what is no longer `left` of the job. What a set of users
adds up to is written with cardinalities, the quotient for each of them and one
for each of those in turn (`Amount`), because a sum over a set would be a fold. One
vote adds its user to that set (`AmountAdds`). Users whose vote is zero are never
sent, and count all the same (`AmountSame`). At the end the set is everybody, and
as many users are in turn as there is remainder, because moving on by `Offset` is a
rotation (`InTurn`, `PlansAddUp`). That no user is counted twice needs that no two
workers hold the same one (`JobsApart`): the index is taken and moved in one go.

*Induction.* Theorems of the library that take a predicate as an argument cannot
be instantiated by the provers installed. `Induction` proves the needed
instances for *sets*: a subset of an interval that contains its start and is
closed under successor is the interval, loops written as functions have the
run they should, a family closed under adding an element contains every finite
set, and sums over finite sets are what they should be.

*Only model-checked*: `DecayIsFair` and `TouchDrift` (how far rounding may take an
amount from the exponential, for the multipliers of the table), `SupportIsSum`, and the liveness properties of all runs.
*Out of the prover's reach*: what a fold computes for every input, and liveness.

## 5. Plan

Done: every component of section 1 that keeps state is modelled and checked;
accounts, staged changes, the ranking, the forum they make up, registry and its page, commits,
contract writes, both search indexes, deployments, seeding and what the client
keeps in address, list and draft are proved. Left: several members in `ContractWrites`,
and reorganisations in `Indexer` and `LocalSearch`, should the code come to handle them.

## 6. Not modelled

- *Passport verifier* (third party) and its mock parser (a decoder of fixed byte
  layouts): the registry takes the verdict on a proof as an input.
- *RPC relay*: a predicate on one request and a forwarder, without state. Its
  rules compare strings and numbers, which table tests cover.
- *Search service* and process start-up: a stateless translation of a query.
- *Ranking of hits and its evaluation*: floating-point scores without a bounded
  reference to compare with.
- *Support chart*: read-only queries at past blocks, no state outlives a render.
- *Presentation*: layout, wording, themes. `UserProfilePill` is not mounted.
- *Gas sponsorship's* decoding and identity checks: predicates on one request.
  The limiter is modelled for one identity; buckets of different identities
  share nothing.

Left out of modelled components:

- Contracts: texts, events other than the engagement time, URI and name getters.
- `LocalSearch`: the cap of 2000 documents (`DOC_CAP`, `LocalSearch.tsx:236`).
  Ranked statements come first, so beyond it an engaged statement is not indexed and
  not found; the model is of forums below it.
- Reorganisations of the chain. Local search stays `CONFIRMATION_BLOCKS` behind
  the head, the indexer reads up to it, and neither takes a block back. `PROJECT.json` lists this as a hazard without a property.
- `Indexer`: one cursor stands for the cursor document of each set of forums; the
  wall clock is the head's timestamp; identical coroutines that outlived a round
  are one.
- `Seeding`: after a failure other workers may go on until the process exits;
  block numbers and texts are left out. `Deployment`: block numbers, and the
  site's choice of a registry mode from its build environment.
- `Browser`: of the other tab only its writes to bookmarks and nickname. A visit
  to the home page does not wait for the fingerprint; a visit to the form starts
  with the stored forum selected.
- `UserVotes`: `MaxCommits` transactions; the amounts are in `StagedVotes`.

## 7. Running

    tlc -workers 2 -config ranking.cfg MCStatements
    tlc -workers 2 -config rounding.cfg MCStatements     # ends with an error: finding 1
    tlc -workers 2 -config votes.cfg MCUserVotes
    tlapm AccountProofs.tla

`PROJECT.json` names the module of each configuration. Every run ends within a
few minutes on two cores.
