----------------------------- MODULE SiteProxy -----------------------------
(***************************************************************************)
(* How the site is served (cloudflare-worker/src/index.js): a worker asks  *)
(* the IPFS gateway for the files of the build it was deployed with,       *)
(* through an edge cache, and tells the browser how long to keep them.  A  *)
(* build is its CID; it has an index.html that names one script, by the    *)
(* build's hash and relative to the page's own path.  There is one visitor *)
(* with one request at a time; it may be under way while another build is  *)
(* deployed.                                                               *)
(***************************************************************************)
EXTENDS Naturals, FiniteSets, TLC

CONSTANTS
  Builds,
  Nothing,        \* no build, no request
  MaxDeploys, MaxErrors

ASSUME SiteAssumption ==
  /\ Builds # {} /\ Nothing \notin Builds
  /\ MaxDeploys \in Nat /\ MaxErrors \in Nat

VARIABLES
  worker,     \* env.IPFS_CID, and the deployments so far
  edge,       \* the edge cache: from <<CID, path>> to a response
  gateway,    \* the errors so far
  request,    \* the visitor's
  browser     \* the page on screen and what is kept of the answers

siteVars == <<worker, edge, gateway, request, browser>>

(* Paths: the page at the root or at a deeper path, the scripts seen from  *)
(* there, and the page's own file.                                         *)
Dirs == {"root", "deep"}
Page(dir) == [dir |-> dir, file |-> "page"]
Script(dir, build) == [dir |-> dir, file |-> build]
Index == [dir |-> "root", file |-> "index.html"]

HasFileExtension(path) == path.file # "page"

IsHtmlPath(path) == path = Index \/ ~HasFileExtension(path)

Ok(content) == [status |-> "ok", content |-> content]
NotFound == [status |-> "404", content |-> Nothing]
Failure == [status |-> "5xx", content |-> Nothing]

(* What IPFS has under a CID. *)
FileOf(cid, path) ==
  CASE path \in {Page("root"), Index}   -> Ok(cid)
    [] path = Script("root", cid)       -> Ok(cid)
    [] OTHER                            -> NotFound

SiteInit ==
  /\ worker \in [cid : Builds, deploys : {0}]
  /\ edge = <<>>
  /\ gateway = [errors |-> 0]
  /\ request = Nothing
  /\ browser = [page |-> Nothing, running |-> FALSE, kept |-> <<>>]

SiteNothing ==
  /\ worker = [cid |-> Nothing, deploys |-> 0]
  /\ edge = <<>> /\ gateway = [errors |-> 0] /\ request = Nothing
  /\ browser = [page |-> Nothing, running |-> FALSE, kept |-> <<>>]

-----------------------------------------------------------------------------
(* wrangler deploy --var IPFS_CID, with a new build or an earlier one. *)
DeployWorker(cid) ==
  /\ worker.deploys < MaxDeploys /\ cid # worker.cid
  /\ worker' = [cid |-> cid, deploys |-> worker.deploys + 1]
  /\ UNCHANGED <<edge, gateway, request, browser>>

(* The worker gets a request; the CID is the one it was deployed with. *)
Fetch(path, navigation) ==
  request' = [path |-> path, navigation |-> navigation, cid |-> worker.cid,
              asks |-> path, answer |-> Nothing]

Opened(path, answer, cid) ==
  IF answer.status # "ok" THEN browser
  ELSE [browser EXCEPT !.page = [dir |-> path.dir, build |-> answer.content, asked |-> cid]]

(* The visitor opens the site, also after it failed. *)
Open(dir) ==
  /\ worker.cid # Nothing /\ request = Nothing /\ browser.page = Nothing
  /\ IF Page(dir) \in DOMAIN browser.kept
     THEN /\ browser' = Opened(Page(dir), browser.kept[Page(dir)], worker.cid)
          /\ UNCHANGED request
     ELSE Fetch(Page(dir), TRUE) /\ UNCHANGED browser
  /\ UNCHANGED <<worker, edge, gateway>>

Leave ==
  /\ browser.running
  /\ browser' = [browser EXCEPT !.page = Nothing, !.running = FALSE]
  /\ UNCHANGED <<worker, edge, gateway, request>>

(* The page asks for its script, unless an answer to that was kept. *)
NeedsScript == request = Nothing /\ browser.page # Nothing /\ ~browser.running

ScriptOfPage == Script(browser.page.dir, browser.page.build)

AskForScript ==
  /\ NeedsScript /\ ScriptOfPage \notin DOMAIN browser.kept
  /\ Fetch(ScriptOfPage, FALSE)
  /\ UNCHANGED <<worker, edge, gateway, browser>>

Run(answer) ==
  IF answer.status = "ok" THEN [browser EXCEPT !.running = TRUE]
                          ELSE [browser EXCEPT !.page = Nothing]

UseKeptScript ==
  /\ NeedsScript /\ ScriptOfPage \in DOMAIN browser.kept
  /\ browser' = Run(browser.kept[ScriptOfPage])
  /\ UNCHANGED <<worker, edge, gateway, request>>

(* A slip: the cache does not tell builds apart. *)
CacheKeyOfPath(cid, path) == path

CacheKey(cid, path) == <<cid, path>>

Cached == CacheKey(request.cid, request.asks) \in DOMAIN edge

Answered(answer) == request' = [request EXCEPT !.answer = answer]

FromEdge ==
  /\ request # Nothing /\ request.answer = Nothing /\ Cached
  /\ Answered(edge[CacheKey(request.cid, request.asks)])
  /\ UNCHANGED <<worker, edge, gateway, browser>>

(* Only what was found is cached. *)
FromGateway ==
  /\ request # Nothing /\ request.answer = Nothing /\ ~Cached
  /\ LET answer == FileOf(request.cid, request.asks)
     IN  /\ Answered(answer)
         /\ edge' = IF answer.status = "ok"
                    THEN (CacheKey(request.cid, request.asks) :> answer) @@ edge ELSE edge
  /\ UNCHANGED <<worker, gateway, browser>>

(* IPFS is slow to find what was just pinned, or the gateway is down. *)
GatewayFails ==
  /\ request # Nothing /\ request.answer = Nothing /\ ~Cached
  /\ gateway.errors < MaxErrors
  /\ gateway' = [errors |-> gateway.errors + 1]
  /\ \E answer \in {NotFound, Failure} : Answered(answer)
  /\ UNCHANGED <<worker, edge, browser>>

IsNavigationRequest == request.navigation \/ ~HasFileExtension(request.path)

(* Unknown paths get the page all the same. *)
Fallback ==
  /\ request # Nothing /\ request.answer = NotFound
  /\ request.asks # Index /\ IsNavigationRequest
  /\ request' = [request EXCEPT !.asks = Index, !.answer = Nothing]
  /\ UNCHANGED <<worker, edge, gateway, browser>>

(* By the path alone, whatever the answer is. *)
CacheControl(path) ==
  CASE path.dir = "root" /\ path.file \in Builds -> "immutable"
    [] IsHtmlPath(path)                          -> "revalidate"
    [] OTHER                                     -> "static"

Final == request.answer # Nothing
         /\ ~(request.answer = NotFound /\ request.asks # Index /\ IsNavigationRequest)

(* The browser gets the answer and keeps it as long as it was told to. *)
Deliver ==
  /\ request # Nothing /\ Final
  /\ LET next == IF request.navigation
                 THEN Opened(request.path, request.answer, request.cid)
                 ELSE Run(request.answer)
     IN  browser' = IF CacheControl(request.asks) = "revalidate" THEN next
                    ELSE [next EXCEPT !.kept = (request.path :> request.answer) @@ @]
  /\ request' = Nothing
  /\ UNCHANGED <<worker, edge, gateway>>

(* The edge keeps an answer for an hour, and makes room as it likes. *)
DropFromEdge(key) ==
  /\ edge' = [k \in DOMAIN edge \ {key} |-> edge[k]]
  /\ UNCHANGED <<worker, gateway, request, browser>>

(* Other files are kept for an hour. *)
Expire(path) ==
  /\ path \in DOMAIN browser.kept /\ CacheControl(path) = "static"
  /\ browser' = [browser EXCEPT !.kept =
                   [p \in DOMAIN browser.kept \ {path} |-> browser.kept[p]]]
  /\ UNCHANGED <<worker, edge, gateway, request>>

ServeStep == FromEdge \/ FromGateway \/ Fallback \/ Deliver \/ AskForScript \/ UseKeptScript

SiteNext ==
  \/ \E cid \in Builds : DeployWorker(cid)
  \/ \E dir \in Dirs : Open(dir)
  \/ Leave \/ GatewayFails \/ ServeStep
  \/ \E path \in DOMAIN browser.kept : Expire(path)
  \/ \E key \in DOMAIN edge : DropFromEdge(key)

(* A visitor who is at the root of the site tries again until it runs; the *)
(* gateway answers.                                                        *)
SiteFairness ==
  /\ WF_siteVars(ServeStep)
  /\ SF_siteVars(Open("root"))

-----------------------------------------------------------------------------
(* An error was kept for ever under the name of a script. *)
Poisoned ==
  \E path \in DOMAIN browser.kept :
    CacheControl(path) = "immutable" /\ browser.kept[path].status # "ok"

(***************************************************************************)
(* "a new deploy (new CID) naturally busts the cache" (index.js:17): a     *)
(* visitor who tries again and again gets the page to run, and then it is  *)
(* of the build that is deployed when it was asked for, however often      *)
(* builds and earlier builds are deployed, unless an error was kept as the *)
(* answer to the script.                                                   *)
(***************************************************************************)
SiteRuns ==
  /\ []<>(worker.cid # Nothing => browser.running \/ Poisoned)
  /\ [](browser.page # Nothing => browser.page.build = browser.page.asked)

=============================================================================
