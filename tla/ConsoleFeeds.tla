----------------------------- MODULE ConsoleFeeds -----------------------------
(***************************************************************************)
(* The browser client's invalidation wiring (src/client/index.ts) and the  *)
(* two read paths of its store that run beside the settings: the provider  *)
(* catalog and the recent switches of the session on view                  *)
(* (src/client/fallbacks-store.ts).  Pushes are lost while the connection  *)
(* is down; a reconnection is the only word of what was missed.            *)
(***************************************************************************)
EXTENDS Naturals, FiniteSets

CONSTANTS
  Provider,      \* providers of the host's directory
  Session, NoSession,
  Read,          \* names for the reads in flight
  MaxHost        \* bound: changes on the host, and user moves between sessions

VARIABLES
  directory, configuredNs, recorded,    \* host: directory, profiles, switches per session
  link, due,                            \* the connection, and events it owes the client
  reads,
  namespaces,                           \* the last describe's directory
  catalog,                              \* [status, providers, configured]
  summary,                              \* [status, of, count]: the switches shown
  current, opened,
  pendingReset, microtask, tornDown, steps

feedHost == <<directory, configuredNs, recorded, steps>>
shown    == <<namespaces, catalog, summary>>
wiring   == <<current, opened, pendingReset, microtask, tornDown>>
feedVars == <<feedHost, link, due, reads, shown, wiring>>

Event == {"catalog", "document", "reset"}
NoRead == [kind |-> "none", at |-> "none", latest |-> FALSE, of |-> NoSession,
           set |-> {}, count |-> 0]

FeedsInit ==
  /\ directory \in SUBSET Provider /\ configuredNs = {}
  /\ recorded = [s \in Session |-> 0]
  /\ link = "up" /\ due = {} /\ reads = [r \in Read |-> NoRead]
  /\ namespaces = {}
  /\ catalog = [status |-> "idle", providers |-> {}, configured |-> {}]
  /\ summary = [status |-> "idle", of |-> NoSession, count |-> 0]
  /\ current = NoSession /\ opened = FALSE
  /\ pendingReset = FALSE /\ microtask = FALSE /\ tornDown = FALSE
  /\ steps = 0

-----------------------------------------------------------------------------
(* The host, and the connection *)

Pushed(event) == due' = IF link = "up" /\ ~tornDown THEN due \union {event} ELSE due
HostMoves == steps < MaxHost /\ steps' = steps + 1

DirectoryChanges ==
  /\ HostMoves
  /\ directory' \in (SUBSET Provider) \ {directory}
  /\ Pushed("catalog")
  /\ UNCHANGED <<configuredNs, recorded, link, reads, shown, wiring>>

\* Another namespace's document: its push does not concern this client.
ProfileChanges ==
  /\ HostMoves
  /\ configuredNs' \in (SUBSET Provider) \ {configuredNs}
  /\ UNCHANGED <<directory, recorded, link, due, reads, shown, wiring>>

\* A walk of the session records a switch; the session's events reach this store
\* with the next read only.
SwitchRecorded ==
  /\ HostMoves
  /\ \E s \in Session : recorded' = [recorded EXCEPT ![s] = @ + 1]
  /\ UNCHANGED <<directory, configuredNs, link, due, reads, shown, wiring>>

SettingsSaved ==
  /\ HostMoves
  /\ Pushed("document")
  /\ UNCHANGED <<directory, configuredNs, recorded, link, reads, shown, wiring>>

LinkDrops ==
  /\ link = "up" /\ HostMoves
  /\ link' = "down" /\ due' = {}
  /\ UNCHANGED <<directory, configuredNs, recorded, reads, shown, wiring>>

LinkReturns ==
  /\ link = "down"
  /\ link' = "up"
  /\ due' = IF tornDown THEN {} ELSE due \union {"reset"}
  /\ UNCHANGED <<feedHost, reads, shown, wiring>>

-----------------------------------------------------------------------------
(* The store's reads *)

Begin(kind, of, rs) ==
  LET slot == CHOOSE r \in Read : rs[r] = NoRead IN
  [r \in Read |->
     IF r = slot THEN [NoRead EXCEPT !.kind = kind, !.at = "sent", !.latest = TRUE, !.of = of]
     ELSE IF rs[r].kind = kind THEN [rs[r] EXCEPT !.latest = FALSE] ELSE rs[r]]
Room(n) == Cardinality({r \in Read : reads[r] = NoRead}) >= n

BeginCatalog(rs) == Begin("catalog", NoSession, rs)
BeginSettings(rs) == Begin("settings", NoSession, rs)

\* Mutant: with no session on view nothing is read, and nothing is superseded.
BeginSwitchesKeepsOlder(of, rs) ==
  IF of = NoSession THEN rs ELSE Begin("switches", of, rs)

\* loadSwitches(): no session on view is an empty summary, without a call, and
\* supersedes the reads before it all the same.
BeginSwitches(of, rs) ==
  IF of = NoSession
  THEN [r \in Read |-> IF rs[r].kind = "switches" THEN [rs[r] EXCEPT !.latest = FALSE] ELSE rs[r]]
  ELSE Begin("switches", of, rs)
SummaryOnBegin(of) ==
  IF of = NoSession THEN [status |-> "ready", of |-> NoSession, count |-> 0]
                    ELSE [summary EXCEPT !.status = "loading"]

\* The card mounts: each face that was never read is read.
OpenCard ==
  /\ ~opened /\ ~tornDown /\ Room(3) /\ opened' = TRUE
  /\ catalog.status = "idle" /\ summary.status = "idle"
  /\ reads' = BeginSwitches(current, BeginCatalog(BeginSettings(reads)))
  /\ catalog' = [catalog EXCEPT !.status = "loading"]
  /\ summary' = SummaryOnBegin(current)
  /\ UNCHANGED <<feedHost, link, due, namespaces, current, pendingReset, microtask, tornDown>>

\* setCurrentSession: a summary that was read once follows the view.
ViewSession ==
  \E s \in (Session \union {NoSession}) \ {current} :
    /\ ~tornDown /\ Room(1) /\ HostMoves
    /\ current' = s
    /\ IF summary.status = "idle" THEN UNCHANGED <<reads, summary>>
       ELSE reads' = BeginSwitches(s, reads) /\ summary' = SummaryOnBegin(s)
    /\ UNCHANGED <<directory, configuredNs, recorded, link, due, namespaces, catalog,
                   opened, pendingReset, microtask, tornDown>>

\* llm/adapters-updated refreshes the catalog, if it was ever read.
AdaptersUpdated ==
  /\ "catalog" \in due /\ ~tornDown /\ Room(1) /\ due' = due \ {"catalog"}
  /\ IF catalog.status = "idle" THEN UNCHANGED <<reads, catalog>>
     ELSE reads' = BeginCatalog(reads) /\ catalog' = [catalog EXCEPT !.status = "loading"]
  /\ UNCHANGED <<feedHost, link, namespaces, summary, wiring>>

\* settings/document-updated of our namespace refreshes settings and switches.
DocumentUpdated ==
  /\ "document" \in due /\ ~tornDown /\ Room(2) /\ due' = due \ {"document"}
  /\ IF ~opened THEN UNCHANGED <<reads, summary>>
     ELSE /\ reads' = BeginSwitches(current, BeginSettings(reads))
          /\ summary' = SummaryOnBegin(current)
  /\ UNCHANGED <<feedHost, link, namespaces, catalog, wiring>>

\* connection/reset queues one refresh of everything, however many resets come.
ConnectionReset ==
  /\ "reset" \in due /\ ~tornDown /\ due' = due \ {"reset"}
  /\ pendingReset' = TRUE
  /\ microtask' = TRUE
  /\ UNCHANGED <<feedHost, link, reads, shown, current, opened, tornDown>>

\* Mutant: a reconnection refreshes the form and the switches only.
RefreshAllButCatalog ==
  /\ microtask /\ Room(3) /\ microtask' = FALSE /\ pendingReset' = FALSE
  /\ IF tornDown \/ ~opened THEN UNCHANGED <<reads, summary>>
     ELSE /\ reads' = BeginSwitches(current, BeginSettings(reads))
          /\ summary' = SummaryOnBegin(current)
  /\ UNCHANGED <<feedHost, link, due, namespaces, catalog, current, opened, tornDown>>

RefreshAll ==
  /\ microtask /\ Room(3) /\ microtask' = FALSE /\ pendingReset' = FALSE
  /\ IF tornDown \/ ~opened THEN UNCHANGED <<reads, catalog, summary>>
     ELSE /\ reads' = BeginSwitches(current, BeginCatalog(BeginSettings(reads)))
          /\ catalog' = [catalog EXCEPT !.status = "loading"]
          /\ summary' = SummaryOnBegin(current)
  /\ UNCHANGED <<feedHost, link, due, namespaces, current, opened, tornDown>>

\* The host answers, or the call fails.
AnswerRead(r) ==
  /\ reads[r].at = "sent"
  /\ \/ /\ reads[r].kind = "catalog"
        /\ reads' = [reads EXCEPT ![r].at = "answered", ![r].set = directory]
     \/ /\ reads[r].kind = "settings"
        /\ reads' = [reads EXCEPT ![r].at = "answered", ![r].set = configuredNs]
     \/ /\ reads[r].kind = "switches"
        /\ reads' = [reads EXCEPT ![r].at = "answered", ![r].count = recorded[reads[r].of]]
  /\ UNCHANGED <<feedHost, link, due, shown, wiring>>
ReadFails(r) ==
  /\ reads[r].at = "sent" /\ HostMoves
  /\ reads' = [reads EXCEPT ![r].at = "failed"]
  /\ UNCHANGED <<directory, configuredNs, recorded, link, due, shown, wiring>>

\* accept(): the describe's namespaces, and the configured-provider join over them.
PublishSettings(read) ==
  /\ namespaces' = IF read.at = "answered" THEN read.set ELSE namespaces
  /\ catalog' = [catalog EXCEPT !.configured = catalog.providers \intersect namespaces']
  /\ UNCHANGED summary

PublishCatalog(read) ==
  /\ catalog' = IF read.at = "failed" THEN [catalog EXCEPT !.status = "error"]
                ELSE [status |-> "ready", providers |-> read.set,
                      configured |-> read.set \intersect namespaces]
  /\ UNCHANGED <<namespaces, summary>>

PublishSwitches(read) ==
  /\ summary' = IF read.at = "failed" THEN [summary EXCEPT !.status = "error"]
                ELSE [status |-> "ready", of |-> read.of, count |-> read.count]
  /\ UNCHANGED <<namespaces, catalog>>

\* Only the latest read of its kind publishes what it brought.
SettleRead(r) ==
  /\ reads[r].at \in {"answered", "failed"}
  /\ reads' = [reads EXCEPT ![r] = NoRead]
  /\ \/ ~reads[r].latest /\ UNCHANGED shown
     \/ reads[r].latest /\ reads[r].kind = "settings" /\ PublishSettings(reads[r])
     \/ reads[r].latest /\ reads[r].kind = "catalog" /\ PublishCatalog(reads[r])
     \/ reads[r].latest /\ reads[r].kind = "switches" /\ PublishSwitches(reads[r])
  /\ UNCHANGED <<feedHost, link, due, wiring>>

\* The plugin unloads: subscriptions go, every read in flight is superseded, the
\* namespaces are dropped; a refresh already queued stays queued.
TearDown ==
  /\ ~tornDown /\ tornDown' = TRUE /\ due' = {}
  /\ reads' = [r \in Read |-> [reads[r] EXCEPT !.latest = FALSE]]
  /\ namespaces' = {}
  /\ UNCHANGED <<feedHost, link, catalog, summary, current, opened, pendingReset, microtask>>

Deliver == AdaptersUpdated \/ DocumentUpdated \/ ConnectionReset \/ RefreshAll
FeedsNext ==
  \/ DirectoryChanges \/ ProfileChanges \/ SwitchRecorded \/ SettingsSaved
  \/ LinkDrops \/ LinkReturns
  \/ OpenCard \/ ViewSession \/ Deliver \/ TearDown
  \/ \E r \in Read : AnswerRead(r) \/ ReadFails(r) \/ SettleRead(r)

FeedsSpec == FeedsInit /\ [][FeedsNext]_feedVars

\* Events are delivered, reads answered, and a dropped connection comes back.
FeedProgress == Deliver \/ LinkReturns \/ \E r \in Read : AnswerRead(r) \/ SettleRead(r)
FairFeeds == WF_feedVars(FeedProgress)

-----------------------------------------------------------------------------
(* Properties *)

\* A summary that is shown is that of the session on view, however the reads of
\* several views were interleaved.
SummaryIsOfView == summary.status = "ready" => summary.of = current

\* The providers offered are those of the last directory that the last describe
\* resolves, whichever of the two reads came last.
OfferIsTheJoin == ~tornDown => catalog.configured = catalog.providers \intersect namespaces

\* What the cards show belongs together, however the reads it comes from were
\* interleaved.
FeedsAreCurrent == SummaryIsOfView /\ OfferIsTheJoin

\* Once the host stands still the catalog shows its directory, pushes lost to a
\* dropped connection included: the reconnection reads everything again.
CatalogConverges ==
  <>[](\/ tornDown \/ catalog.status \in {"idle", "error"}
       \/ catalog.status = "ready" /\ catalog.providers = directory)
=============================================================================
