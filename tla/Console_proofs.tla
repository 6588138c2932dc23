---------------------------- MODULE Console_proofs ----------------------------
(***************************************************************************)
(* What the settings console keeps, for any values, any number of calls in *)
(* flight and any budget: what the feeds show belongs together, what the   *)
(* store shows is what the host held, and the form admits what will load.   *)
(***************************************************************************)
EXTENDS SettingsStore, ConsoleFeeds, FormRows, Inductions

-----------------------------------------------------------------------------
(* The feeds of the console.                                               *)

ReadType ==
  [kind : {"none", "catalog", "settings", "switches"},
   at : {"none", "sent", "answered", "failed"}, latest : BOOLEAN,
   of : Session \union {NoSession}, set : SUBSET Provider, count : Nat]

FeedsTypeOK ==
  /\ directory \in SUBSET Provider /\ configuredNs \in SUBSET Provider
  /\ recorded \in [Session -> Nat]
  /\ reads \in [Read -> ReadType] /\ namespaces \in SUBSET Provider
  /\ catalog \in [status : {"idle", "loading", "ready", "error"},
                  providers : SUBSET Provider, configured : SUBSET Provider]
  /\ summary \in [status : {"idle", "loading", "ready", "error"},
                  of : Session \union {NoSession}, count : Nat]
  /\ current \in Session \union {NoSession}

\* A read of the switches is of a session, one that may still publish of the session on
\* view, and there is none before the card was opened.
SwitchReadsFollow ==
  \A r \in Read : reads[r].kind = "switches" =>
    /\ summary.status # "idle" /\ reads[r].of \in Session
    /\ reads[r].latest => reads[r].of = current

FeedsInv == FeedsTypeOK /\ SwitchReadsFollow /\ SummaryIsOfView /\ OfferIsTheJoin

\* A read that begins supersedes those of its kind and leaves the others alone.
LEMMA BeginIs ==
  ASSUME NEW kind \in {"catalog", "settings", "switches"}, NEW of \in Session \union {NoSession},
         NEW rs \in [Read -> ReadType]
  PROVE  LET n == Begin(kind, of, rs)
         IN  /\ n \in [Read -> ReadType]
             /\ \A r \in Read : n[r].kind = "switches" =>
                  \/ kind = "switches" /\ n[r].of = of
                  \/ /\ rs[r].kind = "switches" /\ n[r].of = rs[r].of
                     /\ IF kind = "switches" THEN ~n[r].latest ELSE n[r] = rs[r]
<1> DEFINE slot == CHOOSE r \in Read : rs[r] = NoRead
           new == [NoRead EXCEPT !.kind = kind, !.at = "sent", !.latest = TRUE, !.of = of]
           n == [r \in Read |->
                   IF r = slot THEN new
                   ELSE IF rs[r].kind = kind THEN [rs[r] EXCEPT !.latest = FALSE] ELSE rs[r]]
<1>1. Begin(kind, of, rs) = n
  BY DEF Begin
<1>2. new \in ReadType /\ new.kind = kind /\ new.of = of
  BY DEF ReadType, NoRead
<1>3. \A r \in Read : /\ rs[r] \in ReadType /\ [rs[r] EXCEPT !.latest = FALSE] \in ReadType
                      /\ [rs[r] EXCEPT !.latest = FALSE].kind = rs[r].kind
                      /\ [rs[r] EXCEPT !.latest = FALSE].of = rs[r].of
                      /\ ~[rs[r] EXCEPT !.latest = FALSE].latest
  BY DEF ReadType
<1> HIDE DEF slot, new
<1>4. n \in [Read -> ReadType]
  BY <1>2, <1>3
<1>5. ASSUME NEW r \in Read, n[r].kind = "switches"
      PROVE  \/ kind = "switches" /\ n[r].of = of
             \/ /\ rs[r].kind = "switches" /\ n[r].of = rs[r].of
                /\ IF kind = "switches" THEN ~n[r].latest ELSE n[r] = rs[r]
  BY <1>2, <1>3, <1>5
<1> HIDE DEF n
<1>6. QED
  BY <1>1, <1>4, <1>5

\* With a session on view or none, the switch reads that may still publish are of that view.
LEMMA BeginSwitchesIs ==
  ASSUME NEW of \in Session \union {NoSession}, NEW rs \in [Read -> ReadType]
  PROVE  LET n == BeginSwitches(of, rs)
         IN  /\ n \in [Read -> ReadType]
             /\ \A r \in Read : n[r].kind = "switches" =>
                  \/ of \in Session /\ n[r].of = of
                  \/ rs[r].kind = "switches" /\ n[r].of = rs[r].of /\ ~n[r].latest
<1>1. CASE of = NoSession
  <2> DEFINE n == [r \in Read |-> IF rs[r].kind = "switches"
                                  THEN [rs[r] EXCEPT !.latest = FALSE] ELSE rs[r]]
  <2>1. BeginSwitches(of, rs) = n
    BY <1>1 DEF BeginSwitches
  <2>2. \A r \in Read : /\ rs[r] \in ReadType /\ [rs[r] EXCEPT !.latest = FALSE] \in ReadType
                        /\ [rs[r] EXCEPT !.latest = FALSE].of = rs[r].of
                        /\ ~[rs[r] EXCEPT !.latest = FALSE].latest
    BY DEF ReadType
  <2>3. /\ n \in [Read -> ReadType]
        /\ \A r \in Read : n[r].kind = "switches" =>
             rs[r].kind = "switches" /\ n[r].of = rs[r].of /\ ~n[r].latest
    BY <2>2
  <2>4. QED
    BY <2>1, <2>3
<1>2. CASE of # NoSession
  <2>1. BeginSwitches(of, rs) = Begin("switches", of, rs) /\ of \in Session
    BY <1>2 DEF BeginSwitches
  <2>2. QED
    BY <2>1, BeginIs
<1>3. QED
  BY <1>1, <1>2

\* What a summary says when a read of the view begins.
LEMMA SummaryOnBeginIs ==
  ASSUME FeedsInv, NEW of \in Session \union {NoSession}
  PROVE  LET s == SummaryOnBegin(of)
         IN  /\ s \in [status : {"idle", "loading", "ready", "error"},
                       of : Session \union {NoSession}, count : Nat]
             /\ s.status # "idle" /\ (s.status = "ready" => s.of = of)
BY DEF SummaryOnBegin, FeedsInv, FeedsTypeOK

\* The card, a push and a reconnection begin reads; nothing that is shown changes but that
\* it is being read.
LEMMA RefreshKeeps ==
  ASSUME FeedsInv, NEW of \in Session \union {NoSession}, NEW rs \in [Read -> ReadType],
         \A r \in Read : rs[r].kind = "switches" => rs[r].of \in Session,
         reads' = BeginSwitches(of, rs), summary' = SummaryOnBegin(of), current' = of,
         catalog' = catalog \/ catalog' = [catalog EXCEPT !.status = "loading"],
         UNCHANGED <<directory, configuredNs, recorded, namespaces, tornDown>>
  PROVE  FeedsInv'
<1>1. /\ reads' \in [Read -> ReadType]
      /\ \A r \in Read : reads'[r].kind = "switches" =>
           reads'[r].of \in Session /\ (reads'[r].latest => reads'[r].of = of)
  BY BeginSwitchesIs
<1>2. /\ summary' \in [status : {"idle", "loading", "ready", "error"},
                       of : Session \union {NoSession}, count : Nat]
      /\ summary'.status # "idle" /\ (summary'.status = "ready" => summary'.of = of)
  BY SummaryOnBeginIs
<1>3. /\ catalog' \in [status : {"idle", "loading", "ready", "error"},
                       providers : SUBSET Provider, configured : SUBSET Provider]
      /\ catalog'.providers = catalog.providers /\ catalog'.configured = catalog.configured
  BY DEF FeedsInv, FeedsTypeOK
<1>4. FeedsTypeOK'
  BY <1>1, <1>2, <1>3 DEF FeedsInv, FeedsTypeOK
<1>5. SwitchReadsFollow' /\ SummaryIsOfView'
  BY <1>1, <1>2 DEF SwitchReadsFollow, SummaryIsOfView
<1>6. OfferIsTheJoin'
  BY <1>3 DEF FeedsInv, OfferIsTheJoin
<1>7. QED
  BY <1>4, <1>5, <1>6 DEF FeedsInv

\* A read of the catalog or of the settings is no read of the switches.
LEMMA OtherReadsAre ==
  ASSUME FeedsInv
  PROVE  \A n \in {BeginCatalog(reads), BeginSettings(reads), BeginCatalog(BeginSettings(reads))} :
           n \in [Read -> ReadType] /\ \A r \in Read : n[r].kind = "switches" => n[r] = reads[r]
<1>1. reads \in [Read -> ReadType] /\ NoSession \in Session \union {NoSession}
  BY DEF FeedsInv, FeedsTypeOK
<1>2. ASSUME NEW kind \in {"catalog", "settings"}, NEW rs \in [Read -> ReadType]
      PROVE  /\ Begin(kind, NoSession, rs) \in [Read -> ReadType]
             /\ \A r \in Read : Begin(kind, NoSession, rs)[r].kind = "switches" =>
                  Begin(kind, NoSession, rs)[r] = rs[r]
  <2> DEFINE n == Begin(kind, NoSession, rs)
  <2>1. kind # "switches" /\ kind \in {"catalog", "settings", "switches"}
    OBVIOUS
  <2>2. /\ n \in [Read -> ReadType]
        /\ \A r \in Read : n[r].kind = "switches" =>
             \/ kind = "switches" /\ n[r].of = NoSession
             \/ /\ rs[r].kind = "switches" /\ n[r].of = rs[r].of
                /\ IF kind = "switches" THEN ~n[r].latest ELSE n[r] = rs[r]
    BY <1>1, <2>1, BeginIs
  <2> HIDE DEF n
  <2>3. \A r \in Read : n[r].kind = "switches" => n[r] = rs[r]
    BY <2>1, <2>2
  <2>4. QED
    BY <2>2, <2>3 DEF n
<1>3. \A rs \in [Read -> ReadType] :
        /\ BeginCatalog(rs) \in [Read -> ReadType] /\ BeginSettings(rs) \in [Read -> ReadType]
        /\ \A r \in Read :
             /\ BeginCatalog(rs)[r].kind = "switches" => BeginCatalog(rs)[r] = rs[r]
             /\ BeginSettings(rs)[r].kind = "switches" => BeginSettings(rs)[r] = rs[r]
  BY <1>2 DEF BeginCatalog, BeginSettings
<1>4. QED
  BY <1>1, <1>3

\* What the user and the wiring begin keeps the feeds together.
LEMMA BeginsKeep ==
  ASSUME FeedsInv, OpenCard \/ ViewSession \/ Deliver
  PROVE  FeedsInv'
<1>1. /\ reads \in [Read -> ReadType] /\ current \in Session \union {NoSession}
      /\ \A r \in Read : reads[r].kind = "switches" => reads[r].of \in Session
  BY DEF FeedsInv, FeedsTypeOK, SwitchReadsFollow
<1>0. \A n \in {BeginCatalog(reads), BeginSettings(reads), BeginCatalog(BeginSettings(reads))} :
        /\ n \in [Read -> ReadType]
        /\ \A r \in Read : n[r].kind = "switches" => n[r] = reads[r] /\ n[r].of \in Session
  BY <1>1, OtherReadsAre
<1>2. CASE OpenCard
  BY <1>0, <1>1, <1>2, RefreshKeeps DEF OpenCard, feedHost
<1>3. CASE ViewSession
  <2>1. PICK s \in Session \union {NoSession} :
          /\ current' = s
          /\ IF summary.status = "idle" THEN UNCHANGED <<reads, summary>>
             ELSE reads' = BeginSwitches(s, reads) /\ summary' = SummaryOnBegin(s)
          /\ UNCHANGED <<directory, configuredNs, recorded, namespaces, catalog, tornDown>>
    BY <1>3 DEF ViewSession
  <2>2. CASE summary.status = "idle"
    BY <2>1, <2>2 DEF FeedsInv, FeedsTypeOK, SwitchReadsFollow, SummaryIsOfView, OfferIsTheJoin
  <2>3. CASE summary.status # "idle"
    BY <1>1, <2>1, <2>3, RefreshKeeps
  <2>4. QED
    BY <2>2, <2>3
<1>4. CASE AdaptersUpdated
  <2>1. UNCHANGED <<directory, configuredNs, recorded, namespaces, summary, current, tornDown>>
    BY <1>4 DEF AdaptersUpdated, feedHost, wiring
  <2>2. CASE catalog.status = "idle"
    <3>1. UNCHANGED <<reads, catalog>>
      BY <1>4, <2>2 DEF AdaptersUpdated
    <3>2. QED
      BY <2>1, <3>1 DEF FeedsInv, FeedsTypeOK, SwitchReadsFollow, SummaryIsOfView, OfferIsTheJoin
  <2>3. CASE catalog.status # "idle"
    <3>1. reads' = BeginCatalog(reads) /\ catalog' = [catalog EXCEPT !.status = "loading"]
      BY <1>4, <2>3 DEF AdaptersUpdated
    <3>2. /\ catalog' \in [status : {"idle", "loading", "ready", "error"},
                           providers : SUBSET Provider, configured : SUBSET Provider]
          /\ catalog'.providers = catalog.providers /\ catalog'.configured = catalog.configured
      BY <3>1 DEF FeedsInv, FeedsTypeOK
    <3>3. FeedsTypeOK'
      BY <1>0, <2>1, <3>1, <3>2 DEF FeedsInv, FeedsTypeOK
    <3>4. SwitchReadsFollow'
      BY <1>0, <2>1, <3>1, <3>2 DEF FeedsInv, SwitchReadsFollow
    <3>5. QED
      BY <2>1, <3>2, <3>3, <3>4 DEF FeedsInv, SummaryIsOfView, OfferIsTheJoin
  <2>4. QED
    BY <2>2, <2>3
<1>5. CASE DocumentUpdated
  <2>1. CASE opened
    BY <1>0, <1>1, <1>5, <2>1, RefreshKeeps DEF DocumentUpdated, feedHost, wiring
  <2>2. CASE ~opened
    BY <1>5, <2>2 DEF DocumentUpdated, feedHost, wiring, FeedsInv, FeedsTypeOK, SwitchReadsFollow,
                      SummaryIsOfView, OfferIsTheJoin
  <2>3. QED
    BY <2>1, <2>2
<1>6. CASE ConnectionReset
  BY <1>6 DEF ConnectionReset, feedHost, shown, FeedsInv, FeedsTypeOK, SwitchReadsFollow,
              SummaryIsOfView, OfferIsTheJoin
<1>7. CASE RefreshAll
  <2>1. CASE ~tornDown /\ opened
    BY <1>0, <1>1, <1>7, <2>1, RefreshKeeps DEF RefreshAll, feedHost
  <2>2. CASE tornDown \/ ~opened
    BY <1>7, <2>2 DEF RefreshAll, feedHost, FeedsInv, FeedsTypeOK, SwitchReadsFollow,
                      SummaryIsOfView, OfferIsTheJoin
  <2>3. QED
    BY <2>1, <2>2
<1>8. QED
  BY <1>2, <1>3, <1>4, <1>5, <1>6, <1>7 DEF Deliver

\* Nothing that the host does shows before it is read.
LEMMA HostKeepsFeeds ==
  ASSUME FeedsInv, \/ DirectoryChanges \/ ProfileChanges \/ SwitchRecorded \/ SettingsSaved
                   \/ LinkDrops \/ LinkReturns
  PROVE  FeedsInv'
<1>1. UNCHANGED <<reads, namespaces, catalog, summary, current, tornDown>>
  BY DEF DirectoryChanges, ProfileChanges, SwitchRecorded, SettingsSaved, LinkDrops, LinkReturns,
         shown, wiring
<1>2. directory' \in SUBSET Provider /\ configuredNs' \in SUBSET Provider
  BY DEF DirectoryChanges, ProfileChanges, SwitchRecorded, SettingsSaved, LinkDrops, LinkReturns,
         feedHost, FeedsInv, FeedsTypeOK
<1>3. recorded' \in [Session -> Nat]
  BY DEF DirectoryChanges, ProfileChanges, SwitchRecorded, SettingsSaved, LinkDrops, LinkReturns,
         feedHost, FeedsInv, FeedsTypeOK
<1>4. QED
  BY <1>1, <1>2, <1>3 DEF FeedsInv, FeedsTypeOK, SwitchReadsFollow, SummaryIsOfView, OfferIsTheJoin

\* An answer is of the read it answers.
LEMMA AnswersKeepFeeds ==
  ASSUME FeedsInv, NEW r \in Read, AnswerRead(r) \/ ReadFails(r)
  PROVE  FeedsInv'
<1>1. UNCHANGED <<directory, configuredNs, recorded, namespaces, catalog, summary, current, tornDown>>
  BY DEF AnswerRead, ReadFails, feedHost, shown, wiring
<1>2. reads[r] \in ReadType /\ reads \in [Read -> ReadType]
  BY DEF FeedsInv, FeedsTypeOK
<1>3. PICK new \in ReadType : /\ reads' = [reads EXCEPT ![r] = new]
                              /\ new.kind = reads[r].kind /\ new.latest = reads[r].latest
                              /\ new.of = reads[r].of
  <2> DEFINE ok(new) == /\ new \in ReadType /\ reads' = [reads EXCEPT ![r] = new]
                        /\ new.kind = reads[r].kind /\ new.latest = reads[r].latest
                        /\ new.of = reads[r].of
  <2>1. CASE reads' = [reads EXCEPT ![r].at = "answered", ![r].set = directory]
    <3>1. ok([reads[r] EXCEPT !.at = "answered", !.set = directory])
      BY <1>2, <2>1 DEF ReadType, FeedsInv, FeedsTypeOK
    <3>2. QED
      BY <3>1
  <2>2. CASE reads' = [reads EXCEPT ![r].at = "answered", ![r].set = configuredNs]
    <3>1. ok([reads[r] EXCEPT !.at = "answered", !.set = configuredNs])
      BY <1>2, <2>2 DEF ReadType, FeedsInv, FeedsTypeOK
    <3>2. QED
      BY <3>1
  <2>3. CASE reads' = [reads EXCEPT ![r].at = "answered", ![r].count = recorded[reads[r].of]]
             /\ recorded[reads[r].of] \in Nat
    <3>1. ok([reads[r] EXCEPT !.at = "answered", !.count = recorded[reads[r].of]])
      BY <1>2, <2>3 DEF ReadType
    <3>2. QED
      BY <3>1
  <2>4. CASE reads' = [reads EXCEPT ![r].at = "failed"]
    <3>1. ok([reads[r] EXCEPT !.at = "failed"])
      BY <1>2, <2>4 DEF ReadType
    <3>2. QED
      BY <3>1
  <2>5. reads[r].kind = "switches" => recorded[reads[r].of] \in Nat
    BY DEF FeedsInv, FeedsTypeOK, SwitchReadsFollow
  <2>6. QED
    BY <2>1, <2>2, <2>3, <2>4, <2>5 DEF AnswerRead, ReadFails
<1>4. FeedsTypeOK'
  BY <1>1, <1>2, <1>3 DEF FeedsInv, FeedsTypeOK
<1>5. SwitchReadsFollow'
  BY <1>1, <1>2, <1>3 DEF FeedsInv, SwitchReadsFollow
<1>6. QED
  BY <1>1, <1>4, <1>5 DEF FeedsInv, SummaryIsOfView, OfferIsTheJoin

\* Only the latest read of its kind publishes, and what it publishes is of the view.
LEMMA SettlesKeepFeeds ==
  ASSUME FeedsInv, NEW r \in Read, SettleRead(r)
  PROVE  FeedsInv'
<1>1. /\ reads[r].at \in {"answered", "failed"} /\ reads' = [reads EXCEPT ![r] = NoRead]
      /\ UNCHANGED <<directory, configuredNs, recorded, current, tornDown>>
  BY DEF SettleRead, feedHost, wiring
<1>2. reads[r] \in ReadType /\ NoRead \in ReadType /\ NoRead.kind = "none"
  BY DEF FeedsInv, FeedsTypeOK, NoRead, ReadType
<1>3. /\ reads' \in [Read -> ReadType]
      /\ \A q \in Read : reads'[q].kind = "switches" => reads'[q] = reads[q]
  BY <1>1, <1>2 DEF FeedsInv, FeedsTypeOK
<1>4. CASE UNCHANGED <<namespaces, catalog, summary>>
  BY <1>1, <1>3, <1>4 DEF FeedsInv, FeedsTypeOK, SwitchReadsFollow, SummaryIsOfView, OfferIsTheJoin
<1>5. CASE PublishSettings(reads[r])
  <2>1. namespaces' \in SUBSET Provider
    BY <1>2, <1>5 DEF PublishSettings, ReadType, FeedsInv, FeedsTypeOK
  <2>2. /\ catalog' = [catalog EXCEPT !.configured = catalog.providers \intersect namespaces']
        /\ summary' = summary
    BY <1>5 DEF PublishSettings
  <2>3. /\ catalog' \in [status : {"idle", "loading", "ready", "error"},
                         providers : SUBSET Provider, configured : SUBSET Provider]
        /\ catalog'.configured = catalog'.providers \intersect namespaces'
    BY <2>1, <2>2 DEF FeedsInv, FeedsTypeOK
  <2>4. FeedsTypeOK'
    BY <1>1, <1>3, <2>1, <2>2, <2>3 DEF FeedsInv, FeedsTypeOK
  <2>5. QED
    BY <1>1, <1>3, <2>2, <2>3, <2>4 DEF FeedsInv, SwitchReadsFollow, SummaryIsOfView, OfferIsTheJoin
<1>6. CASE PublishCatalog(reads[r])
  <2>1. namespaces' = namespaces /\ summary' = summary
    BY <1>6 DEF PublishCatalog
  <2>2. /\ catalog' \in [status : {"idle", "loading", "ready", "error"},
                         providers : SUBSET Provider, configured : SUBSET Provider]
        /\ ~tornDown => catalog'.configured = catalog'.providers \intersect namespaces
    <3>1. CASE reads[r].at = "failed"
      BY <1>6, <3>1 DEF PublishCatalog, FeedsInv, FeedsTypeOK, OfferIsTheJoin
    <3>2. CASE reads[r].at # "failed"
      <4>1. catalog' = [status |-> "ready", providers |-> reads[r].set,
                        configured |-> reads[r].set \intersect namespaces]
        BY <1>6, <3>2 DEF PublishCatalog
      <4>2. reads[r].set \in SUBSET Provider
        BY <1>2 DEF ReadType
      <4>3. QED
        BY <4>1, <4>2
    <3>3. QED
      BY <3>1, <3>2
  <2>3. FeedsTypeOK'
    BY <1>1, <1>3, <2>1, <2>2 DEF FeedsInv, FeedsTypeOK
  <2>4. QED
    BY <1>1, <1>3, <2>1, <2>2, <2>3 DEF FeedsInv, SwitchReadsFollow, SummaryIsOfView, OfferIsTheJoin
<1>7. CASE reads[r].latest /\ reads[r].kind = "switches" /\ PublishSwitches(reads[r])
  <2>1. namespaces' = namespaces /\ catalog' = catalog
    BY <1>7 DEF PublishSwitches
  <2>2. reads[r].of = current /\ summary.status # "idle"
    BY <1>7 DEF FeedsInv, SwitchReadsFollow
  <2>3. /\ summary' \in [status : {"idle", "loading", "ready", "error"},
                         of : Session \union {NoSession}, count : Nat]
        /\ summary'.status # "idle" /\ (summary'.status = "ready" => summary'.of = current)
    <3>1. CASE reads[r].at = "failed"
      BY <1>7, <3>1 DEF PublishSwitches, FeedsInv, FeedsTypeOK
    <3>2. CASE reads[r].at # "failed"
      <4>1. summary' = [status |-> "ready", of |-> reads[r].of, count |-> reads[r].count]
        BY <1>7, <3>2 DEF PublishSwitches
      <4>2. reads[r].of \in Session \union {NoSession} /\ reads[r].count \in Nat
        BY <1>2 DEF ReadType
      <4>3. QED
        BY <2>2, <4>1, <4>2
    <3>3. QED
      BY <3>1, <3>2
  <2>4. FeedsTypeOK'
    BY <1>1, <1>3, <2>1, <2>3 DEF FeedsInv, FeedsTypeOK
  <2>5. QED
    BY <1>1, <1>3, <2>1, <2>3, <2>4 DEF FeedsInv, SwitchReadsFollow, SummaryIsOfView, OfferIsTheJoin
<1>8. QED
  BY <1>4, <1>5, <1>6, <1>7 DEF SettleRead, shown

\* After the teardown nothing may publish any more.
LEMMA TearDownKeeps ==
  ASSUME FeedsInv, TearDown
  PROVE  FeedsInv'
<1>1. /\ tornDown' /\ namespaces' = {}
      /\ reads' = [r \in Read |-> [reads[r] EXCEPT !.latest = FALSE]]
      /\ UNCHANGED <<directory, configuredNs, recorded, catalog, summary, current>>
  BY DEF TearDown, feedHost
<1>2. \A r \in Read : /\ reads[r] \in ReadType /\ [reads[r] EXCEPT !.latest = FALSE] \in ReadType
                      /\ [reads[r] EXCEPT !.latest = FALSE].kind = reads[r].kind
                      /\ [reads[r] EXCEPT !.latest = FALSE].of = reads[r].of
                      /\ ~[reads[r] EXCEPT !.latest = FALSE].latest
  BY DEF FeedsInv, FeedsTypeOK, ReadType
<1>3. /\ reads' \in [Read -> ReadType]
      /\ \A r \in Read : reads'[r].kind = reads[r].kind /\ reads'[r].of = reads[r].of /\ ~reads'[r].latest
  BY <1>1, <1>2
<1>4. FeedsTypeOK'
  BY <1>1, <1>3 DEF FeedsInv, FeedsTypeOK
<1>5. QED
  BY <1>1, <1>3, <1>4 DEF FeedsInv, SwitchReadsFollow, SummaryIsOfView, OfferIsTheJoin

\* What the cards show belongs together in every state, for any number of sessions, providers
\* and reads in flight: the summary is of the session on view, and the providers offered are
\* those of the last directory that the last describe resolves.
THEOREM FeedsBelongTogether == FeedsSpec => []FeedsAreCurrent
<1>1. FeedsInit => FeedsInv
  <2> SUFFICES ASSUME FeedsInit PROVE FeedsInv
    OBVIOUS
  <2>1. NoRead \in ReadType /\ NoRead.kind = "none"
    BY DEF NoRead, ReadType
  <2>2. reads \in [Read -> ReadType] /\ \A r \in Read : reads[r].kind = "none"
    BY <2>1 DEF FeedsInit
  <2>3. QED
    BY <2>2 DEF FeedsInit, FeedsInv, FeedsTypeOK, SwitchReadsFollow, SummaryIsOfView, OfferIsTheJoin
<1>2. FeedsInv /\ [FeedsNext]_feedVars => FeedsInv'
  <2> SUFFICES ASSUME FeedsInv, [FeedsNext]_feedVars PROVE FeedsInv'
    OBVIOUS
  <2>1. CASE UNCHANGED feedVars
    BY <2>1 DEF feedVars, feedHost, shown, wiring, FeedsInv, FeedsTypeOK, SwitchReadsFollow,
                SummaryIsOfView, OfferIsTheJoin
  <2>2. QED
    BY <2>1, BeginsKeep, HostKeepsFeeds, AnswersKeepFeeds, SettlesKeepFeeds, TearDownKeeps
    DEF FeedsNext
<1>3. FeedsInv => FeedsAreCurrent
  BY DEF FeedsInv, FeedsAreCurrent
<1>4. QED
  BY <1>1, <1>2, <1>3, PTL DEF FeedsSpec

-----------------------------------------------------------------------------
(* The settings store, its host and its form.                              *)

CallType ==
  [kind : {"none", "load", "set", "sync"},
   at : {"none", "sent", "mutating", "committed", "answered"},
   mine : BOOLEAN, undisturbed : BOOLEAN, section : Section \union {"none"},
   patch : Config, base : Int, reply : Reading \union {Failed}]

HostTypeOK ==
  /\ held \in Config /\ legacy \in BOOLEAN /\ allowed \in SUBSET (Value \union {AutoRoute})
  /\ rev \in Nat /\ changed \in [Section -> Nat]

StoreTypeOK ==
  /\ HostTypeOK /\ calls \in [Call -> CallType] /\ view \in Reading /\ rows \in Config

ChangesAreDated == \A s \in Section : changed[s] <= rev

\* A reading of the host's present revision is what the host holds, and one of an older
\* revision is right about every section that has not changed since.
Fresh(r) ==
  /\ r.rev <= rev
  /\ r.rev = rev => r.config = held /\ r.legacy = legacy /\ r.allowed = allowed
  /\ \A s \in Section : r.config[s] = held[s] \/ changed[s] > r.rev

ViewIsFresh == Fresh(view)
AnswersAreFresh ==
  \A c \in Call : calls[c].at = "answered" /\ calls[c].reply # Failed => Fresh(calls[c].reply)

\* A sync between its read and its write carries a reading.
PlansAreReadings == \A c \in Call : calls[c].at = "mutating" => calls[c].reply \in Reading

\* What a save under way would put into another section is what the host holds there, or
\* what it held when the store read it last.
SaveIsOfTheView(c) ==
  /\ calls[c].section \in Section /\ calls[c].base <= rev
  /\ \A s \in Section \ {calls[c].section} :
       calls[c].patch[s] = held[s] \/ changed[s] > calls[c].base
SavesAreOfTheView ==
  \A c \in Call : calls[c].kind = "set" /\ calls[c].at = "sent" => SaveIsOfTheView(c)

\* One load may publish; if no write was in flight when it began, and none has begun since,
\* none is in flight, and its answer is no older than the view.
OneLoadPublishes ==
  \A c, d \in Call : calls[c].kind = "load" /\ calls[c].mine
                     /\ calls[d].kind = "load" /\ calls[d].mine => c = d
Clear(c) == /\ calls[c].kind = "load" /\ calls[c].mine /\ calls[c].undisturbed
            /\ calls[c].section # "main"
LoadsAreNewer ==
  \A c \in Call : Clear(c) =>
    /\ \A d \in Call : calls[d].kind \notin {"set", "sync"}
    /\ calls[c].at = "answered" /\ calls[c].reply # Failed => calls[c].reply.rev >= view.rev

StoreInv ==
  /\ StoreTypeOK /\ ChangesAreDated /\ ViewIsFresh /\ AnswersAreFresh /\ PlansAreReadings
  /\ SavesAreOfTheView /\ OneLoadPublishes /\ LoadsAreNewer

\* What a step of the host may do: leave everything, or move the revision on and date every
\* section it changes.
HostAdvances ==
  \/ UNCHANGED hostVars
  \/ /\ rev' = rev + 1
     /\ \A s \in Section : (held'[s] = held[s] /\ changed'[s] = changed[s]) \/ changed'[s] = rev + 1

\* A reading, and a save's patch, that will still be right after the step.
StillFresh(r) ==
  /\ r.rev <= rev'
  /\ r.rev = rev' => r.config = held' /\ r.legacy = legacy' /\ r.allowed = allowed'
  /\ \A s \in Section : r.config[s] = held'[s] \/ changed'[s] > r.rev
StillOfTheView(c) ==
  /\ calls[c].section \in Section /\ calls[c].base <= rev'
  /\ \A s \in Section \ {calls[c].section} :
       calls[c].patch[s] = held'[s] \/ changed'[s] > calls[c].base

\* What the host answers in a step: a failure, or a reading of what the step leaves.
NewAnswer(r) == r = Failed \/ (StillFresh(r) /\ r.rev = rev')

\* A step of the host leaves no reading and no save wrong about what it does not date.
LEMMA HostKeeps ==
  ASSUME StoreTypeOK, ChangesAreDated, HostAdvances, HostTypeOK'
  PROVE  /\ ChangesAreDated'
         /\ \A r \in Reading : Fresh(r) => StillFresh(r)
         /\ \A c \in Call : SaveIsOfTheView(c) => StillOfTheView(c)
<1>1. /\ rev \in Nat /\ rev' \in Nat /\ changed \in [Section -> Nat] /\ changed' \in [Section -> Nat]
      /\ \A r \in Reading : r.rev \in Int
      /\ \A c \in Call : calls[c].base \in Int
  BY DEF StoreTypeOK, HostTypeOK, Reading, CallType
<1>2. CASE UNCHANGED hostVars
  BY <1>2 DEF hostVars, ChangesAreDated, Fresh, StillFresh, SaveIsOfTheView, StillOfTheView
<1>3. CASE /\ rev' = rev + 1
           /\ \A s \in Section : \/ held'[s] = held[s] /\ changed'[s] = changed[s]
                                 \/ changed'[s] = rev + 1
  <2>1. ChangesAreDated'
    BY <1>1, <1>3 DEF ChangesAreDated
  <2>2. ASSUME NEW r \in Reading, Fresh(r) PROVE StillFresh(r)
    BY <1>1, <1>3, <2>2 DEF Fresh, StillFresh
  <2>3. ASSUME NEW c \in Call, SaveIsOfTheView(c) PROVE StillOfTheView(c)
    <3>1. \A s \in Section \ {calls[c].section} :
            calls[c].patch[s] = held'[s] \/ changed'[s] > calls[c].base
      BY <1>1, <1>3, <2>3 DEF SaveIsOfTheView
    <3>2. QED
      BY <1>1, <1>3, <2>3, <3>1 DEF SaveIsOfTheView, StillOfTheView
  <2>4. QED
    BY <2>1, <2>2, <2>3
<1>4. QED
  BY <1>2, <1>3 DEF HostAdvances

\* A step that serves calls, whatever the host does in it: every call stays the call it is,
\* none is sent again, and a new answer is a reading of the host as the step leaves it.
LEMMA ServingKeeps ==
  ASSUME StoreInv, HostAdvances, HostTypeOK', UNCHANGED <<view, rows>>, calls' \in [Call -> CallType],
         \A c \in Call :
           /\ calls'[c].kind = calls[c].kind /\ calls'[c].mine = calls[c].mine
           /\ calls'[c].undisturbed = calls[c].undisturbed
           /\ calls'[c].section = calls[c].section /\ calls'[c].patch = calls[c].patch
           /\ calls'[c].base = calls[c].base
           /\ calls'[c].at = "sent" => calls[c].at = "sent"
           /\ calls'[c].at = "mutating" => calls'[c].reply \in Reading
           /\ calls'[c].at = "answered" =>
                \/ calls[c].at = "answered" /\ calls'[c].reply = calls[c].reply
                \/ NewAnswer(calls'[c].reply)
  PROVE  StoreInv'
<1>1. /\ ChangesAreDated'
      /\ \A r \in Reading : Fresh(r) => StillFresh(r)
      /\ \A c \in Call : SaveIsOfTheView(c) => StillOfTheView(c)
  BY HostKeeps DEF StoreInv
<1>2. StoreTypeOK' /\ PlansAreReadings'
  BY DEF StoreInv, StoreTypeOK, PlansAreReadings
<1>3. StillFresh(view)
  BY <1>1 DEF StoreInv, StoreTypeOK, ViewIsFresh
<1>4. ViewIsFresh'
  BY <1>3 DEF ViewIsFresh, Fresh, StillFresh
<1>5. AnswersAreFresh'
  <2> SUFFICES ASSUME NEW c \in Call, calls'[c].at = "answered", calls'[c].reply # Failed
               PROVE  Fresh(calls[c].reply)'
    BY DEF AnswersAreFresh
  <2>1. StillFresh(calls'[c].reply)
    <3>1. CASE calls[c].at = "answered" /\ calls'[c].reply = calls[c].reply
      <4>1. calls[c].reply \in Reading
        BY <3>1 DEF StoreInv, StoreTypeOK, CallType
      <4>2. Fresh(calls[c].reply)
        BY <3>1 DEF StoreInv, AnswersAreFresh
      <4>3. QED
        BY <1>1, <3>1, <4>1, <4>2
    <3>2. QED
      BY <3>1 DEF NewAnswer
  <2>2. QED
    BY <2>1 DEF Fresh, StillFresh
<1>6. SavesAreOfTheView'
  <2> SUFFICES ASSUME NEW c \in Call, calls'[c].kind = "set", calls'[c].at = "sent"
               PROVE  SaveIsOfTheView(c)'
    BY DEF SavesAreOfTheView
  <2>1. StillOfTheView(c)
    BY <1>1 DEF StoreInv, SavesAreOfTheView
  <2>2. QED
    BY <2>1 DEF SaveIsOfTheView, StillOfTheView
<1>7. OneLoadPublishes'
  BY DEF StoreInv, OneLoadPublishes
<1>8. LoadsAreNewer'
  <2> SUFFICES ASSUME NEW c \in Call, Clear(c)'
               PROVE  /\ \A d \in Call : calls'[d].kind \notin {"set", "sync"}
                      /\ calls'[c].at = "answered" /\ calls'[c].reply # Failed =>
                           calls'[c].reply.rev >= view'.rev
    BY DEF LoadsAreNewer
  <2>1. Clear(c)
    BY DEF Clear
  <2>2. \A d \in Call : calls'[d].kind \notin {"set", "sync"}
    BY <2>1 DEF StoreInv, LoadsAreNewer
  <2>3. ASSUME calls'[c].at = "answered", calls'[c].reply # Failed
        PROVE  calls'[c].reply.rev >= view'.rev
    <3>1. CASE calls[c].at = "answered" /\ calls'[c].reply = calls[c].reply
      BY <2>1, <2>3, <3>1 DEF StoreInv, LoadsAreNewer
    <3>2. CASE calls'[c].reply.rev = rev'
      <4>1. view'.rev <= rev' /\ view'.rev \in Int /\ rev' \in Int
        BY <1>2, <1>4 DEF ViewIsFresh, Fresh, StoreTypeOK, HostTypeOK, Reading
      <4>2. QED
        BY <3>2, <4>1
    <3>3. QED
      BY <2>3, <3>1, <3>2 DEF NewAnswer
  <2>4. QED
    BY <2>2, <2>3
<1>9. QED
  BY <1>1, <1>2, <1>4, <1>5, <1>6, <1>7, <1>8 DEF StoreInv

\* A reading is what a reading says.
LEMMA ReadingIs ==
  ASSUME NEW c \in Config, NEW l \in BOOLEAN, NEW a \in SUBSET (Value \union {AutoRoute}), NEW n \in Int
  PROVE  [outcome |-> "read", config |-> c, legacy |-> l, allowed |-> a, rev |-> n] \in Reading
<1> DEFINE Lists == SUBSET (Value \union {AutoRoute})
<1>1. Reading = [outcome : {"read"}, config : Config, legacy : BOOLEAN, allowed : Lists, rev : Int]
  BY DEF Reading
<1>2. a \in Lists
  OBVIOUS
<1> HIDE DEF Lists
<1>3. QED
  BY <1>1, <1>2

\* The allowlist a reading carries names values and the virtual route.
LEMMA AllowedIs ==
  ASSUME NEW r \in Reading
  PROVE  r.allowed \in SUBSET (Value \union {AutoRoute})
<1> DEFINE Lists == SUBSET (Value \union {AutoRoute})
<1>1. r \in [outcome : {"read"}, config : Config, legacy : BOOLEAN, allowed : Lists, rev : Int]
  BY DEF Reading
<1> HIDE DEF Lists
<1>2. r.allowed \in Lists
  BY <1>1
<1>3. QED
  BY <1>2 DEF Lists

\* The host's reading is one, and what a call carries has its type.
LEMMA ReadResultIs ==
  ASSUME StoreTypeOK
  PROVE  ReadResult \in Reading /\ ReadResult.rev = rev /\ Fresh(ReadResult)
<1>1. ReadResult \in Reading
  <2>1. HostTypeOK
    BY DEF StoreTypeOK
  <2>2. QED
    BY <2>1, ReadingIs DEF ReadResult, HostTypeOK
<1>2. /\ ReadResult.rev = rev /\ ReadResult.config = held
      /\ ReadResult.legacy = legacy /\ ReadResult.allowed = allowed
  BY DEF ReadResult
<1>3. QED
  BY <1>1, <1>2 DEF Fresh, StoreTypeOK, HostTypeOK

\* A merge is a step of the host.
LEMMA MergeMoves ==
  ASSUME StoreTypeOK, NEW T \in SUBSET Section, NEW patch \in [T -> Value], Merge(patch),
         legacy' \in BOOLEAN, allowed' = allowed
  PROVE  HostAdvances /\ HostTypeOK' /\ held' = Merged(patch) /\ Merged(patch) \in Config
<1>1. Merged(patch) \in Config
  BY DEF Merged, Config, StoreTypeOK, HostTypeOK
<1>2. HostTypeOK'
  <2>1. HostTypeOK
    BY DEF StoreTypeOK
  <2>2. rev' \in Nat /\ changed' \in [Section -> Nat]
    BY <2>1 DEF Merge, HostTypeOK
  <2>3. QED
    BY <1>1, <2>1, <2>2 DEF Merge, HostTypeOK
<1>3. ASSUME NEW s \in Section
      PROVE  (held'[s] = held[s] /\ changed'[s] = changed[s]) \/ changed'[s] = rev + 1
  BY DEF Merge
<1>4. QED
  BY <1>1, <1>2, <1>3 DEF Merge, HostAdvances

\* What a call may carry as its answer.
Replies == Reading \union {Failed}

\* A call moves to where it is served next, with a reply, and keeps everything else.
ServedAs(c, at, reply) == calls' = [calls EXCEPT ![c].at = at, ![c].reply = reply]

\* What serving a call leaves of the calls in flight.
LEMMA ServedIs ==
  ASSUME StoreTypeOK, NEW c \in Call, NEW at \in {"mutating", "committed", "answered"},
         NEW reply \in Replies, ServedAs(c, at, reply)
  PROVE  /\ calls' \in [Call -> CallType]
         /\ calls'[c].at = at /\ calls'[c].reply = reply
         /\ \A d \in Call :
              /\ d # c => calls'[d] = calls[d]
              /\ calls'[d].kind = calls[d].kind /\ calls'[d].mine = calls[d].mine
              /\ calls'[d].undisturbed = calls[d].undisturbed
              /\ calls'[d].section = calls[d].section /\ calls'[d].patch = calls[d].patch
              /\ calls'[d].base = calls[d].base
<1> DEFINE moved == [calls[c] EXCEPT !.at = at]
           new == [moved EXCEPT !.reply = reply]
<1>1. calls \in [Call -> CallType]
  BY DEF StoreTypeOK
<1>2. /\ moved \in CallType /\ moved.at = at
      /\ moved.kind = calls[c].kind /\ moved.mine = calls[c].mine
      /\ moved.undisturbed = calls[c].undisturbed /\ moved.section = calls[c].section
      /\ moved.patch = calls[c].patch /\ moved.base = calls[c].base
  <2>1. calls[c] \in CallType
    BY <1>1
  <2>2. QED
    BY <2>1 DEF CallType
<1> HIDE DEF moved
<1>3. /\ new \in CallType /\ new.at = at /\ new.reply = reply
      /\ new.kind = calls[c].kind /\ new.mine = calls[c].mine
      /\ new.undisturbed = calls[c].undisturbed /\ new.section = calls[c].section
      /\ new.patch = calls[c].patch /\ new.base = calls[c].base
  BY <1>2 DEF CallType, Replies
<1>4. calls' = [calls EXCEPT ![c] = new]
  BY <1>1 DEF ServedAs, moved
<1> HIDE DEF new
<1>5. QED
  BY <1>1, <1>3, <1>4

\* A call is served: the host moves or not, the call gets an answer or a plan.
LEMMA ServedKeeps ==
  ASSUME StoreInv, HostAdvances, HostTypeOK', UNCHANGED <<view, rows>>,
         NEW c \in Call, NEW at \in {"mutating", "committed", "answered"},
         NEW reply \in Replies, ServedAs(c, at, reply),
         at = "mutating" => reply \in Reading,
         at = "answered" => NewAnswer(reply)
  PROVE  StoreInv'
<1>1. StoreTypeOK
  BY DEF StoreInv
<1>2. /\ calls' \in [Call -> CallType]
      /\ calls'[c].at = at /\ calls'[c].reply = reply
      /\ \A d \in Call :
           /\ d # c => calls'[d] = calls[d]
           /\ calls'[d].kind = calls[d].kind /\ calls'[d].mine = calls[d].mine
           /\ calls'[d].undisturbed = calls[d].undisturbed
           /\ calls'[d].section = calls[d].section /\ calls'[d].patch = calls[d].patch
           /\ calls'[d].base = calls[d].base
  BY <1>1, ServedIs
<1>3. ASSUME NEW d \in Call
      PROVE  /\ calls'[d].at = "sent" => calls[d].at = "sent"
             /\ calls'[d].at = "mutating" => calls'[d].reply \in Reading
             /\ calls'[d].at = "answered" =>
                  \/ calls[d].at = "answered" /\ calls'[d].reply = calls[d].reply
                  \/ NewAnswer(calls'[d].reply)
  <2>1. CASE d = c
    BY <1>2, <2>1
  <2>2. CASE d # c
    BY <1>2, <2>2 DEF StoreInv, PlansAreReadings
  <2>3. QED
    BY <2>1, <2>2
<1>4. QED
  BY <1>2, <1>3, ServingKeeps

\* The host serves a call, answers it or fails it.
LEMMA HostStepKeeps ==
  ASSUME StoreAssumption, StoreInv, NEW c \in Call, HostStep(c) \/ CallFails(c)
  PROVE  StoreInv'
<1>1. /\ StoreTypeOK /\ HostTypeOK /\ calls[c] \in CallType /\ calls[c].patch \in [Section -> Value]
      /\ calls[c].reply \in Replies
  BY DEF StoreInv, StoreTypeOK, CallType, Config, Replies
<1>2. ReadResult \in Reading /\ ReadResult.rev = rev /\ Fresh(ReadResult)
  BY <1>1, ReadResultIs
<1>3. ASSUME UNCHANGED hostVars
      PROVE  /\ HostAdvances /\ HostTypeOK'
             /\ StillFresh(ReadResult) /\ ReadResult.rev = rev'
  <2>1. HostAdvances /\ HostTypeOK'
    BY <1>1, <1>3 DEF HostAdvances, HostTypeOK, hostVars
  <2>2. QED
    BY <1>2, <1>3, <2>1, HostKeeps DEF StoreInv, hostVars
<1>9. Failed \in Replies /\ NewAnswer(Failed) /\ \A r \in Reading : r \in Replies
  <2>1. Failed \in Replies /\ \A r \in Reading : r \in Replies
    BY DEF Replies
  <2>2. NewAnswer(Failed)
    BY DEF NewAnswer
  <2>3. QED
    BY <2>1, <2>2
<1>4. CASE Set(c)
  <2>1. CASE PatchAdmitted(calls[c].patch)
    <3>1. /\ Merge(calls[c].patch) /\ calls' = [calls EXCEPT ![c].at = "committed"]
          /\ legacy' = legacy /\ allowed' = allowed /\ UNCHANGED <<view, rows>>
      BY <1>4, <2>1 DEF Set, storeVars, formVars
    <3>4. ServedAs(c, "committed", calls[c].reply)
      <4> DEFINE to == [calls[c] EXCEPT !.at = "committed"]
      <4>1. [to EXCEPT !.reply = calls[c].reply] = to
        BY <1>1 DEF CallType
      <4>2. calls' = [calls EXCEPT ![c] = to]
        BY <3>1
      <4>3. QED
        BY <4>1, <4>2 DEF ServedAs
    <3>2. HostAdvances /\ HostTypeOK'
      BY <1>1, <3>1, MergeMoves DEF HostTypeOK
    <3>3. QED
      BY <1>1, <3>1, <3>2, <3>4, ServedKeeps
  <2>2. CASE ~PatchAdmitted(calls[c].patch)
    <3>1. /\ ServedAs(c, "answered", Failed)
          /\ UNCHANGED hostVars /\ UNCHANGED <<view, rows>>
      BY <1>4, <2>2 DEF ServedAs, Set, Answer, storeVars, formVars
    <3>2. HostAdvances /\ HostTypeOK'
      BY <1>3, <3>1
    <3>3. QED
      BY <1>9, <3>1, <3>2, ServedKeeps
  <2>3. QED
    BY <2>1, <2>2
<1>5. CASE Get(c) \/ AnswerWrite(c)
  <2>1. /\ ServedAs(c, "answered", ReadResult)
        /\ UNCHANGED hostVars /\ UNCHANGED <<view, rows>>
    BY <1>5 DEF ServedAs, Get, AnswerWrite, Answer, storeVars, formVars
  <2>2. ReadResult \in Replies /\ NewAnswer(ReadResult)
    BY <1>2, <1>3, <1>9, <2>1 DEF NewAnswer
  <2>3. QED
    BY <1>3, <2>1, <2>2, ServedKeeps
<1>6. CASE SyncAllowlist(c)
  <2> DEFINE plan == [ReadResult EXCEPT !.allowed = MergedAllowlist]
  <2>1. MergedAllowlist \in SUBSET (Value \union {AutoRoute})
    <3>1. held["main"] \in Value /\ held["sub"] \in Value
      BY <1>1 DEF HostTypeOK, Config, Section
    <3>2. allowed \in SUBSET (Value \union {AutoRoute})
      BY <1>1 DEF HostTypeOK
    <3>3. QED
      BY <3>1, <3>2 DEF MergedAllowlist
  <2>2. plan \in Reading
    <3>1. plan = [outcome |-> "read", config |-> held, legacy |-> legacy,
                  allowed |-> MergedAllowlist, rev |-> rev]
      BY DEF ReadResult
    <3>2. held \in Config /\ legacy \in BOOLEAN /\ rev \in Int
      BY <1>1 DEF HostTypeOK
    <3>3. QED
      BY <2>1, <3>1, <3>2, ReadingIs
  <2>3. /\ ServedAs(c, "mutating", plan)
        /\ UNCHANGED hostVars /\ UNCHANGED <<view, rows>>
    BY <1>6 DEF ServedAs, SyncAllowlist, storeVars, formVars
  <2> HIDE DEF plan
  <2>4. QED
    BY <1>3, <1>9, <2>2, <2>3, ServedKeeps
<1>7. CASE CommitAllowlist(c)
  <2>1. /\ ServedAs(c, "committed", Failed)
        /\ allowed' = calls[c].reply.allowed /\ rev' = rev + 1
        /\ UNCHANGED <<held, legacy, changed, view, rows>> /\ calls[c].at = "mutating"
    BY <1>7 DEF ServedAs, CommitAllowlist, storeVars, formVars
  <2>2. calls[c].reply \in Reading
    BY <2>1 DEF StoreInv, PlansAreReadings
  <2>3. HostAdvances /\ HostTypeOK'
    <3>1. allowed' \in SUBSET (Value \union {AutoRoute})
      BY <2>1, <2>2, AllowedIs
    <3>2. HostTypeOK'
      BY <1>1, <2>1, <3>1 DEF HostTypeOK
    <3>3. QED
      BY <2>1, <3>2 DEF HostAdvances
  <2>4. QED
    BY <1>9, <2>1, <2>3, ServedKeeps
<1>8. CASE CallFails(c)
  <2>1. /\ ServedAs(c, "answered", Failed)
        /\ UNCHANGED hostVars /\ UNCHANGED <<view, rows>>
    BY <1>8 DEF ServedAs, CallFails, Answer, storeVars, formVars
  <2>2. HostAdvances /\ HostTypeOK'
    BY <1>3, <2>1
  <2>3. QED
    BY <1>9, <2>1, <2>2, ServedKeeps
<1>10. QED
  BY <1>4, <1>5, <1>6, <1>7, <1>8 DEF HostStep

\* The other writers of the document move the host and touch nothing of the browser.
LEMMA OthersKeep ==
  ASSUME StoreAssumption, StoreInv, OtherSets \/ Reset
  PROVE  StoreInv'
<1>1. StoreTypeOK /\ HostTypeOK /\ calls \in [Call -> CallType]
  BY DEF StoreInv, StoreTypeOK
<1>2. HostAdvances /\ HostTypeOK'
  <2>1. CASE OtherSets
    <3>1. PICK s \in Section : \E v \in Written[s] \ {held[s]} :
            Merge([t \in {s} |-> v]) /\ legacy' = legacy /\ allowed' = allowed
      BY <2>1 DEF OtherSets
    <3>4. PICK v \in Written[s] :
            Merge([t \in {s} |-> v]) /\ legacy' = legacy /\ allowed' = allowed
      BY <3>1
    <3>2. [t \in {s} |-> v] \in [{s} -> Value] /\ {s} \in SUBSET Section
      BY DEF StoreAssumption
    <3>3. QED
      BY <1>1, <3>4, <3>2, MergeMoves DEF HostTypeOK
  <2>2. CASE Reset
    <3>1. Merge(Base) /\ legacy' = FALSE /\ allowed' = allowed /\ Base \in [Section -> Value]
      BY <2>2 DEF Reset, StoreAssumption, Config
    <3>2. QED
      BY <1>1, <3>1, MergeMoves
  <2>3. QED
    BY <2>1, <2>2
<1>3. calls' = calls /\ UNCHANGED <<view, rows>>
  BY DEF OtherSets, Reset, storeVars, formVars
<1>4. QED
  BY <1>1, <1>2, <1>3, ServingKeeps DEF StoreInv, PlansAreReadings

\* A step of the browser leaves the host alone: the answers in flight are right if they
\* were, and so are the saves that were under way.
LEMMA BrowserKeeps ==
  ASSUME StoreInv, UNCHANGED hostVars,
         \A c \in Call :
           /\ calls'[c].at \in {"answered", "mutating"} =>
                calls'[c].at = calls[c].at /\ calls'[c].reply = calls[c].reply
           /\ calls'[c].kind = "set" /\ calls'[c].at = "sent" =>
                \/ /\ calls[c].kind = "set" /\ calls[c].at = "sent"
                   /\ calls'[c].section = calls[c].section /\ calls'[c].patch = calls[c].patch
                   /\ calls'[c].base = calls[c].base
                \/ SaveIsOfTheView(c)'
  PROVE  /\ HostTypeOK' /\ ChangesAreDated' /\ AnswersAreFresh' /\ PlansAreReadings'
         /\ SavesAreOfTheView' /\ \A r : Fresh(r) => StillFresh(r)
<1>1. HostTypeOK' /\ ChangesAreDated'
  BY DEF StoreInv, StoreTypeOK, HostTypeOK, ChangesAreDated, hostVars
<1>2. AnswersAreFresh'
  BY DEF StoreInv, AnswersAreFresh, Fresh, hostVars
<1>3. PlansAreReadings'
  BY DEF StoreInv, PlansAreReadings
<1>4. SavesAreOfTheView'
  BY DEF StoreInv, SavesAreOfTheView, SaveIsOfTheView, hostVars
<1>5. \A r : Fresh(r) => StillFresh(r)
  BY DEF Fresh, StillFresh, hostVars
<1>6. QED
  BY <1>1, <1>2, <1>3, <1>4, <1>5

\* A call that begins is sent, the latest of its kind, and of the view.
LEMMA NewCallIs ==
  ASSUME view \in Reading, NEW kind \in {"load", "set", "sync"},
         NEW section \in Section \union {"none"}, NEW patch \in Config,
         NEW n, n = NewCall(kind, section, patch)
  PROVE  /\ n \in CallType /\ n.kind = kind /\ n.at = "sent" /\ n.mine /\ n.undisturbed
         /\ n.section = section /\ n.patch = patch /\ n.base = view.rev
<1>1. view.rev \in Int
  BY DEF Reading
<1>2. QED
  BY <1>1 DEF CallType, NewCall

\* What the console shows before any reading is a configuration.
LEMMA SkeletonIs == ASSUME StoreAssumption PROVE Skeleton \in Config
BY DEF StoreAssumption, Skeleton, Config

\* A call that begins takes a name no call in flight has.
LEMMA FreeCallIs == ASSUME IsFree PROVE FreeCall \in Call /\ calls[FreeCall].kind = "none"
BY DEF IsFree, FreeCall, InFlight

\* What a generation counter does to the calls in flight.
LEMMA NextReadIs ==
  ASSUME StoreTypeOK
  PROVE  /\ NextRead \in [Call -> CallType]
         /\ \A c \in Call :
              LET n == NextRead[c] IN
              /\ n.kind = calls[c].kind /\ n.at = calls[c].at /\ n.reply = calls[c].reply
              /\ n.section = calls[c].section /\ n.patch = calls[c].patch /\ n.base = calls[c].base
              /\ calls[c].kind = "load" => ~n.mine
<1>1. ASSUME NEW c \in Call
      PROVE  LET n == NextRead[c] IN
             /\ n \in CallType
             /\ n.kind = calls[c].kind /\ n.at = calls[c].at /\ n.reply = calls[c].reply
             /\ n.section = calls[c].section /\ n.patch = calls[c].patch /\ n.base = calls[c].base
             /\ calls[c].kind = "load" => ~n.mine
  <2>1. calls[c] \in CallType
    BY DEF StoreTypeOK
  <2>2. NextRead[c] = IF calls[c].kind = "load" THEN [calls[c] EXCEPT !.mine = FALSE] ELSE calls[c]
    BY DEF NextRead
  <2>3. QED
    BY <2>1, <2>2 DEF CallType
<1>2. NextRead = [c \in Call |-> NextRead[c]]
  BY DEF NextRead
<1>3. QED
  BY <1>1, <1>2

\* A write supersedes the writes in flight and disturbs the loads.
LEMMA NextWriteIs ==
  ASSUME StoreTypeOK
  PROVE  /\ NextWrite \in [Call -> CallType]
         /\ \A c \in Call :
              LET n == NextWrite[c] IN
              /\ n.kind = calls[c].kind /\ n.at = calls[c].at /\ n.reply = calls[c].reply
              /\ n.section = calls[c].section /\ n.patch = calls[c].patch /\ n.base = calls[c].base
              /\ n.mine => calls[c].mine
              /\ calls[c].kind = "load" => ~n.undisturbed
<1>1. ASSUME NEW c \in Call
      PROVE  LET n == NextWrite[c] IN
             /\ n \in CallType
             /\ n.kind = calls[c].kind /\ n.at = calls[c].at /\ n.reply = calls[c].reply
             /\ n.section = calls[c].section /\ n.patch = calls[c].patch /\ n.base = calls[c].base
             /\ n.mine => calls[c].mine
             /\ calls[c].kind = "load" => ~n.undisturbed
  <2>1. calls[c] \in CallType
    BY DEF StoreTypeOK
  <2>2. NextWrite[c] = IF calls[c].kind = "load" THEN [calls[c] EXCEPT !.undisturbed = FALSE]
                       ELSE [calls[c] EXCEPT !.mine = FALSE]
    BY DEF NextWrite
  <2>3. QED
    BY <2>1, <2>2 DEF CallType
<1>2. NextWrite = [c \in Call |-> NextWrite[c]]
  BY DEF NextWrite
<1>3. QED
  BY <1>1, <1>2

\* A load supersedes the loads in flight; it is clear only if no write is under way.
LEMMA LoadKeeps ==
  ASSUME StoreAssumption, StoreInv, Mount \/ Refresh
  PROVE  StoreInv'
<1>0. PICK f, n, kind, section, patch :
        /\ f = FreeCall /\ n = NewCall(kind, section, patch) /\ kind = "load" /\ patch = Skeleton
        /\ section = IF InFlight({"set", "sync"}) = {} THEN "none" ELSE "main"
  OBVIOUS
<1>1. /\ IsFree /\ calls' = [NextRead EXCEPT ![f] = n]
      /\ UNCHANGED hostVars /\ view' = view /\ rows' = rows
  BY <1>0 DEF Mount, Refresh, Load, formVars
<1>2. StoreTypeOK /\ calls \in [Call -> CallType] /\ view \in Reading
  BY DEF StoreInv, StoreTypeOK
<1>3. f \in Call /\ calls[f].kind = "none"
  BY <1>0, <1>1, FreeCallIs
<1>4. kind = "load" /\ section \in Section \union {"none"} /\ patch \in Config
  BY <1>0, SkeletonIs DEF Section
<1>5. /\ n \in CallType /\ n.kind = "load" /\ n.at = "sent" /\ n.section = section
  <2>1. n = NewCall(kind, section, patch)
    BY <1>0
  <2>2. /\ view \in Reading /\ kind \in {"load", "set", "sync"}
        /\ section \in Section \union {"none"} /\ patch \in Config
    BY <1>2, <1>4
  <2>3. n \in CallType /\ n.kind = kind /\ n.at = "sent" /\ n.section = section
    BY <2>1, <2>2, NewCallIs
  <2>4. QED
    BY <1>4, <2>3
<1>6. /\ NextRead \in [Call -> CallType]
      /\ \A c \in Call :
           /\ NextRead[c].kind = calls[c].kind /\ NextRead[c].at = calls[c].at
           /\ NextRead[c].reply = calls[c].reply /\ NextRead[c].section = calls[c].section
           /\ NextRead[c].patch = calls[c].patch /\ NextRead[c].base = calls[c].base
           /\ calls[c].kind = "load" => ~NextRead[c].mine
  BY <1>2, NextReadIs
<1>7. section # "main" => \A d \in Call : calls[d].kind \notin {"set", "sync"}
  BY <1>0 DEF InFlight
<1>8. /\ calls' \in [Call -> CallType] /\ calls'[f] = n
      /\ \A c \in Call : c # f => calls'[c] = NextRead[c]
  BY <1>1, <1>3, <1>5, <1>6
<1>9. \A c \in Call :
        /\ calls'[c].at \in {"answered", "mutating"} =>
             calls'[c].at = calls[c].at /\ calls'[c].reply = calls[c].reply
        /\ calls'[c].kind = "set" /\ calls'[c].at = "sent" =>
             /\ calls[c].kind = "set" /\ calls[c].at = "sent"
             /\ calls'[c].section = calls[c].section /\ calls'[c].patch = calls[c].patch
             /\ calls'[c].base = calls[c].base
  BY <1>5, <1>6, <1>8
<1>10. /\ HostTypeOK' /\ ChangesAreDated' /\ AnswersAreFresh' /\ PlansAreReadings'
       /\ SavesAreOfTheView' /\ \A r : Fresh(r) => StillFresh(r)
  BY <1>1, <1>9, BrowserKeeps
<1>11. StoreTypeOK'
  BY <1>1, <1>8, <1>10 DEF StoreInv, StoreTypeOK
<1>12. ViewIsFresh'
  BY <1>1 DEF StoreInv, ViewIsFresh, Fresh, hostVars
<1>13. \A c \in Call : calls'[c].kind = "load" /\ calls'[c].mine => c = f
  BY <1>6, <1>8
<1>14. OneLoadPublishes'
  BY <1>13 DEF OneLoadPublishes
<1>15. LoadsAreNewer'
  <2> SUFFICES ASSUME NEW c \in Call, Clear(c)'
               PROVE  /\ \A d \in Call : calls'[d].kind \notin {"set", "sync"}
                      /\ calls'[c].at # "answered"
    BY DEF LoadsAreNewer
  <2>1. c = f /\ section # "main"
    BY <1>5, <1>8, <1>13 DEF Clear
  <2>2. QED
    BY <1>5, <1>6, <1>7, <1>8, <2>1
<1>16. QED
  BY <1>10, <1>11, <1>12, <1>14, <1>15 DEF StoreInv

\* A write disturbs the loads in flight; a save's patch is the section's draft over the view.
LEMMA WriteKeeps ==
  ASSUME StoreAssumption, StoreInv, Save \/ Sync
  PROVE  StoreInv'
<1>0. PICK f : f = FreeCall
  OBVIOUS
<1>1. /\ StoreTypeOK /\ calls \in [Call -> CallType] /\ view \in Reading
      /\ rows \in Config /\ view.config \in Config
  BY DEF StoreInv, StoreTypeOK, Reading
<1>2. PICK n \in CallType :
        /\ IsFree /\ calls' = [NextWrite EXCEPT ![f] = n]
        /\ n.kind \in {"set", "sync"} /\ n.at = "sent"
        /\ n.kind = "set" => /\ n.section \in Section /\ n.base = view.rev
                             /\ \A s \in Section \ {n.section} : n.patch[s] = view.config[s]
  <2>1. CASE Save
    <3>1. PICK s \in Section :
            IsFree /\ calls' = [NextWrite EXCEPT ![FreeCall] = NewCall("set", s, SectionPatch(s))]
      BY <2>1 DEF Save
    <3>2. /\ SectionPatch(s) \in Config
          /\ \A t \in Section \ {s} : SectionPatch(s)[t] = view.config[t]
      BY <1>1 DEF SectionPatch, Config
    <3>6. PICK n : n = NewCall("set", s, SectionPatch(s))
      OBVIOUS
    <3>3. /\ n \in CallType /\ n.kind = "set" /\ n.at = "sent" /\ n.section = s
          /\ n.patch = SectionPatch(s) /\ n.base = view.rev
      BY <1>1, <3>2, <3>6, NewCallIs
    <3>4. calls' = [NextWrite EXCEPT ![f] = n] /\ IsFree
      BY <1>0, <3>1, <3>6
    <3>5. QED
      BY <3>2, <3>3, <3>4
  <2>2. CASE Sync
    <3>1. PICK n, kind, section, patch :
            n = NewCall(kind, section, patch) /\ kind = "sync" /\ section = "none" /\ patch = Skeleton
      OBVIOUS
    <3>2. /\ kind \in {"load", "set", "sync"} /\ section \in Section \union {"none"}
          /\ patch \in Config /\ view \in Reading
      BY <1>1, <3>1, SkeletonIs
    <3>3. n = NewCall(kind, section, patch)
      BY <3>1
    <3>4. IsFree /\ calls' = [NextWrite EXCEPT ![f] = n]
      BY <1>0, <2>2, <3>1 DEF Sync
    <3>5. n \in CallType /\ n.kind = kind /\ n.at = "sent"
      BY <3>2, <3>3, NewCallIs
    <3>6. n.kind = "sync"
      BY <3>5, <3>1
    <3>7. QED
      BY <3>4, <3>5, <3>6
  <2>3. QED
    BY <2>1, <2>2
<1>3. UNCHANGED hostVars /\ view' = view /\ rows' = rows
  BY DEF Save, Sync, storeVars, formVars
<1>4. f \in Call /\ calls[f].kind = "none"
  BY <1>0, <1>2, FreeCallIs
<1>5. /\ NextWrite \in [Call -> CallType]
      /\ \A c \in Call :
           /\ NextWrite[c].kind = calls[c].kind /\ NextWrite[c].at = calls[c].at
           /\ NextWrite[c].reply = calls[c].reply /\ NextWrite[c].section = calls[c].section
           /\ NextWrite[c].patch = calls[c].patch /\ NextWrite[c].base = calls[c].base
           /\ NextWrite[c].mine => calls[c].mine
           /\ calls[c].kind = "load" => ~NextWrite[c].undisturbed
  BY <1>1, NextWriteIs
<1>6. /\ calls' \in [Call -> CallType] /\ calls'[f] = n
      /\ \A c \in Call : c # f => calls'[c] = NextWrite[c]
  BY <1>2, <1>4, <1>5
<1>7. n.kind = "set" => SaveIsOfTheView(f)'
  <2> SUFFICES ASSUME n.kind = "set"
               PROVE  SaveIsOfTheView(f)'
    OBVIOUS
  <2>1. /\ view.rev <= rev
        /\ \A s \in Section : view.config[s] = held[s] \/ changed[s] > view.rev
    BY DEF StoreInv, ViewIsFresh, Fresh
  <2>2. QED
    BY <1>2, <1>3, <1>6, <2>1 DEF SaveIsOfTheView, hostVars
<1>8. \A c \in Call :
        /\ calls'[c].at \in {"answered", "mutating"} =>
             calls'[c].at = calls[c].at /\ calls'[c].reply = calls[c].reply
        /\ calls'[c].kind = "set" /\ calls'[c].at = "sent" =>
             \/ /\ calls[c].kind = "set" /\ calls[c].at = "sent"
                /\ calls'[c].section = calls[c].section /\ calls'[c].patch = calls[c].patch
                /\ calls'[c].base = calls[c].base
             \/ SaveIsOfTheView(c)'
  BY <1>2, <1>5, <1>6, <1>7
<1>9. /\ HostTypeOK' /\ ChangesAreDated' /\ AnswersAreFresh' /\ PlansAreReadings'
      /\ SavesAreOfTheView' /\ \A r : Fresh(r) => StillFresh(r)
  BY <1>3, <1>8, BrowserKeeps
<1>10. StoreTypeOK'
  BY <1>3, <1>6, <1>9 DEF StoreInv, StoreTypeOK
<1>11. ViewIsFresh'
  BY <1>3 DEF StoreInv, ViewIsFresh, Fresh, hostVars
<1>12. \A c \in Call : calls'[c].kind = "load" =>
         c # f /\ calls[c].kind = "load" /\ ~calls'[c].undisturbed
                /\ (calls'[c].mine => calls[c].mine)
  BY <1>2, <1>5, <1>6
<1>13. OneLoadPublishes'
  BY <1>12 DEF StoreInv, OneLoadPublishes
<1>14. LoadsAreNewer'
  BY <1>12 DEF LoadsAreNewer, Clear
<1>15. QED
  BY <1>9, <1>10, <1>11, <1>13, <1>14 DEF StoreInv

\* The plugin unloads: no call may publish any more.
LEMMA DisposeKeeps ==
  ASSUME StoreInv, Dispose
  PROVE  StoreInv'
<1>1. calls \in [Call -> CallType]
  BY DEF StoreInv, StoreTypeOK
<1>2. /\ UNCHANGED hostVars /\ view' = view /\ rows' = rows
      /\ calls' = [c \in Call |-> [calls[c] EXCEPT !.mine = FALSE, !.undisturbed = FALSE]]
  BY DEF Dispose, storeVars, formVars
<1>3. ASSUME NEW c \in Call
      PROVE  /\ calls'[c] \in CallType /\ calls'[c].kind = calls[c].kind
             /\ calls'[c].at = calls[c].at /\ calls'[c].reply = calls[c].reply
             /\ calls'[c].section = calls[c].section /\ calls'[c].patch = calls[c].patch
             /\ calls'[c].base = calls[c].base /\ ~calls'[c].mine
  <2> DEFINE cut == [calls[c] EXCEPT !.mine = FALSE]
             n == [cut EXCEPT !.undisturbed = FALSE]
  <2>1. calls[c] \in CallType
    BY <1>1
  <2>2. /\ cut \in CallType /\ cut.kind = calls[c].kind
        /\ cut.at = calls[c].at /\ cut.reply = calls[c].reply
        /\ cut.section = calls[c].section /\ cut.patch = calls[c].patch
        /\ cut.base = calls[c].base /\ ~cut.mine
    BY <2>1 DEF CallType
  <2> HIDE DEF cut
  <2>3. /\ n \in CallType /\ n.kind = calls[c].kind
        /\ n.at = calls[c].at /\ n.reply = calls[c].reply
        /\ n.section = calls[c].section /\ n.patch = calls[c].patch
        /\ n.base = calls[c].base /\ ~n.mine
    BY <2>2 DEF CallType
  <2>4. calls'[c] = n
    BY <1>2 DEF cut
  <2>5. QED
    BY <2>3, <2>4
<1>4. calls' \in [Call -> CallType]
  BY <1>2, <1>3
<1>5. /\ HostTypeOK' /\ ChangesAreDated' /\ AnswersAreFresh' /\ PlansAreReadings'
      /\ SavesAreOfTheView' /\ \A r : Fresh(r) => StillFresh(r)
  BY <1>2, <1>3, BrowserKeeps
<1>6. StoreTypeOK'
  BY <1>2, <1>4, <1>5 DEF StoreInv, StoreTypeOK
<1>7. ViewIsFresh'
  BY <1>2 DEF StoreInv, ViewIsFresh, Fresh, hostVars
<1>8. OneLoadPublishes' /\ LoadsAreNewer'
  BY <1>3 DEF OneLoadPublishes, LoadsAreNewer, Clear
<1>9. QED
  BY <1>5, <1>6, <1>7, <1>8 DEF StoreInv

\* An answer that publishes: what is shown is the reading, and a section's rows are either
\* the reading's or, dirty after the first seeding, what they were.
LEMMA AcceptIs ==
  ASSUME StoreTypeOK, NEW reply \in Replies, Accept(reply)
  PROVE  /\ view' = IF reply = Failed THEN view ELSE reply
         /\ view' \in Reading /\ rows' \in Config
         /\ \A s \in Section :
              firstSeedDone /\ rows[s] # view'.config[s] => rows'[s] = rows[s]
<1>1. view \in Reading /\ rows \in Config
  BY DEF StoreTypeOK
<1>2. view' = (IF reply = Failed THEN view ELSE reply) /\ Reseed(view'.config)
  BY DEF Accept
<1>3. view' \in Reading /\ view'.config \in Config
  BY <1>1, <1>2 DEF Replies, Reading
<1>4. CASE seededKey = view'.config
  BY <1>1, <1>2, <1>3, <1>4 DEF Reseed, formVars
<1>5. CASE seededKey # view'.config
  <2>1. rows' = [s \in Section |-> IF ~firstSeedDone \/ ~Dirty(s, view'.config)
                                   THEN view'.config[s] ELSE rows[s]]
    BY <1>2, <1>5 DEF Reseed
  <2>2. rows' \in Config
    BY <1>1, <1>3, <2>1 DEF Config
  <2>3. \A s \in Section : firstSeedDone /\ rows[s] # view'.config[s] => rows'[s] = rows[s]
    BY <2>1 DEF Dirty
  <2>4. QED
    BY <1>2, <1>3, <2>2, <2>3
<1>6. QED
  BY <1>4, <1>5

\* What a settling call does: it is gone, and what is shown stays or becomes its answer, if
\* it is the latest of its kind and, being a load, no write has begun since.
LEMMA SettleIs ==
  ASSUME StoreInv, NEW c \in Call, Settle(c)
  PROVE  /\ UNCHANGED hostVars /\ calls' = [calls EXCEPT ![c] = Idle] /\ rows' \in Config
         /\ calls[c].at = "answered" /\ calls[c].kind \in {"load", "set", "sync"}
         /\ \/ view' = view
            \/ /\ view' = calls[c].reply /\ view' # Failed /\ view' \in Reading
               /\ calls[c].mine
               /\ calls[c].kind = "load" => calls[c].undisturbed
         /\ \A s \in Section :
              firstSeedDone /\ rows[s] # view'.config[s] => rows'[s] = rows[s]
<1>1. /\ StoreTypeOK /\ rows \in Config /\ calls[c].reply \in Replies
  BY DEF StoreInv, StoreTypeOK, CallType, Replies
<1>2. CASE LoadSettles(c)
  <2>1. CASE ~calls[c].mine \/ ~calls[c].undisturbed
    BY <1>1, <1>2, <2>1 DEF LoadSettles, Drop, storeVars, formVars
  <2>2. CASE calls[c].mine /\ calls[c].undisturbed /\ Accept(calls[c].reply)
    <3>1. /\ view' = IF calls[c].reply = Failed THEN view ELSE calls[c].reply
          /\ view' \in Reading /\ rows' \in Config
          /\ \A s \in Section :
               firstSeedDone /\ rows[s] # view'.config[s] => rows'[s] = rows[s]
      BY <1>1, <2>2, AcceptIs
    <3>2. QED
      BY <1>2, <2>2, <3>1 DEF LoadSettles
  <2>3. CASE calls[c].mine /\ calls[c].undisturbed /\ Fail
    BY <1>1, <1>2, <2>3 DEF LoadSettles, Fail, formVars
  <2>4. QED
    BY <1>2, <2>1, <2>2, <2>3 DEF LoadSettles
<1>3. CASE WriteSettles(c)
  <2>1. CASE Drop
    BY <1>1, <1>3, <2>1 DEF WriteSettles, Drop, storeVars, formVars
  <2>2. CASE calls[c].mine /\ calls[c].reply # Failed /\ Accept(calls[c].reply)
    <3>1. /\ view' = IF calls[c].reply = Failed THEN view ELSE calls[c].reply
          /\ view' \in Reading /\ rows' \in Config
          /\ \A s \in Section :
               firstSeedDone /\ rows[s] # view'.config[s] => rows'[s] = rows[s]
      BY <1>1, <2>2, AcceptIs
    <3>2. QED
      BY <1>3, <2>2, <3>1 DEF WriteSettles
  <2>3. CASE Fail
    BY <1>1, <1>3, <2>3 DEF WriteSettles, Fail, formVars
  <2>4. QED
    BY <1>3, <2>1, <2>2, <2>3 DEF WriteSettles
<1>4. QED
  BY <1>2, <1>3 DEF Settle

\* A settling call publishes its answer or is dropped.
LEMMA SettleKeeps ==
  ASSUME StoreAssumption, StoreInv, NEW c \in Call, Settle(c)
  PROVE  StoreInv'
<1>1. /\ UNCHANGED hostVars /\ calls' = [calls EXCEPT ![c] = Idle] /\ rows' \in Config
      /\ calls[c].at = "answered" /\ calls[c].kind \in {"load", "set", "sync"}
      /\ \/ view' = view
         \/ /\ view' = calls[c].reply /\ view' # Failed /\ view' \in Reading
            /\ calls[c].mine
            /\ calls[c].kind = "load" => calls[c].undisturbed
  BY SettleIs
<1>2. StoreTypeOK /\ calls \in [Call -> CallType] /\ view \in Reading
  BY DEF StoreInv, StoreTypeOK
<1>3. Idle \in CallType /\ Idle.kind = "none" /\ Idle.at = "none" /\ ~Idle.mine
  BY SkeletonIs DEF Idle, CallType
<1>4. /\ calls' \in [Call -> CallType] /\ calls'[c] = Idle
      /\ \A d \in Call : d # c => calls'[d] = calls[d]
  BY <1>1, <1>2, <1>3
<1>5. /\ HostTypeOK' /\ ChangesAreDated' /\ AnswersAreFresh' /\ PlansAreReadings'
      /\ SavesAreOfTheView' /\ \A r : Fresh(r) => StillFresh(r)
  <2>1. \A d \in Call :
          /\ calls'[d].at \in {"answered", "mutating"} =>
               calls'[d].at = calls[d].at /\ calls'[d].reply = calls[d].reply
          /\ calls'[d].kind = "set" /\ calls'[d].at = "sent" =>
               /\ calls[d].kind = "set" /\ calls[d].at = "sent"
               /\ calls'[d].section = calls[d].section /\ calls'[d].patch = calls[d].patch
               /\ calls'[d].base = calls[d].base
    BY <1>3, <1>4
  <2>2. QED
    BY <1>1, <2>1, BrowserKeeps
<1>6. StoreTypeOK'
  BY <1>1, <1>2, <1>4, <1>5 DEF StoreTypeOK
<1>7. ViewIsFresh'
  <2>1. Fresh(view) /\ (view' # view => Fresh(calls[c].reply))
    BY <1>1 DEF StoreInv, ViewIsFresh, AnswersAreFresh
  <2>2. StillFresh(view) /\ (view' # view => StillFresh(calls[c].reply))
    BY <1>5, <2>1
  <2>3. StillFresh(view')
    BY <1>1, <2>2
  <2>4. QED
    BY <2>3 DEF ViewIsFresh, Fresh, StillFresh
<1>8. OneLoadPublishes'
  BY <1>3, <1>4 DEF StoreInv, OneLoadPublishes
<1>9. LoadsAreNewer'
  <2> SUFFICES ASSUME NEW d \in Call, Clear(d)'
               PROVE  /\ \A e \in Call : calls'[e].kind \notin {"set", "sync"}
                      /\ calls'[d].at = "answered" /\ calls'[d].reply # Failed =>
                           calls'[d].reply.rev >= view'.rev
    BY DEF LoadsAreNewer
  <2>1. d # c /\ calls'[d] = calls[d] /\ Clear(d)
    BY <1>3, <1>4 DEF Clear
  <2>2. \A e \in Call : calls[e].kind \notin {"set", "sync"}
    BY <2>1 DEF StoreInv, LoadsAreNewer
  <2>3. calls[c].kind = "load" /\ ~calls[c].mine
    BY <1>1, <2>1, <2>2 DEF StoreInv, OneLoadPublishes, Clear
  <2>4. view' = view
    BY <1>1, <2>3
  <2>5. QED
    BY <1>3, <1>4, <2>1, <2>2, <2>4 DEF StoreInv, LoadsAreNewer
<1>10. QED
  BY <1>5, <1>6, <1>7, <1>8, <1>9 DEF StoreInv

\* An edit or a discard touches the form alone.
LEMMA FormKeeps ==
  ASSUME StoreAssumption, StoreInv, Edit \/ Discard
  PROVE  StoreInv'
<1>1. /\ view \in Reading /\ rows \in Config /\ calls \in [Call -> CallType] /\ view.config \in Config
  BY DEF StoreInv, StoreTypeOK, Reading
<1>2. UNCHANGED hostVars /\ calls' = calls /\ view' = view
  BY DEF Edit, Discard, storeVars
<1>3. rows' \in Config
  <2>1. CASE Edit
    <3>1. PICK s \in Section : \E v \in Written[s] \ {rows[s]} : rows' = [rows EXCEPT ![s] = v]
      BY <2>1 DEF Edit
    <3>2. PICK v \in Value : rows' = [rows EXCEPT ![s] = v]
      BY <3>1 DEF StoreAssumption
    <3>3. QED
      BY <1>1, <3>2 DEF Config
  <2>2. CASE Discard
    <3>1. PICK s \in Section : rows' = [rows EXCEPT ![s] = view.config[s]]
      BY <2>2 DEF Discard
    <3>2. QED
      BY <1>1, <3>1 DEF Config
  <2>3. QED
    BY <2>1, <2>2
<1>4. /\ HostTypeOK' /\ ChangesAreDated' /\ AnswersAreFresh' /\ PlansAreReadings'
      /\ SavesAreOfTheView' /\ \A r : Fresh(r) => StillFresh(r)
  BY <1>2, BrowserKeeps
<1>5. StoreTypeOK' /\ ViewIsFresh'
  BY <1>1, <1>2, <1>3, <1>4 DEF StoreInv, StoreTypeOK, ViewIsFresh, Fresh, hostVars
<1>6. OneLoadPublishes' /\ LoadsAreNewer'
  BY <1>2 DEF StoreInv, OneLoadPublishes, LoadsAreNewer, Clear
<1>7. QED
  BY <1>4, <1>5, <1>6 DEF StoreInv

\* The console starts with nothing read and nothing in flight.
LEMMA StoreInvInit == ASSUME StoreAssumption, Init PROVE StoreInv
<1>1. /\ Idle \in CallType /\ Idle.kind = "none" /\ Idle.at = "none"
      /\ calls \in [Call -> CallType] /\ \A c \in Call : calls[c] = Idle
  BY SkeletonIs DEF Init, Idle, CallType
<1>2. HostTypeOK /\ rows \in Config
  BY SkeletonIs DEF Init, HostTypeOK, StoreAssumption
<1>3. view \in Reading
  <2>1. PICK config, banner, routes, n :
          config = Skeleton /\ banner = FALSE /\ routes = {} /\ n = -1
    OBVIOUS
  <2>2. config \in Config
    BY <2>1, SkeletonIs
  <2>3. banner \in BOOLEAN
    BY <2>1
  <2>4. routes \in SUBSET (Value \union {AutoRoute}) /\ n \in Int
    BY <2>1
  <2>5. view = [outcome |-> "read", config |-> config, legacy |-> banner, allowed |-> routes, rev |-> n]
    BY <2>1 DEF Init
  <2>6. QED
    BY <2>2, <2>3, <2>4, <2>5, ReadingIs
<1>4. StoreTypeOK
  BY <1>1, <1>2, <1>3 DEF StoreTypeOK
<1>5. ChangesAreDated /\ view.rev = -1 /\ rev = 0 /\ \A s \in Section : changed[s] = 0
  BY DEF Init, ChangesAreDated
<1>6. ViewIsFresh
  BY <1>5 DEF ViewIsFresh, Fresh
<1>7. AnswersAreFresh /\ PlansAreReadings /\ SavesAreOfTheView /\ OneLoadPublishes /\ LoadsAreNewer
  BY <1>1 DEF AnswersAreFresh, PlansAreReadings, SavesAreOfTheView, OneLoadPublishes, LoadsAreNewer, Clear
<1>8. QED
  BY <1>4, <1>5, <1>6, <1>7 DEF StoreInv

\* Every step of the console keeps its invariant.
LEMMA StoreInvNext ==
  ASSUME StoreAssumption, StoreInv, [SettingsNext]_settingsVars
  PROVE  StoreInv'
<1>1. CASE Mount \/ Refresh
  BY <1>1, LoadKeeps
<1>2. CASE Dispose
  BY <1>2, DisposeKeeps
<1>3. CASE Edit \/ Discard
  BY <1>3, FormKeeps
<1>4. CASE Save \/ Sync
  BY <1>4, WriteKeeps
<1>5. CASE OtherSets \/ Reset
  BY <1>5, OthersKeep
<1>6. ASSUME NEW c \in Call, HostStep(c) \/ CallFails(c)
      PROVE  StoreInv'
  BY <1>6, HostStepKeeps
<1>7. ASSUME NEW c \in Call, Settle(c)
      PROVE  StoreInv'
  BY <1>7, SettleKeeps
<1>8. CASE UNCHANGED settingsVars
  <2>1. UNCHANGED <<held, legacy, allowed, rev, changed, calls, view, rows>>
    BY <1>8 DEF settingsVars, hostVars, storeVars, formVars
  <2>2. QED
    BY <2>1 DEF StoreInv, StoreTypeOK, HostTypeOK, ChangesAreDated, ViewIsFresh, Fresh, AnswersAreFresh,
                PlansAreReadings, SavesAreOfTheView, SaveIsOfTheView, OneLoadPublishes, LoadsAreNewer, Clear
<1>9. QED
  BY <1>1, <1>2, <1>3, <1>4, <1>5, <1>6, <1>7, <1>8 DEF SettingsNext

\* The console's invariant holds always.
LEMMA StoreInvAlways == StoreAssumption /\ SettingsSpec => []StoreInv
<1>1. StoreAssumption /\ Init => StoreInv
  BY StoreInvInit
<1>2. StoreAssumption /\ StoreInv /\ [SettingsNext]_settingsVars => StoreInv'
  BY StoreInvNext
<1>3. QED
  BY <1>1, <1>2, StoreAssumption, PTL DEF SettingsSpec

\* What is shown as of the host's present revision is what the host holds, the configuration,
\* the legacy banner and the allowlist of one reading.
THEOREM ShownIsWhatTheHostHolds == SettingsSpec => []ShownIsRead
<1>1. StoreInv => ShownIsRead
  BY DEF StoreInv, ViewIsFresh, Fresh, ShownIsRead
<1>2. QED
  BY <1>1, StoreInvAlways, StoreAssumption, PTL

\* A load never takes the view back to an older reading, unless it began while a write was
\* in flight, however late its answer comes and whatever answers were lost.
THEOREM LateLoadsLose == SettingsSpec => WriteWins
<1> DEFINE Step == \A c \in Call :
             (calls[c].kind = "load" /\ calls'[c] = Idle /\ view'.rev < view.rev)
             => calls[c].section = "main"
<1>1. ASSUME StoreInv, [SettingsNext]_settingsVars
      PROVE  [Step]_settingsVars
  <2> SUFFICES ASSUME NEW c \in Call, calls[c].kind = "load", calls'[c] = Idle,
                      view'.rev < view.rev
               PROVE  calls[c].section = "main"
    OBVIOUS
  <2>1. calls \in [Call -> CallType] /\ view \in Reading /\ view.rev \in Int
    BY <1>1 DEF StoreInv, StoreTypeOK, Reading
  <2>2. view' # view
    BY <1>1, <2>1
  <2>3. PICK d \in Call : Settle(d)
    BY <1>1, <2>2 DEF SettingsNext, settingsVars, storeVars, formVars, Mount, Refresh, Load, Dispose, Edit,
                Discard, Save, Sync, OtherSets, Reset, HostStep, Set, Get, SyncAllowlist,
                CommitAllowlist, AnswerWrite, CallFails
  <2>4. /\ calls' = [calls EXCEPT ![d] = Idle] /\ calls[d].at = "answered"
        /\ view' = calls[d].reply /\ view' # Failed /\ view' \in Reading /\ calls[d].mine
        /\ calls[d].kind = "load" => calls[d].undisturbed
    BY <1>1, <2>2, <2>3, SettleIs
  <2>5. c = d
    <3>1. Idle.kind = "none"
      BY <1>1 DEF Idle
    <3>2. QED
      BY <1>1, <2>1, <2>4, <3>1
  <2>6. SUFFICES ASSUME calls[c].section # "main"
                 PROVE  FALSE
    OBVIOUS
  <2>7. calls[c].reply.rev >= view.rev
    BY <1>1, <2>4, <2>5, <2>6 DEF StoreInv, LoadsAreNewer, Clear
  <2>8. view'.rev \in Int
    BY <1>1, <2>4 DEF Reading
  <2>9. QED
    BY <1>1, <2>1, <2>4, <2>5, <2>7, <2>8
<1>2. StoreInv /\ [SettingsNext]_settingsVars => [Step]_settingsVars
  BY <1>1
<1>3. QED
  BY <1>2, StoreInvAlways, StoreAssumption, PTL DEF SettingsSpec, WriteWins

\* A section's save changes another section only by putting back what the store had read
\* before some other writer changed it: an edit staged in a sibling never rides along.
THEOREM SavesAreOfTheirSection == SettingsSpec => SiblingsNeverRide
<1> DEFINE Step == \A c \in Call :
             (calls[c].kind = "set" /\ calls[c].at = "sent" /\ calls'[c].at = "committed")
             => \A s \in Section \ {calls[c].section} :
                  held'[s] # held[s] => changed[s] > calls[c].base
<1>1. ASSUME StoreInv, [SettingsNext]_settingsVars
      PROVE  [Step]_settingsVars
  <2> SUFFICES ASSUME NEW c \in Call, calls[c].kind = "set", calls[c].at = "sent",
                      calls'[c].at = "committed", NEW s \in Section \ {calls[c].section},
                      held'[s] # held[s]
               PROVE  changed[s] > calls[c].base
    OBVIOUS
  <2>1. /\ calls \in [Call -> CallType] /\ StoreTypeOK /\ calls[c] \in CallType
        /\ held \in Config /\ calls[c].patch \in Config
    BY <1>1 DEF StoreInv, StoreTypeOK, HostTypeOK, CallType
  <2>2. calls' # calls /\ held' # held
    BY <1>1, <2>1
  <2>3. PICK d \in Call : Set(d)
    BY <1>1, <2>2 DEF SettingsNext, settingsVars, hostVars, Mount, Refresh, Load, Dispose, Edit,
                Discard, Save, Sync, OtherSets, Reset, HostStep, Get, SyncAllowlist,
                CommitAllowlist, AnswerWrite, CallFails, Settle, LoadSettles, WriteSettles
  <2>4. held' = Merged(calls[d].patch) /\ calls' = [calls EXCEPT ![d].at = "committed"]
    BY <1>1, <2>2, <2>3 DEF Set, Merge, hostVars
  <2>5. c = d
    BY <1>1, <2>1, <2>4
  <2>6. held'[s] = calls[c].patch[s]
    BY <1>1, <2>1, <2>4, <2>5 DEF Merged, Config
  <2>7. QED
    BY <1>1, <2>6 DEF StoreInv, SavesAreOfTheView, SaveIsOfTheView
<1>2. StoreInv /\ [SettingsNext]_settingsVars => [Step]_settingsVars
  BY <1>1
<1>3. QED
  BY <1>2, StoreInvAlways, StoreAssumption, PTL DEF SettingsSpec, SiblingsNeverRide

\* No answer, whichever call it belongs to and however late it is, overwrites an edit staged
\* in the form, the first seeding excepted.
THEOREM AnswersSpareEdits == SettingsSpec => StagedEditsSurvive
<1> DEFINE Step == calls' # calls /\ firstSeedDone =>
             \A s \in Section : Dirty(s, view'.config) => rows'[s] = rows[s]
<1>1. ASSUME StoreInv, [SettingsNext]_settingsVars
      PROVE  [Step]_settingsVars
  <2> SUFFICES ASSUME calls' # calls, firstSeedDone, NEW s \in Section, Dirty(s, view'.config)
               PROVE  rows'[s] = rows[s]
    OBVIOUS
  <2>1. CASE \E d \in Call : Settle(d)
    BY <1>1, <2>1, SettleIs DEF Dirty
  <2>2. CASE ~\E d \in Call : Settle(d)
    <3>1. rows' = rows
      BY <1>1, <2>2 DEF SettingsNext, settingsVars, storeVars, formVars, Mount, Refresh, Load, Dispose, Edit,
                  Discard, Save, Sync, OtherSets, Reset, HostStep, Set, Get, SyncAllowlist,
                  CommitAllowlist, AnswerWrite, CallFails
    <3>2. QED
      BY <1>1, <3>1
  <2>3. QED
    BY <1>1, <2>1, <2>2
<1>2. StoreInv /\ [SettingsNext]_settingsVars => [Step]_settingsVars
  BY <1>1
<1>3. QED
  BY <1>2, StoreInvAlways, StoreAssumption, PTL DEF SettingsSpec, StagedEditsSurvive

-----------------------------------------------------------------------------
(* The form.  Three gates judge a document; what the first lets through    *)
(* must not trouble the others.                                            *)

\* The rows of a list are numbered from 1 on.
IsList(list) == list \in Seq({list[i] : i \in DOMAIN list})

\* A time-slot row has its fields, and its times are minutes or markers.
IsSlot(row) ==
  /\ DOMAIN row = {"kind", "preset", "start", "end", "days", "name", "chain"}
  /\ row.start \in Int /\ row.end \in Int
AreSlots(list) == IsList(list) /\ \A i \in DOMAIN list : IsSlot(list[i])
AreRoles(roles) ==
  /\ IsList(roles)
  /\ \A i \in DOMAIN roles : DOMAIN roles[i] = {"id", "prompt", "chain", "fallback", "labelled"}

IsForm(e) == DOMAIN e = {"model", "lead", "slots", "roles", "rules"}

FormShape ==
  /\ DOMAIN doc = {"root", "slots", "roles", "rules"}
  /\ AreSlots(doc.slots) /\ AreRoles(doc.roles)
  /\ IsForm(ed) /\ AreSlots(ed.slots) /\ IsList(ed.roles)
  /\ saved \subseteq {"main", "sub"} /\ clock \in Clock

\* The ids are as the form writes them, and no field of the old schema is left.
AsWritten(roles) == \A i \in DOMAIN roles : roles[i].id = Trim(roles[i].id) /\ ~roles[i].labelled

\* A section the form saved still passes the form's own validation, whatever was
\* saved or edited since; what was admitted is still admissible.
SavedStaysValid ==
  /\ \A s \in saved : ValidateDraft(s, doc)
  /\ "sub" \in saved => AsWritten(doc.roles)
  /\ admitted => ValidateConfigPatch(doc)

FormInv == FormShape /\ SavedStaysValid /\ CardGateSuffices

-----------------------------------------------------------------------------
\* A sequence over any set is a list of its own members.
LEMMA ListOf ==
  ASSUME NEW S, NEW list \in Seq(S)
  PROVE  IsList(list) /\ \A i \in DOMAIN list : list[i] \in S
  BY SMT DEF IsList

\* A function on an interval from 1 is a list.
LEMMA FunctionIsList ==
  ASSUME NEW n \in Nat, NEW list, list = [i \in 1..n |-> list[i]]
  PROVE  IsList(list)
  BY SMT DEF IsList

\* The indices of a list are integers.
LEMMA ListDomain ==
  ASSUME NEW list, IsList(list)
  PROVE  Len(list) \in Nat /\ DOMAIN list = 1..Len(list)
  BY SMT DEF IsList

\* A row with four of its fields set anew.
Renewed(row, start, end, name, chain) ==
  [row EXCEPT !.start = start, !.end = end, !.name = name, !.chain = chain]

\* A slot row whose times, name and chain are replaced is a slot row.
LEMMA RenewedIsSlot ==
  ASSUME NEW row, NEW start \in Int, NEW end \in Int, NEW name, NEW chain, IsSlot(row)
  PROVE  /\ IsSlot(Renewed(row, start, end, name, chain))
         /\ Renewed(row, start, end, name, chain).kind = row.kind
         /\ Renewed(row, start, end, name, chain).name = name
<1>1. PICK a : a = [row EXCEPT !.start = start]
  OBVIOUS
<1>2. PICK b : b = [a EXCEPT !.end = end]
  OBVIOUS
<1>3. PICK c : c = [b EXCEPT !.name = name]
  OBVIOUS
<1>4. PICK d : d = [c EXCEPT !.chain = chain]
  OBVIOUS
<1>5. DOMAIN a = DOMAIN row /\ a.start = start /\ a.kind = row.kind
  BY <1>1 DEF IsSlot
<1>6. DOMAIN b = DOMAIN row /\ b.start = start /\ b.end = end /\ b.kind = row.kind
  BY <1>2, <1>5 DEF IsSlot
<1>7. DOMAIN c = DOMAIN row /\ c.start = start /\ c.end = end /\ c.kind = row.kind /\ c.name = name
  BY <1>3, <1>6 DEF IsSlot
<1>8. DOMAIN d = DOMAIN row /\ d.start = start /\ d.end = end /\ d.kind = row.kind /\ d.name = name
  BY <1>4, <1>7 DEF IsSlot
<1>9. d = Renewed(row, start, end, name, chain)
  BY <1>1, <1>2, <1>3, <1>4 DEF Renewed
<1>10. QED
  BY <1>8, <1>9 DEF IsSlot

\* A row for the form, and a row for the document.
LEMMA SlotRead ==
  ASSUME NEW list, NEW i \in DOMAIN list, IsSlot(list[i])
  PROVE  IsSlot(TimeSlotsToRows(list)[i])
<1> DEFINE start == IF list[i].start = Absent THEN Blank ELSE list[i].start
           end == IF list[i].end = Absent THEN Blank ELSE list[i].end
           name == IF list[i].name = "-" THEN "" ELSE list[i].name
<1>1. TimeSlotsToRows(list)[i] = Renewed(list[i], start, end, name, Selectors(list[i].chain))
  BY DEF TimeSlotsToRows, Renewed, IsSlot
<1>2. start \in Int /\ end \in Int
  BY DEF IsSlot, Blank
<1> HIDE DEF start, end, name
<1>3. PICK row : row = TimeSlotsToRows(list)[i]
  OBVIOUS
<1>4. row = Renewed(list[i], start, end, name, Selectors(list[i].chain))
  BY <1>1, <1>3
<1>5. IsSlot(row)
  BY <1>2, <1>4, RenewedIsSlot
<1>6. QED
  BY <1>3, <1>5

\* What a custom or preset row writes back is a slot row.
LEMMA SlotWritten ==
  ASSUME NEW list, NEW i \in DOMAIN list, IsSlot(list[i])
  PROVE  /\ IsSlot(RowsToTimeSlots(list)[i])
         /\ RowsToTimeSlots(list)[i].kind = list[i].kind
         /\ list[i].kind = "preset" => RowsToTimeSlots(list)[i].name = "-"
<1> DEFINE preset == list[i].kind = "preset"
           start == IF preset THEN Absent ELSE list[i].start
           end == IF preset THEN Absent ELSE list[i].end
           name == IF preset \/ list[i].name = "" THEN "-" ELSE list[i].name
<1>1. RowsToTimeSlots(list)[i] = Renewed(list[i], start, end, name, RowsToChain(list[i].chain))
  BY DEF RowsToTimeSlots, Renewed, IsSlot
<1>2. start \in Int /\ end \in Int
  BY DEF IsSlot, Absent
<1>3. list[i].kind = "preset" => name = "-"
  OBVIOUS
<1> HIDE DEF start, end, name
<1>4. QED
  BY <1>1, <1>2, <1>3, RenewedIsSlot

\* The two conversions of time-slot rows keep their number and their fields.
LEMMA SlotsConverted ==
  ASSUME NEW list, AreSlots(list)
  PROVE  /\ AreSlots(TimeSlotsToRows(list)) /\ AreSlots(RowsToTimeSlots(list))
         /\ DOMAIN RowsToTimeSlots(list) = DOMAIN list
<1>1. Len(list) \in Nat /\ DOMAIN list = 1..Len(list)
  BY ListDomain DEF AreSlots
<1>2. IsList(TimeSlotsToRows(list)) /\ DOMAIN TimeSlotsToRows(list) = DOMAIN list
  BY <1>1, FunctionIsList DEF TimeSlotsToRows
<1>3. IsList(RowsToTimeSlots(list)) /\ DOMAIN RowsToTimeSlots(list) = DOMAIN list
  BY <1>1, FunctionIsList DEF RowsToTimeSlots
<1>4. QED
  BY <1>2, <1>3, SlotRead, SlotWritten DEF AreSlots

\* Members of a set taken out of a sequence and put into it leave a sequence over it.
LEMMA TakenOut ==
  ASSUME NEW S, NEW s \in Seq(S), NEW i \in 1..Len(s)
  PROVE  RemoveAt(s, i) \in Seq(S) /\ Len(RemoveAt(s, i)) = Len(s) - 1
<1>0. /\ Len(s) \in Nat /\ \A k \in 1..(i - 1) : s[k] \in S
      /\ \A k \in (i + 1)..Len(s) : s[k] \in S
  BY LenProperties
<1>1. /\ SubSeq(s, 1, i - 1) \in Seq(S) /\ Len(SubSeq(s, 1, i - 1)) = i - 1
      /\ SubSeq(s, i + 1, Len(s)) \in Seq(S) /\ Len(SubSeq(s, i + 1, Len(s))) = Len(s) - i
  <2>1. SubSeq(s, 1, i - 1) \in Seq(S) /\ Len(SubSeq(s, 1, i - 1)) = i - 1
    BY <1>0, SubSeqProperties
  <2>2. SubSeq(s, i + 1, Len(s)) \in Seq(S) /\ Len(SubSeq(s, i + 1, Len(s))) = Len(s) - i
    BY <1>0, SubSeqProperties
  <2>3. QED
    BY <2>1, <2>2
<1>2. PICK u, v : u = SubSeq(s, 1, i - 1) /\ v = SubSeq(s, i + 1, Len(s))
  OBVIOUS
<1>3. /\ u \in Seq(S) /\ v \in Seq(S) /\ Len(u) = i - 1 /\ Len(v) = Len(s) - i
      /\ RemoveAt(s, i) = u \o v
  BY <1>1, <1>2 DEF RemoveAt
<1>4. QED
  BY <1>0, <1>3, ConcatProperties

\* Appending, replacing and dropping an element leaves a list of the same kind.
LEMMA PutIn ==
  ASSUME NEW S, NEW s \in Seq(S), NEW i \in 1..(Len(s) + 1), NEW e \in S
  PROVE  InsertAt(s, i, e) \in Seq(S)
<1>1. SubSeq(s, 1, i - 1) \in Seq(S) /\ SubSeq(s, i, Len(s)) \in Seq(S) /\ <<e>> \in Seq(S)
  BY SubSeqProperties, LenProperties
<1>2. QED
  BY <1>1, ConcatProperties DEF InsertAt

\* Adding, replacing, removing and moving a row leaves a list of such rows.
LEMMA ListEdited ==
  ASSUME NEW list, IsList(list), NEW row
  PROVE  \E S : /\ S = {list[i] : i \in DOMAIN list} \union {row}
                /\ Append(list, row) \in Seq(S)
                /\ \A i \in DOMAIN list :
                     [list EXCEPT ![i] = row] \in Seq(S) /\ RemoveAt(list, i) \in Seq(S)
                /\ \A i, j \in DOMAIN list : InsertAt(RemoveAt(list, i), j, row) \in Seq(S)
<1>1. Len(list) \in Nat /\ DOMAIN list = 1..Len(list)
  BY ListDomain
<1>2. PICK S : S = {list[i] : i \in DOMAIN list} \union {row}
  OBVIOUS
<1>3. list \in Seq(S) /\ row \in S
  BY <1>2, SMT DEF IsList
<1>4. Append(list, row) \in Seq(S)
  BY <1>3
<1>5. ASSUME NEW i \in DOMAIN list
      PROVE  /\ [list EXCEPT ![i] = row] \in Seq(S)
             /\ RemoveAt(list, i) \in Seq(S) /\ Len(RemoveAt(list, i)) = Len(list) - 1
  <2>1. RemoveAt(list, i) \in Seq(S) /\ Len(RemoveAt(list, i)) = Len(list) - 1
    BY <1>1, <1>3, TakenOut
  <2>2. [list EXCEPT ![i] = row] \in Seq(S)
    BY <1>1, <1>3
  <2>3. QED
    BY <2>1, <2>2
<1>6. ASSUME NEW i \in DOMAIN list, NEW j \in DOMAIN list
      PROVE  InsertAt(RemoveAt(list, i), j, row) \in Seq(S)
  <2>1. j \in 1..(Len(RemoveAt(list, i)) + 1)
    <3>1. Len(RemoveAt(list, i)) = Len(list) - 1
      BY <1>5, <1>6
    <3>2. QED
      BY <1>1, <1>6, <3>1
  <2>2. QED
    BY <1>3, <1>5, <1>6, <2>1, PutIn
<1>7. QED
  BY <1>2, <1>4, <1>5, <1>6

\* An edit of the slot rows leaves slot rows.
LEMMA SlotsEdited ==
  ASSUME NEW list, AreSlots(list), NEW row, IsSlot(row)
  PROVE  /\ AreSlots(Append(list, row))
         /\ \A i \in DOMAIN list : AreSlots([list EXCEPT ![i] = row])
         /\ \A i, j \in DOMAIN list : AreSlots(InsertAt(RemoveAt(list, i), j, row))
<1>1. PICK S : /\ S = {list[i] : i \in DOMAIN list} \union {row}
               /\ Append(list, row) \in Seq(S)
               /\ \A i \in DOMAIN list : [list EXCEPT ![i] = row] \in Seq(S)
               /\ \A i, j \in DOMAIN list : InsertAt(RemoveAt(list, i), j, row) \in Seq(S)
  BY ListEdited DEF AreSlots
<1>2. \A r \in S : IsSlot(r)
  BY <1>1 DEF AreSlots
<1>3. ASSUME NEW s \in Seq(S) PROVE AreSlots(s)
  BY <1>2, ListOf DEF AreSlots
<1>4. QED
  BY <1>1, <1>3

\* An edit of the role or rule rows leaves rows of their kind.
LEMMA RowsEdited ==
  ASSUME NEW list, IsList(list), NEW row
  PROVE  /\ IsList(Append(list, row))
         /\ \A i \in DOMAIN list : IsList([list EXCEPT ![i] = row]) /\ IsList(RemoveAt(list, i))
  BY ListEdited, ListOf

-----------------------------------------------------------------------------
\* A reading of a document differs from it in the fields of old schemas alone.
LEMMA ParseIs ==
  ASSUME NEW d, DOMAIN d = {"root", "slots", "roles", "rules"}, AreRoles(d.roles)
  PROVE  LET a == ParseFallbacksConfig(d) IN
         /\ DOMAIN a = {"root", "slots", "roles", "rules"}
         /\ a.root = d.root /\ a.slots = d.slots /\ a.rules = d.rules
         /\ DOMAIN a.roles = DOMAIN d.roles /\ AreRoles(a.roles)
         /\ \A i \in DOMAIN d.roles :
              /\ a.roles[i].id = d.roles[i].id /\ a.roles[i].prompt = d.roles[i].prompt
              /\ a.roles[i].chain = d.roles[i].chain /\ ~a.roles[i].labelled
<1>1. PICK roles : roles = [i \in DOMAIN d.roles |-> [d.roles[i] EXCEPT !.labelled = FALSE]]
  OBVIOUS
<1>2. PICK a : a = [d EXCEPT !.roles = roles]
  OBVIOUS
<1>3. ParseFallbacksConfig(d) = a
  BY <1>1, <1>2 DEF ParseFallbacksConfig
<1>4. /\ DOMAIN a = {"root", "slots", "roles", "rules"} /\ a.roles = roles
      /\ a.root = d.root /\ a.slots = d.slots /\ a.rules = d.rules
  BY <1>2
<1>7. IsList(roles)
  BY <1>1, ListDomain, FunctionIsList DEF AreRoles
<1>5. /\ DOMAIN roles = DOMAIN d.roles /\ AreRoles(roles)
      /\ \A i \in DOMAIN d.roles :
           /\ roles[i].id = d.roles[i].id /\ roles[i].prompt = d.roles[i].prompt
           /\ roles[i].chain = d.roles[i].chain /\ ~roles[i].labelled
  BY <1>1, <1>7 DEF AreRoles
<1>6. QED
  BY <1>3, <1>4, <1>5

\* The rows of a document: its time slots in the main section, none of them touched
\* in the other.
LEMMA RowsOf ==
  ASSUME NEW d, NEW e, IsForm(e)
  PROVE  /\ IsForm(MainRowsOf(d, e)) /\ IsForm(SubRowsOf(d, e))
         /\ MainRowsOf(d, e).slots = TimeSlotsToRows(d.slots)
         /\ SubRowsOf(d, e).slots = e.slots
         /\ MainRowsOf(d, e).roles = e.roles
         /\ SubRowsOf(d, e).roles = RolesToRows(d.roles)
  BY DEF MainRowsOf, SubRowsOf, IsForm

\* The rows of the roles, and the roles of the rows, are as many.
LEMMA RolesConverted ==
  ASSUME NEW list, IsList(list), NEW original
  PROVE  /\ IsList(RolesToRows(list)) /\ IsList(MergeRoleExtras(list, original))
         /\ AreRoles(MergeRoleExtras(list, original))
         /\ AsWritten(MergeRoleExtras(list, original))
<1>1. Len(list) \in Nat /\ DOMAIN list = 1..Len(list)
  BY ListDomain
<1>2. IsList(RolesToRows(list))
  BY <1>1, FunctionIsList DEF RolesToRows
<1>3. IsList(MergeRoleExtras(list, original))
  BY <1>1, FunctionIsList DEF MergeRoleExtras
<1>4. /\ AreRoles(MergeRoleExtras(list, original))
      /\ AsWritten(MergeRoleExtras(list, original))
  BY <1>3 DEF MergeRoleExtras, AreRoles, AsWritten, Trim, Id
<1>5. QED
  BY <1>2, <1>3, <1>4

\* The form's gate is no looser than the gateway's: time-slot rows it accepts as
\* the form writes them are accepted on save, and none is warned of at load.
LEMMA FormGate ==
  ASSUME NEW list, AreSlots(list), NEW slots, slots = RowsToTimeSlots(list),
         \A i \in DOMAIN slots : SlotFit(slots, i)
  PROVE  ValidateTimeSlotsPatch(slots)
<1>1. DOMAIN slots = DOMAIN list
  BY SlotsConverted
<1>2. ASSUME NEW i \in DOMAIN slots, slots[i].kind = "preset" PROVE slots[i].name = "-"
  <2>1. IsSlot(list[i])
    BY <1>1 DEF AreSlots
  <2>2. QED
    BY <1>1, <1>2, <2>1, SlotWritten
<1>3. QED
  BY <1>2 DEF ValidateTimeSlotsPatch, SlotFit, PresetRowFit

\* What the form sends of each section.
LEMMA DraftIs ==
  ASSUME NEW e, IsList(e.roles), NEW a
  PROVE  LET draft == AssembleConfig(e, a) IN
         /\ draft.slots = RowsToTimeSlots(e.slots)
         /\ AreRoles(draft.roles) /\ AsWritten(draft.roles)
  BY RolesConverted DEF AssembleConfig

-----------------------------------------------------------------------------
(* The steps of the form *)

\* A form that has just been opened over any stored document.
LEMMA FormStarts == FormInit => FormInv
<1> SUFFICES ASSUME FormInit PROVE FormInv
  OBVIOUS
<1>1. /\ doc \in [root : Seq(ChainEntry), slots : Seq(SlotRow), roles : Seq(RoleRow), rules : Seq(RuleRow)]
      /\ saved = {} /\ admitted = FALSE /\ refused = "none" /\ clock \in Clock
  BY FormAssumption DEF FormInit
<1>2. DOMAIN doc = {"root", "slots", "roles", "rules"} /\ doc.slots \in Seq(SlotRow)
      /\ doc.roles \in Seq(RoleRow)
  BY <1>1
<1>3. AreSlots(doc.slots)
  <2>1. \A row \in SlotRow : IsSlot(row)
    BY DEF SlotRow, IsSlot
  <2>2. QED
    BY <1>2, <2>1, ListOf DEF AreSlots
<1>4. AreRoles(doc.roles)
  <2>1. \A role \in RoleRow : DOMAIN role = {"id", "prompt", "chain", "fallback", "labelled"}
    BY DEF RoleRow
  <2>2. QED
    BY <1>2, <2>1, ListOf DEF AreRoles
<1>5. /\ IsForm(ed)
      /\ AreSlots(ed.slots) /\ IsList(ed.roles)
  <2>1. IsForm(NoRows)
    BY DEF NoRows, IsForm
  <2>2. ed = SubRowsOf(doc, MainRowsOf(doc, NoRows))
    BY DEF FormInit
  <2>3. /\ IsForm(ed) /\ ed.slots = TimeSlotsToRows(doc.slots)
        /\ ed.roles = RolesToRows(doc.roles)
    BY <2>1, <2>2, RowsOf
  <2>4. QED
    BY <1>3, <1>4, <2>1, <2>3, SlotsConverted, RolesConverted DEF AreRoles
<1>6. QED
  BY <1>1, <1>2, <1>3, <1>4, <1>5 DEF FormInv, FormShape, SavedStaysValid, CardGateSuffices

\* A save of the main section: the gateway lets it through.
LEMMA MainSaveKeeps ==
  ASSUME FormInv, SaveForm("main")
  PROVE  FormInv' /\ ExtrasSurvive
<1>0. \A d : /\ IsForm(MainRowsOf(d, ed)) /\ MainRowsOf(d, ed).roles = ed.roles
            /\ MainRowsOf(d, ed).slots = TimeSlotsToRows(d.slots)
  BY RowsOf DEF FormInv, FormShape
<1> PICK a : a = ParseFallbacksConfig(doc)
  OBVIOUS
<1> PICK draft : draft = AssembleConfig(ed, a)
  OBVIOUS
<1> PICK patch : patch = [a EXCEPT !.root = draft.root, !.slots = draft.slots]
  OBVIOUS
<1>1. /\ DOMAIN a = {"root", "slots", "roles", "rules"} /\ AreRoles(a.roles)
      /\ a.rules = doc.rules /\ DOMAIN a.roles = DOMAIN doc.roles
      /\ \A i \in DOMAIN doc.roles :
           /\ a.roles[i].id = doc.roles[i].id /\ a.roles[i].prompt = doc.roles[i].prompt
           /\ a.roles[i].chain = doc.roles[i].chain /\ ~a.roles[i].labelled
  BY ParseIs DEF FormInv, FormShape
<1>2. /\ DOMAIN patch = {"root", "slots", "roles", "rules"}
      /\ patch.root = draft.root /\ patch.slots = draft.slots
      /\ patch.roles = a.roles /\ patch.rules = doc.rules
  BY <1>1
<1>3. draft.slots = RowsToTimeSlots(ed.slots)
  BY DraftIs DEF FormInv, FormShape
<1>4. AreSlots(ed.slots) /\ AreSlots(patch.slots)
  BY <1>2, <1>3, SlotsConverted DEF FormInv, FormShape
<1>5. ValidateDraft("main", draft)
  BY DEF SaveForm
<1>6. ValidateConfigPatch(patch)
  <2>1. IsAllDayConforming(patch.root) /\ \A i \in DOMAIN draft.slots : SlotFit(draft.slots, i)
    BY <1>2, <1>5 DEF ValidateDraft
  <2>2. QED
    BY <1>2, <1>3, <1>4, <2>1, FormGate DEF ValidateConfigPatch
<1>7. /\ doc' = patch /\ saved' = saved \union {"main"} /\ refused' = "none" /\ admitted' = TRUE
      /\ ed' = MainRowsOf(patch, ed) /\ clock' = clock
  BY <1>6 DEF SaveForm
<1>8. FormShape'
  <2>1. IsForm(ed') /\ ed'.slots = TimeSlotsToRows(patch.slots) /\ ed'.roles = ed.roles
    BY <1>0, <1>7, Zenon
  <2>2. QED
    BY <1>1, <1>2, <1>4, <1>7, <2>1, SlotsConverted DEF FormInv, FormShape
<1>9. SavedStaysValid'
  <2>1. ValidateDraft("main", patch)
    BY <1>2, <1>5 DEF ValidateDraft
  <2>2. "sub" \in saved => ValidateDraft("sub", patch) /\ AsWritten(patch.roles)
    <3> SUFFICES ASSUME "sub" \in saved
                 PROVE  ValidateDraft("sub", patch) /\ AsWritten(patch.roles)
      OBVIOUS
    <3>1. ValidateDraft("sub", doc) /\ AsWritten(doc.roles)
      BY DEF FormInv, SavedStaysValid
    <3>2. AsWritten(patch.roles) /\ DeclaredIds(patch.roles) = DeclaredIds(doc.roles)
      BY <1>1, <1>2, <3>1 DEF AsWritten, DeclaredIds
    <3>3. \A i \in DOMAIN doc.roles : RoleFit(doc.roles, i) => RoleFit(patch.roles, i)
      BY <1>1, <1>2 DEF RoleFit
    <3>4. QED
      BY <1>1, <1>2, <3>1, <3>2, <3>3 DEF ValidateDraft
  <2>3. saved \subseteq {"main", "sub"}
    BY DEF FormInv, FormShape
  <2>4. QED
    BY <1>6, <1>7, <2>1, <2>2, <2>3 DEF SavedStaysValid
<1>10. CardGateSuffices'
  BY <1>7 DEF CardGateSuffices
<1>11. ExtrasSurvive
  BY <1>1, <1>2, <1>7 DEF ExtrasSurvive
<1>12. QED
  BY <1>8, <1>9, <1>10, <1>11 DEF FormInv

Latest(S) == CHOOSE k \in S : \A l \in S : l <= k

\* A save of the subagents and rules: refused only for the stored main section.
LEMMA SubSaveKeeps ==
  ASSUME FormInv, SaveForm("sub")
  PROVE  FormInv' /\ ExtrasSurvive
<1> PICK a : a = ParseFallbacksConfig(doc)
  OBVIOUS
<1> PICK draft : draft = AssembleConfig(ed, a)
  OBVIOUS
<1> PICK patch : patch = [a EXCEPT !.roles = draft.roles, !.rules = draft.rules]
  OBVIOUS
<1>1. /\ DOMAIN a = {"root", "slots", "roles", "rules"} /\ AreRoles(a.roles)
      /\ a.root = doc.root /\ a.slots = doc.slots /\ DOMAIN a.roles = DOMAIN doc.roles
      /\ \A i \in DOMAIN doc.roles :
           a.roles[i].id = doc.roles[i].id /\ a.roles[i].prompt = doc.roles[i].prompt
  BY ParseIs DEF FormInv, FormShape
<1>2. /\ DOMAIN patch = {"root", "slots", "roles", "rules"}
      /\ patch.root = doc.root /\ patch.slots = doc.slots
      /\ patch.roles = draft.roles /\ patch.rules = draft.rules
  BY <1>1
<1>3. AreRoles(patch.roles) /\ AsWritten(patch.roles)
  BY <1>2, DraftIs DEF FormInv, FormShape
<1>4. ValidateDraft("sub", patch)
  BY <1>2 DEF SaveForm, ValidateDraft
<1>5. ValidateConfigPatch(patch) <=> ValidateConfigPatch(doc)
  BY <1>2 DEF ValidateConfigPatch
<1>6. CASE ~ValidateConfigPatch(patch)
  <2>1. refused' = "sub" /\ UNCHANGED <<doc, ed, saved, admitted, clock>>
    BY <1>6 DEF SaveForm
  <2>2. QED
    BY <1>5, <1>6, <2>1
    DEF FormInv, FormShape, SavedStaysValid, CardGateSuffices, ExtrasSurvive
<1>7. CASE ValidateConfigPatch(patch)
  <2>1. /\ doc' = patch /\ saved' = saved \union {"sub"} /\ refused' = "none" /\ admitted' = TRUE
        /\ ed' = SubRowsOf(patch, ed) /\ clock' = clock
    BY <1>7 DEF SaveForm
  <2>2. IsForm(ed') /\ ed'.slots = ed.slots /\ IsList(ed'.roles)
    <3>1. IsForm(ed)
      BY DEF FormInv, FormShape
    <3>2. IsForm(ed') /\ ed'.slots = ed.slots /\ ed'.roles = RolesToRows(patch.roles)
      <4>1. /\ IsForm(SubRowsOf(patch, ed)) /\ SubRowsOf(patch, ed).slots = ed.slots
            /\ SubRowsOf(patch, ed).roles = RolesToRows(patch.roles)
        BY <3>1, RowsOf, Zenon
      <4>2. QED
        BY <2>1, <4>1, Zenon
    <3>3. QED
      BY <1>3, <3>2, RolesConverted DEF AreRoles
  <2>3. FormShape'
    BY <1>2, <1>3, <2>1, <2>2 DEF FormInv, FormShape
  <2>4. "main" \in saved => ValidateDraft("main", patch)
    BY <1>2 DEF FormInv, SavedStaysValid, ValidateDraft
  <2>5. saved \subseteq {"main", "sub"}
    BY DEF FormInv, FormShape
  <2>6. SavedStaysValid' /\ CardGateSuffices'
    BY <1>3, <1>4, <1>7, <2>1, <2>4, <2>5 DEF SavedStaysValid, CardGateSuffices
  <2>7. ASSUME NEW i \in DOMAIN doc.roles, NEW j \in DOMAIN doc'.roles,
               doc.roles[i].id = doc'.roles[j].id,
               \A k \in DOMAIN doc.roles : doc.roles[k].id = doc.roles[i].id => k = i
        PROVE  doc'.roles[j].prompt = doc.roles[i].prompt
    <3>1. doc'.roles = MergeRoleExtras(ed.roles, a.roles)
      BY <1>2, <2>1 DEF AssembleConfig
    <3>2. j \in DOMAIN ed.roles
      BY <2>7, <3>1 DEF MergeRoleExtras
    <3> DEFINE same == {k \in DOMAIN a.roles : a.roles[k].id = Trim(ed.roles[j].id)}
    <3>3. /\ doc'.roles[j].id = Trim(ed.roles[j].id)
          /\ doc'.roles[j].prompt = IF same = {} THEN "-" ELSE a.roles[Latest(same)].prompt
      <4>1. MergeRoleExtras(ed.roles, a.roles)[j]
              = [id |-> Trim(ed.roles[j].id),
                 prompt |-> IF same = {} THEN "-" ELSE a.roles[Latest(same)].prompt,
                 chain |-> RowsToChain(ed.roles[j].chain),
                 fallback |-> ed.roles[j].fallback, labelled |-> FALSE]
        BY <3>2, Zenon DEF MergeRoleExtras, Latest
      <4>2. QED
        BY <3>1, <4>1
    <3>4. same = {i}
      BY <1>1, <2>7, <3>3
    <3> HIDE DEF same
    <3>5. i \in Int
      <4>1. IsList(doc.roles)
        BY DEF FormInv, FormShape, AreRoles
      <4>2. QED
        BY <2>7, <4>1, ListDomain
    <3>6. Latest(same) = i
      BY <3>4, <3>5 DEF Latest
    <3>7. QED
      BY <1>1, <2>7, <3>3, <3>4, <3>6
  <2>8. QED
    BY <2>3, <2>6, <2>7 DEF FormInv, ExtrasSurvive
<1>8. QED
  BY <1>6, <1>7

\* Another client's write of the main section passed the same gate.
LEMMA OtherKeeps ==
  ASSUME FormInv, SetByOther
  PROVE  FormInv' /\ ExtrasSurvive
<1>1. PICK main \in OtherMain :
        /\ ValidateConfigPatch(main) /\ doc' = [doc EXCEPT !.root = main.root, !.slots = main.slots]
        /\ admitted' = TRUE /\ saved' = saved \ {"main"} /\ refused' = "none"
        /\ UNCHANGED <<ed, clock>>
  BY DEF SetByOther
<1>2. DOMAIN doc = {"root", "slots", "roles", "rules"}
  BY DEF FormInv, FormShape
<1>3. /\ DOMAIN doc' = {"root", "slots", "roles", "rules"}
      /\ doc'.root = main.root /\ doc'.slots = main.slots
      /\ doc'.roles = doc.roles /\ doc'.rules = doc.rules
  BY <1>1, <1>2
<1>4. AreSlots(main.slots)
  <2>1. main.slots \in Seq(SlotRow)
    BY FormAssumption
  <2>2. \A row \in SlotRow : IsSlot(row)
    BY DEF SlotRow, IsSlot
  <2>3. QED
    BY <2>1, <2>2, ListOf DEF AreSlots
<1>5. FormShape'
  BY <1>1, <1>3, <1>4 DEF FormInv, FormShape
<1>6. SavedStaysValid'
  <2>1. "sub" \in saved => ValidateDraft("sub", doc')
    BY <1>3 DEF FormInv, SavedStaysValid, ValidateDraft
  <2>2. saved' \subseteq {"sub"} /\ ("sub" \in saved' => "sub" \in saved)
    BY <1>1 DEF FormInv, FormShape
  <2>3. ValidateConfigPatch(doc')
    BY <1>1, <1>3 DEF ValidateConfigPatch
  <2>4. QED
    BY <1>3, <2>1, <2>2, <2>3 DEF FormInv, SavedStaysValid
<1>7. QED
  BY <1>1, <1>3, <1>5, <1>6 DEF FormInv, CardGateSuffices, ExtrasSurvive

\* An edit changes rows of the form only.
LEMMA EditKeeps ==
  ASSUME FormInv, FormEdit
  PROVE  FormInv' /\ ExtrasSurvive
<1>1. /\ IsForm(ed) /\ AreSlots(ed.slots) /\ IsList(ed.roles)
  BY DEF FormInv, FormShape
<1>2. \A row \in SlotChoice : IsSlot(row)
  BY FormAssumption DEF SlotRow, IsSlot
<1>3. ASSUME NEW e, Edited(e), IsForm(e), AreSlots(e.slots), IsList(e.roles)
      PROVE  FormInv' /\ ExtrasSurvive
  <2>1. ed' = e /\ UNCHANGED <<doc, saved, admitted, refused, clock>>
    BY <1>3 DEF Edited
  <2>2. QED
    BY <1>3, <2>1
    DEF FormInv, FormShape, SavedStaysValid, CardGateSuffices, ExtrasSurvive
<1>4. ASSUME NEW slots, AreSlots(slots), Edited([ed EXCEPT !.slots = slots])
      PROVE  FormInv' /\ ExtrasSurvive
  <2>1. PICK e : e = [ed EXCEPT !.slots = slots]
    OBVIOUS
  <2>2. IsForm(e) /\ e.slots = slots /\ e.roles = ed.roles
    BY <1>1, <2>1 DEF IsForm
  <2>3. QED
    BY <1>1, <1>3, <1>4, <2>1, <2>2
<1>5. ASSUME NEW roles, IsList(roles), Edited([ed EXCEPT !.roles = roles])
      PROVE  FormInv' /\ ExtrasSurvive
  <2>1. PICK e : e = [ed EXCEPT !.roles = roles]
    OBVIOUS
  <2>2. IsForm(e) /\ e.roles = roles /\ e.slots = ed.slots
    BY <1>1, <2>1 DEF IsForm
  <2>3. QED
    BY <1>1, <1>3, <1>5, <2>1, <2>2
<1>6. ASSUME NEW f \in {"model", "lead", "rules"}, NEW v, Edited([ed EXCEPT ![f] = v])
      PROVE  FormInv' /\ ExtrasSurvive
  <2>1. PICK e : e = [ed EXCEPT ![f] = v]
    OBVIOUS
  <2>2. IsForm(e) /\ e.roles = ed.roles /\ e.slots = ed.slots
    BY <1>1, <2>1 DEF IsForm
  <2>3. QED
    BY <1>1, <1>3, <1>6, <2>1, <2>2
<1>7. CASE PickModel \/ EditLead \/ EditRules
  BY <1>6, <1>7 DEF PickModel, EditLead, EditRules
<1>8. CASE AddSlot
  <2>1. PICK row \in SlotChoice : Edited([ed EXCEPT !.slots = Append(@, row)])
    BY <1>8 DEF AddSlot
  <2>2. PICK slots : slots = Append(ed.slots, row)
    OBVIOUS
  <2>3. AreSlots(slots) /\ Edited([ed EXCEPT !.slots = slots])
    BY <1>1, <1>2, <2>1, <2>2, SlotsEdited
  <2>4. QED
    BY <1>4, <2>3
<1>9. CASE EditSlot
  <2>1. PICK i \in DOMAIN ed.slots, row \in SlotChoice : Edited([ed EXCEPT !.slots[i] = row])
    BY <1>9 DEF EditSlot
  <2>2. PICK slots : slots = [ed.slots EXCEPT ![i] = row]
    OBVIOUS
  <2>3. AreSlots(slots) /\ Edited([ed EXCEPT !.slots = slots])
    BY <1>1, <1>2, <2>1, <2>2, SlotsEdited
  <2>4. QED
    BY <1>4, <2>3
<1>10. CASE MoveSlot
  <2>1. PICK from \in DOMAIN ed.slots, to \in DOMAIN ed.slots :
          Edited([ed EXCEPT !.slots = InsertAt(RemoveAt(@, from), to, @[from])])
    BY <1>10 DEF MoveSlot
  <2>2. PICK slots : slots = InsertAt(RemoveAt(ed.slots, from), to, ed.slots[from])
    OBVIOUS
  <2>3. IsSlot(ed.slots[from])
    BY <1>1 DEF AreSlots
  <2>4. AreSlots(slots) /\ Edited([ed EXCEPT !.slots = slots])
    BY <1>1, <2>1, <2>2, <2>3, SlotsEdited
  <2>5. QED
    BY <1>4, <2>4
<1>11. CASE AddRole
  <2>1. PICK row \in RoleChoice : Edited([ed EXCEPT !.roles = Append(@, row)])
    BY <1>11 DEF AddRole
  <2>2. PICK roles : roles = Append(ed.roles, row)
    OBVIOUS
  <2>3. IsList(roles) /\ Edited([ed EXCEPT !.roles = roles])
    BY <1>1, <2>1, <2>2, RowsEdited
  <2>4. QED
    BY <1>5, <2>3
<1>12. CASE RemoveRole
  <2>1. PICK i \in DOMAIN ed.roles : Edited([ed EXCEPT !.roles = RemoveAt(@, i)])
    BY <1>12 DEF RemoveRole
  <2>2. PICK roles : roles = RemoveAt(ed.roles, i)
    OBVIOUS
  <2>3. IsList(roles) /\ Edited([ed EXCEPT !.roles = roles])
    BY <1>1, <2>1, <2>2, RowsEdited
  <2>4. QED
    BY <1>5, <2>3
<1>13. CASE EditRole
  <2>1. PICK i \in DOMAIN ed.roles, row \in RoleChoice : Edited([ed EXCEPT !.roles[i] = row])
    BY <1>13 DEF EditRole
  <2>2. PICK roles : roles = [ed.roles EXCEPT ![i] = row]
    OBVIOUS
  <2>3. IsList(roles) /\ Edited([ed EXCEPT !.roles = roles])
    BY <1>1, <2>1, <2>2, RowsEdited
  <2>4. QED
    BY <1>5, <2>3
<1>14. QED
  BY <1>7, <1>8, <1>9, <1>10, <1>11, <1>12, <1>13 DEF FormEdit

\* The clock stays within the minutes looked at.
LEMMA TickKeeps ==
  ASSUME FormInv, Tick
  PROVE  FormInv' /\ ExtrasSurvive
<1> DEFINE later == {m \in Minute : m > clock[2]}
           First(ms) == CHOOSE m \in ms : \A n \in ms : m <= n
<1>1. clock \in Clock
  BY DEF FormInv, FormShape
<1>2. clock[1] \in 0..6 /\ clock[2] \in Minute /\ Minute \subseteq Nat
  BY <1>1, MinuteAssumption DEF Clock
<1>3. ASSUME NEW ms, ms \subseteq Minute, ms # {} PROVE First(ms) \in ms
  BY <1>2, <1>3, LeastNaturalExists
<1>4. clock' = IF later # {} THEN <<clock[1], First(later)>> ELSE <<(clock[1] + 1) % 7, First(Minute)>>
  BY DEF Tick
<1> HIDE DEF First
<1>5. clock' \in Clock
  <2>1. CASE later # {}
    <3>1. First(later) \in Minute
      BY <1>3, <2>1
    <3>2. QED
      BY <1>2, <1>4, <2>1, <3>1 DEF Clock
  <2>2. CASE later = {}
    <3>1. First(Minute) \in Minute
      BY <1>2, <1>3
    <3>2. clock' = <<(clock[1] + 1) % 7, First(Minute)>> /\ (clock[1] + 1) % 7 \in 0..6
      BY <1>2, <1>4, <2>2
    <3>3. QED
      BY <3>1, <3>2 DEF Clock
  <2>3. QED
    BY <2>1, <2>2
<1>6. UNCHANGED <<doc, ed, saved, admitted, refused>>
  BY DEF Tick
<1>7. QED
  BY <1>5, <1>6 DEF FormInv, FormShape, SavedStaysValid, CardGateSuffices, ExtrasSurvive

\* No step of the form, the gateway, another client or the clock breaks what is kept
\* of the form, nor loses what the rows of a role never show.
LEMMA FormStep == FormInv /\ [FormNext \/ Tick]_formRowVars => FormInv' /\ [ExtrasSurvive]_formRowVars
<1> SUFFICES ASSUME FormInv, [FormNext \/ Tick]_formRowVars
             PROVE  FormInv' /\ [ExtrasSurvive]_formRowVars
  OBVIOUS
<1>1. CASE UNCHANGED formRowVars
  BY <1>1 DEF formRowVars, FormInv, FormShape, SavedStaysValid, CardGateSuffices
<1>2. CASE FormNext \/ Tick
  BY <1>2, MainSaveKeeps, SubSaveKeeps, OtherKeeps, EditKeeps, TickKeeps DEF FormNext
<1>3. QED
  BY <1>1, <1>2

\* So it is always kept.
LEMMA FormInvAlways == FormSpec => []FormInv
<1>1. FormInit => FormInv
  BY FormStarts
<1>2. FormInv /\ [FormNext \/ Tick]_formRowVars => FormInv'
  BY FormStep
<1>3. QED
  BY <1>1, <1>2, PTL DEF FormSpec

\* What passes the form's gate for the subagents loads without a warning, and holds no
\* key of an old schema.
LEMMA SubLoadsQuietly ==
  ASSUME NEW d, DOMAIN d = {"root", "slots", "roles", "rules"}, AreRoles(d.roles),
         ValidateDraft("sub", d), AsWritten(d.roles)
  PROVE  /\ ValidateFallbacksConfig("sub", [d EXCEPT !.roles = Filled(@)])
         /\ ~DetectLegacyKeys(d)
<1>1. PICK filled : filled = Filled(d.roles)
  OBVIOUS
<1>2. PICK loaded : loaded = [d EXCEPT !.roles = filled]
  OBVIOUS
<1>3. loaded.roles = filled /\ loaded.rules = d.rules
  BY <1>2
<1>4. /\ DOMAIN filled = DOMAIN d.roles
      /\ \A i \in DOMAIN d.roles :
           /\ filled[i].id = d.roles[i].id
           /\ filled[i].chain = IF d.roles[i].chain = <<>> /\ Trim(d.roles[i].id) \in Seeded
                                THEN <<Entry("exact")>> ELSE d.roles[i].chain
  BY <1>1 DEF Filled, AreRoles
<1>5. AllParse(<<Entry("exact")>>)
  BY DEF AllParse, Parses, Entry
<1>6. /\ \A i \in DOMAIN d.roles : RoleFit(d.roles, i)
      /\ \A i \in DOMAIN d.rules :
           d.rules[i].role \in DeclaredIds(d.roles) \union {INHERIT_ROLE_ID}
  BY DEF ValidateDraft
<1>7. ASSUME NEW i \in DOMAIN filled PROVE RoleQuiet(filled, i)
  <2>1. RoleFit(d.roles, i) /\ d.roles[i].id = Trim(d.roles[i].id)
    BY <1>4, <1>6, <1>7 DEF AsWritten
  <2>2. filled[i].chain # <<>> /\ AllParse(filled[i].chain)
    BY <1>4, <1>5, <1>7, <2>1 DEF RoleFit
  <2>3. ASSUME NEW j \in DOMAIN filled, Trim(filled[j].id) = Trim(filled[i].id) PROVE j = i
    <3>1. d.roles[j].id = d.roles[i].id
      BY <1>4, <2>3 DEF AsWritten
    <3>2. QED
      BY <1>4, <2>1, <2>3, <3>1 DEF RoleFit
  <2>4. WellFormedId(Trim(filled[i].id)) /\ Trim(filled[i].id) # INHERIT_ROLE_ID
    BY <1>4, <1>7, <2>1 DEF RoleFit
  <2>5. QED
    BY <2>2, <2>3, <2>4 DEF RoleQuiet
<1>8. ASSUME NEW i \in DOMAIN d.rules
      PROVE  Trim(d.rules[i].role) \in TrimmedIds(filled) \union {INHERIT_ROLE_ID}
  <2>1. CASE d.rules[i].role = INHERIT_ROLE_ID
    BY <2>1 DEF INHERIT_ROLE_ID, Trim, Id
  <2>2. CASE d.rules[i].role \in DeclaredIds(d.roles)
    BY <1>4, <2>2 DEF DeclaredIds, TrimmedIds
  <2>3. QED
    BY <1>6, <1>8, <2>1, <2>2
<1>9. ValidateFallbacksConfig("sub", loaded)
  BY <1>3, <1>7, <1>8 DEF ValidateFallbacksConfig
<1>10. ~DetectLegacyKeys(d)
  BY <1>6 DEF DetectLegacyKeys, AsWritten
<1>11. QED
  BY <1>1, <1>2, <1>9, <1>10

\* A main section the gateway admits is loaded without a warning.
LEMMA MainLoadsQuietly ==
  ASSUME NEW d, DOMAIN d = {"root", "slots", "roles", "rules"}, ValidateDraft("main", d)
  PROVE  ValidateFallbacksConfig("main", [d EXCEPT !.roles = Filled(@)])
<1>1. PICK loaded : loaded = [d EXCEPT !.roles = Filled(@)]
  OBVIOUS
<1>2. loaded.root = d.root /\ loaded.slots = d.slots
  BY <1>1
<1>3. SlotRowsQuiet(d.slots)
  BY DEF ValidateDraft, SlotFit, SlotRowsQuiet
<1>4. ValidateFallbacksConfig("main", loaded)
  BY <1>2, <1>3 DEF ValidateDraft, ValidateFallbacksConfig
<1>5. QED
  BY <1>1, <1>4

\* None of the three gates is looser than the next: what the form's validation lets
\* through the gateway takes, and what was saved loads without a warning and takes effect,
\* for any stored documents and edits.
THEOREM GatesStayInStep == FormSpec => []GatesAgree
<1>1. FormInv => GatesAgree
  <2> SUFFICES ASSUME FormInv PROVE GatesAgree
    OBVIOUS
  <2>1. /\ DOMAIN doc = {"root", "slots", "roles", "rules"} /\ AreRoles(doc.roles)
        /\ saved \subseteq {"main", "sub"} /\ SavedStaysValid /\ CardGateSuffices
    BY DEF FormInv, FormShape
  <2>2. SavedLoadsQuietly
    BY <2>1, MainLoadsQuietly, SubLoadsQuietly DEF SavedLoadsQuietly, SavedStaysValid
  <2>3. AdmittedRowsTakeEffect
    BY <2>1 DEF SavedStaysValid, AdmittedRowsTakeEffect, ValidateConfigPatch,
             ValidateTimeSlotsPatch, PresetRowFit, CustomRowFit, Described, RepeatsPreset
  <2>4. QED
    BY <2>1, <2>2, <2>3 DEF GatesAgree
<1>2. QED
  BY <1>1, FormInvAlways, PTL

\* The hidden fields of a role survive every save, as long as its id is kept and was
\* unambiguous.
THEOREM RoleExtrasSurvive == FormSpec => [][ExtrasSurvive]_formRowVars
<1>1. FormInv /\ [FormNext \/ Tick]_formRowVars => [ExtrasSurvive]_formRowVars
  BY FormStep
<1>2. QED
  BY <1>1, FormInvAlways, PTL DEF FormSpec

-----------------------------------------------------------------------------
(* Rows and document, back and forth.  A chain an editor shows has no      *)
(* blanks around its texts; one the form has written has no empty text     *)
(* either, and goes through the rows unchanged.                            *)

Plain(chain) == IsList(chain) /\ \A i \in DOMAIN chain : chain[i] = Entry(chain[i].text)
OfTheForm(chain) == Plain(chain) /\ \A i \in DOMAIN chain : chain[i].text # ""

\* A sequence over a set is one over a larger set.
LEMMA SeqWidens ==
  ASSUME NEW A, NEW B, A \subseteq B, NEW s \in Seq(A)
  PROVE  s \in Seq(B)
  OBVIOUS

\* A list is the function of its elements.
LEMMA ListIsFunction ==
  ASSUME NEW list, IsList(list)
  PROVE  list = [i \in DOMAIN list |-> list[i]]
  BY SMT DEF IsList

\* The chain of a row: one entry for one, without its blanks.
LEMMA SelectorsAre ==
  ASSUME NEW chain, IsList(chain)
  PROVE  /\ Plain(Selectors(chain)) /\ DOMAIN Selectors(chain) = DOMAIN chain
         /\ \A i \in DOMAIN chain : Selectors(chain)[i] = Entry(chain[i].text)
         /\ Plain(chain) => Selectors(chain) = chain
<1>1. Len(chain) \in Nat /\ DOMAIN chain = 1..Len(chain) /\ chain = [i \in DOMAIN chain |-> chain[i]]
  BY SMT DEF IsList
<1>2. /\ DOMAIN Selectors(chain) = DOMAIN chain
      /\ \A i \in DOMAIN chain : Selectors(chain)[i] = Entry(chain[i].text)
  BY DEF Selectors, EntryToSelectorRow
<1>3. IsList(Selectors(chain))
  BY <1>1, FunctionIsList DEF Selectors
<1>4. \A e : Entry(e).text = e
  BY DEF Entry
<1>5. Plain(chain) => Selectors(chain) = chain
  <2> SUFFICES ASSUME Plain(chain) PROVE Selectors(chain) = chain
    OBVIOUS
  <2>1. \A i \in DOMAIN chain : Entry(chain[i].text) = chain[i]
    BY DEF Plain
  <2>2. Selectors(chain) = [i \in DOMAIN chain |-> Entry(chain[i].text)]
    BY DEF Selectors, EntryToSelectorRow
  <2>3. QED
    BY <1>1, <2>1, <2>2
<1>6. Plain(Selectors(chain))
  BY <1>2, <1>3, <1>4 DEF Plain
<1>7. QED
  BY <1>2, <1>5, <1>6

\* What a filter leaves of a list is a list of its elements that pass.
LEMMA AmongList ==
  ASSUME NEW s, IsList(s), NEW S
  PROVE  /\ IsList(Among(s, S))
         /\ \A k \in DOMAIN Among(s, S) : Among(s, S)[k] \in S /\ \E i \in DOMAIN s : Among(s, S)[k] = s[i]
<1> DEFINE X == {s[i] : i \in DOMAIN s}
<1>1. s \in Seq(X)
  BY DEF IsList
<1> HIDE DEF X
<1>2. Picks(Among(Places(s), Passing(s, S)), Among(s, S), Len(s), s, Passing(s, S), X)
  BY <1>1, AmongPassing
<1> SUFFICES ASSUME NEW a, NEW b, NEW I, Picks(a, b, Len(s), s, I, X), I = Passing(s, S)
             PROVE  IsList(b) /\ \A k \in DOMAIN b : b[k] \in S /\ \E i \in DOMAIN s : b[k] = s[i]
  BY <1>2
<1>3. a \in Seq(I) /\ b \in Seq(X) /\ Len(b) = Len(a) /\ \A k \in DOMAIN a : b[k] = s[a[k]]
  BY DEF Picks
<1>4. DOMAIN b = DOMAIN a /\ \A k \in DOMAIN a : a[k] \in I
  BY <1>3
<1>5. \A i \in I : i \in DOMAIN s /\ s[i] \in S
  BY DEF Passing
<1>6. IsList(b)
  BY <1>3, ListOf
<1>7. QED
  BY <1>3, <1>4, <1>5, <1>6

\* The chain the rows write: no blanks, no empty text; written once, it stays.
LEMMA ChainWritten ==
  ASSUME NEW chain, Plain(chain)
  PROVE  /\ OfTheForm(RowsToChain(chain))
         /\ OfTheForm(chain) => RowsToChain(chain) = chain
<1> DEFINE S == {e \in ToSet(chain) : e.text # ""}
           X == {chain[i] : i \in DOMAIN chain}
<1>1. RowsToChain(chain) = Among(chain, S) /\ IsList(chain)
  BY DEF RowsToChain, Plain
<1>2. /\ IsList(Among(chain, S))
      /\ \A k \in DOMAIN Among(chain, S) :
           Among(chain, S)[k] \in S /\ \E i \in DOMAIN chain : Among(chain, S)[k] = chain[i]
  <2> HIDE DEF S
  <2>1. QED
    BY <1>1, AmongList
<1>3. \A e \in S : e.text # ""
  OBVIOUS
<1>4. OfTheForm(Among(chain, S))
  <2> HIDE DEF S
  <2>1. QED
    BY <1>2, <1>3 DEF OfTheForm, Plain
<1>5. ASSUME OfTheForm(chain) PROVE Among(chain, S) = chain
  <2>1. \A i \in DOMAIN chain : chain[i] \in S
    BY <1>5 DEF OfTheForm, ToSet
  <2>2. chain \in Seq(X)
    BY <1>1 DEF IsList
  <2> HIDE DEF S, X
  <2>3. QED
    BY <2>1, <2>2, AmongAll
<1>6. QED
  BY <1>1, <1>4, <1>5

\* The texts of a chain that say anything, in their order.
TextOf(chain) == [i \in DOMAIN chain |-> chain[i].text]

\* Texts is a filter of the texts of a chain.
LEMMA TextsAre ==
  ASSUME NEW chain, IsList(chain)
  PROVE  /\ TextOf(chain) \in Seq(ToSet(TextOf(chain)))
         /\ DOMAIN TextOf(chain) = DOMAIN chain /\ \A i \in DOMAIN chain : TextOf(chain)[i] = chain[i].text
         /\ Texts(chain) = Among(TextOf(chain), ToSet(TextOf(chain)) \ {""})
<1>1. Len(chain) \in Nat /\ DOMAIN chain = 1..Len(chain)
  BY ListDomain
<1>2. IsList(TextOf(chain))
  BY <1>1, FunctionIsList DEF TextOf
<1>3. TextOf(chain) \in Seq(ToSet(TextOf(chain)))
  BY <1>2 DEF IsList, ToSet
<1>4. Texts(chain) = Among(TextOf(chain), ToSet(TextOf(chain)) \ {""})
  BY Zenon DEF Texts, TextOf
<1>5. QED
  BY <1>3, <1>4 DEF TextOf

\* The texts of a chain are those at the places where there is one.
Worded(chain) == {i \in DOMAIN chain : chain[i].text # ""}
WordedPlaces(chain) == Among(Places(chain), Worded(chain))

\* The texts of a chain are those of its entries that say something.
LEMMA TextsAtPlaces ==
  ASSUME NEW chain, IsList(chain)
  PROVE  /\ Texts(chain) = [k \in DOMAIN WordedPlaces(chain) |-> chain[WordedPlaces(chain)[k]].text]
         /\ \A k \in DOMAIN WordedPlaces(chain) : WordedPlaces(chain)[k] \in Worded(chain)
<1>1. PICK t, T : t = TextOf(chain) /\ T = ToSet(TextOf(chain)) \ {""}
  OBVIOUS
<1>2. /\ t \in Seq(ToSet(t)) /\ DOMAIN t = DOMAIN chain /\ \A i \in DOMAIN chain : t[i] = chain[i].text
      /\ Texts(chain) = Among(t, T)
  BY <1>1, TextsAre
<1>3. Passing(t, T) = Worded(chain)
  BY <1>1, <1>2 DEF Passing, Worded, ToSet
<1>4. Places(t) = Places(chain)
  BY <1>2 DEF Places
<1>5. /\ Picks(Among(Places(t), Passing(t, T)), Among(t, T), Len(t), t, Passing(t, T), ToSet(t))
      /\ Among(t, T) = [k \in DOMAIN Among(Places(t), Passing(t, T)) |-> t[Among(Places(t), Passing(t, T))[k]]]
  BY <1>2, AmongPassing
<1>6. PICK a : a = WordedPlaces(chain)
  OBVIOUS
<1>7. /\ Picks(a, Among(t, T), Len(t), t, Worded(chain), ToSet(t))
      /\ Texts(chain) = [k \in DOMAIN a |-> t[a[k]]]
  <2>1. Among(Places(t), Passing(t, T)) = a
    BY <1>3, <1>4, <1>6 DEF WordedPlaces
  <2>2. Picks(a, Among(t, T), Len(t), t, Worded(chain), ToSet(t))
    BY <1>3, <1>5, <2>1
  <2>3. Texts(chain) = [k \in DOMAIN a |-> t[a[k]]]
    BY <1>2, <1>5, <2>1
  <2>4. QED
    BY <2>2, <2>3
<1>8. \A k \in DOMAIN a : a[k] \in Worded(chain) /\ a[k] \in DOMAIN chain
  <2>1. a \in Seq(Worded(chain))
    BY <1>7 DEF Picks
  <2>2. \A i \in Worded(chain) : i \in DOMAIN chain
    BY DEF Worded
  <2>3. QED
    BY <2>1, <2>2
<1>9. Texts(chain) = [k \in DOMAIN a |-> chain[a[k]].text]
  BY <1>2, <1>7, <1>8
<1>10. QED
  BY <1>6, <1>8, <1>9

\* Through the rows and back, a chain loses no text.
LEMMA TextsKept ==
  ASSUME NEW chain, IsList(chain)
  PROVE  Texts(RowsToChain(Selectors(chain))) = Texts(chain)
<1>1. PICK s, S, b : s = Selectors(chain) /\ S = {e \in ToSet(s) : e.text # ""} /\ b = RowsToChain(s)
  OBVIOUS
<1>2. /\ Plain(s) /\ DOMAIN s = DOMAIN chain /\ \A i \in DOMAIN chain : s[i] = Entry(chain[i].text)
      /\ IsList(s) /\ s \in Seq(ToSet(s)) /\ b = Among(s, S)
  <2>1. Plain(s) /\ DOMAIN s = DOMAIN chain /\ \A i \in DOMAIN chain : s[i] = Entry(chain[i].text)
    BY <1>1, SelectorsAre
  <2>2. IsList(s) /\ s \in Seq(ToSet(s))
    BY <2>1 DEF Plain, IsList, ToSet
  <2>3. b = Among(s, S)
    BY <1>1 DEF RowsToChain
  <2>4. QED
    BY <2>1, <2>2, <2>3
<1>3. \A e : Entry(e).text = e
  BY DEF Entry
<1>4. Passing(s, S) = Worded(chain) /\ Places(s) = Places(chain)
  BY <1>1, <1>2, <1>3 DEF Passing, Worded, ToSet, Places
<1>5. b = [k \in DOMAIN Among(Places(s), Passing(s, S)) |-> s[Among(Places(s), Passing(s, S))[k]]]
  BY <1>2, AmongPassing
<1>6. PICK a : a = WordedPlaces(chain)
  OBVIOUS
<1>7. b = [k \in DOMAIN a |-> s[a[k]]]
  BY <1>4, <1>5, <1>6 DEF WordedPlaces
<1>8. /\ \A k \in DOMAIN a : a[k] \in DOMAIN chain /\ chain[a[k]].text # ""
      /\ Texts(chain) = [k \in DOMAIN a |-> chain[a[k]].text]
  BY <1>6, TextsAtPlaces DEF Worded
<1>9. DOMAIN b = DOMAIN a /\ \A k \in DOMAIN b : b[k].text = chain[a[k]].text
  BY <1>2, <1>3, <1>7, <1>8
<1>10. OfTheForm(b)
  BY <1>1, <1>2, ChainWritten
<1>11. Texts(b) = TextOf(b)
  <2>1. IsList(b)
    BY <1>10 DEF OfTheForm, Plain
  <2>2. PICK t, T : t = TextOf(b) /\ T = ToSet(TextOf(b)) \ {""}
    OBVIOUS
  <2>3. t \in Seq(ToSet(t)) /\ DOMAIN t = DOMAIN b /\ (\A i \in DOMAIN b : t[i] = b[i].text) /\ Texts(b) = Among(t, T)
    BY <2>1, <2>2, TextsAre
  <2>4. \A i \in DOMAIN t : t[i] \in T
    BY <1>10, <2>2, <2>3 DEF OfTheForm, ToSet
  <2>5. Among(t, T) = t
    BY <2>3, <2>4, AmongAll
  <2>6. QED
    BY <2>2, <2>3, <2>5
<1>12. TextOf(b) = [k \in DOMAIN a |-> chain[a[k]].text]
  BY <1>9 DEF TextOf
<1>13. QED
  BY <1>1, <1>8, <1>11, <1>12

\* The texts of a chain with one more entry.
Says(w) == w # ""

\* An entry with a text adds that text.
LEMMA TextsOneMore ==
  ASSUME NEW chain, IsList(chain), NEW w, Says(w)
  PROVE  Texts(Append(chain, Entry(w))) = Append(Texts(chain), w)
<1>1. PICK t, c : t = TextOf(chain) /\ c = Append(chain, Entry(w))
  OBVIOUS
<1>2. PICK X : X = ToSet(t) \union {w}
  OBVIOUS
<1>3. /\ t \in Seq(ToSet(t)) /\ DOMAIN t = DOMAIN chain /\ (\A i \in DOMAIN chain : t[i] = chain[i].text)
      /\ Texts(chain) = Among(t, ToSet(t) \ {""})
  BY <1>1, TextsAre
<1>4. t \in Seq(X) /\ w \in X
  <2>1. ToSet(t) \subseteq X /\ w \in X /\ t \in Seq(ToSet(t))
    BY <1>2, <1>3
  <2>2. QED
    BY <2>1, SeqWidens
<1>5. IsList(c)
  BY <1>1, ListEdited, ListOf
<1>6. TextOf(c) = Append(t, w)
  <2>1. chain \in Seq({chain[i] : i \in DOMAIN chain})
    BY DEF IsList
  <2>2. Len(chain) \in Nat /\ DOMAIN chain = 1..Len(chain) /\ Len(t) = Len(chain)
    <3>1. Len(chain) \in Nat /\ DOMAIN chain = 1..Len(chain)
      BY ListDomain
    <3>2. Len(t) \in Nat /\ DOMAIN t = 1..Len(t)
      BY <1>4
    <3>3. \A m, n \in Nat : 1..m = 1..n => m = n
      OBVIOUS
    <3>4. QED
      BY <1>3, <3>1, <3>2, <3>3
  <2>3. /\ DOMAIN c = 1..(Len(chain) + 1) /\ c[Len(chain) + 1] = Entry(w)
        /\ \A i \in 1..Len(chain) : c[i] = chain[i]
    <3>1. PICK Y : Y = {chain[i] : i \in DOMAIN chain} \union {Entry(w)}
      OBVIOUS
    <3>2. chain \in Seq(Y) /\ Entry(w) \in Y
      <4>1. {chain[i] : i \in DOMAIN chain} \subseteq Y /\ Entry(w) \in Y
        BY <3>1
      <4>2. QED
        BY <2>1, <4>1, SeqWidens
    <3>3. QED
      BY <1>1, <2>2, <3>2, AppendProperties
  <2>4. PICK u : u = Append(t, w)
    OBVIOUS
  <2>5. /\ DOMAIN u = 1..(Len(chain) + 1) /\ u[Len(chain) + 1] = w
        /\ \A i \in 1..Len(chain) : u[i] = t[i]
        /\ u = [i \in DOMAIN u |-> u[i]]
    <3>1. u \in Seq(X)
      BY <1>4, <2>4
    <3>2. u = [i \in DOMAIN u |-> u[i]]
      BY <3>1
    <3>3. QED
      BY <1>4, <2>2, <2>4, <3>2, AppendProperties
  <2>6. \A i \in 1..(Len(chain) + 1) : c[i].text = u[i]
    <3> TAKE i \in 1..(Len(chain) + 1)
    <3>1. CASE i = Len(chain) + 1
      BY <2>3, <2>5, <3>1 DEF Entry
    <3>2. CASE i # Len(chain) + 1
      <4>1. i \in 1..Len(chain)
        BY <2>2, <3>2
      <4>2. QED
        BY <1>3, <2>2, <2>3, <2>5, <4>1
    <3>3. QED
      BY <3>1, <3>2
  <2>7. QED
    BY <2>3, <2>4, <2>5, <2>6 DEF TextOf
<1>7. PICK S : S = X \ {""}
  OBVIOUS
<1>8. Among(Append(t, w), S) = Append(Among(t, S), w)
  <2>1. w \in S
    BY <1>2, <1>7 DEF Says
  <2>2. QED
    BY <1>4, <2>1, AmongOneMore
<1>9. Among(t, S) = Texts(chain)
  <2>1. \A i \in DOMAIN t : t[i] \in S <=> t[i] \in ToSet(t) \ {""}
    BY <1>2, <1>7 DEF ToSet
  <2>2. PICK T : T = ToSet(t) \ {""}
    OBVIOUS
  <2>3. Among(t, S) = Among(t, T)
    BY <1>4, <2>1, <2>2, AmongAgrees
  <2>4. QED
    BY <1>3, <2>2, <2>3
<1>10. Among(Append(t, w), S) = Texts(c)
  <2>1. PICK u : u = TextOf(c)
    OBVIOUS
  <2>2. PICK T : T = ToSet(u) \ {""}
    OBVIOUS
  <2>3. u = Append(t, w) /\ u \in Seq(ToSet(u)) /\ Texts(c) = Among(u, T)
    BY <1>5, <1>6, <2>1, <2>2, TextsAre
  <2>4. \A i \in DOMAIN u : u[i] \in S <=> u[i] \in T
    <3>1. \A i \in DOMAIN u : u[i] \in X
      <4>1. u \in Seq(X)
        BY <1>4, <2>3
      <4>2. QED
        BY <4>1
    <3>2. QED
      BY <1>7, <2>2, <3>1 DEF ToSet
  <2>5. Among(u, S) = Among(u, T)
    BY <2>3, <2>4, AmongAgrees
  <2>6. QED
    BY <2>3, <2>5
<1>11. QED
  BY <1>1, <1>8, <1>9, <1>10

\* A row is renewed field by field, whatever it held there.
RenewedFields(row, start, end, name, chain) ==
  [f \in {"kind", "preset", "start", "end", "days", "name", "chain"} |->
     CASE f = "start" -> start [] f = "end" -> end [] f = "name" -> name
       [] f = "chain" -> chain [] OTHER -> row[f]]

\* A row whose fields but the kind, preset and days are replaced.
LEMMA RenewedIs ==
  ASSUME NEW row, NEW start, NEW end, NEW name, NEW chain, IsSlot(row)
  PROVE  Renewed(row, start, end, name, chain) = RenewedFields(row, start, end, name, chain)
<1>1. PICK a : a = [row EXCEPT !.start = start]
  OBVIOUS
<1>2. PICK b : b = [a EXCEPT !.end = end]
  OBVIOUS
<1>3. PICK c : c = [b EXCEPT !.name = name]
  OBVIOUS
<1>4. PICK d : d = [c EXCEPT !.chain = chain]
  OBVIOUS
<1> DEFINE F == {"kind", "preset", "start", "end", "days", "name", "chain"}
<1>5. DOMAIN a = F /\ a.start = start /\ \A f \in F : f # "start" => a[f] = row[f]
  BY <1>1 DEF IsSlot
<1>6. /\ DOMAIN b = F /\ b.start = start /\ b.end = end
      /\ \A f \in F : f \notin {"start", "end"} => b[f] = row[f]
  BY <1>2, <1>5
<1>7. /\ DOMAIN c = F /\ c.start = start /\ c.end = end /\ c.name = name
      /\ \A f \in F : f \notin {"start", "end", "name"} => c[f] = row[f]
  BY <1>3, <1>6
<1>8. /\ DOMAIN d = F /\ d.start = start /\ d.end = end /\ d.name = name /\ d.chain = chain
      /\ \A f \in F : f \notin {"start", "end", "name", "chain"} => d[f] = row[f]
      /\ d = [f \in F |-> d[f]]
  BY <1>4, <1>7
<1>9. \A f \in F : d[f] = CASE f = "start" -> start [] f = "end" -> end [] f = "name" -> name
                            [] f = "chain" -> chain [] OTHER -> row[f]
  BY <1>8
<1>10. d = Renewed(row, start, end, name, chain)
  BY <1>1, <1>2, <1>3, <1>4 DEF Renewed
<1>11. d = RenewedFields(row, start, end, name, chain)
  BY <1>8, <1>9 DEF RenewedFields
<1>12. QED
  BY <1>10, <1>11

\* The fields of a renewed row, and what is left of the first of two renewals: nothing.
LEMMA RenewedAgain ==
  ASSUME NEW row, IsSlot(row), NEW start \in Int, NEW end \in Int, NEW name, NEW chain
  PROVE  LET r == Renewed(row, start, end, name, chain) IN
         /\ IsSlot(r) /\ r.kind = row.kind /\ r.start = start /\ r.end = end
         /\ r.name = name /\ r.chain = chain
         /\ \A s, e, n, c : Renewed(r, s, e, n, c) = Renewed(row, s, e, n, c)
<1> DEFINE F == {"kind", "preset", "start", "end", "days", "name", "chain"}
<1>1. PICK r : r = Renewed(row, start, end, name, chain)
  OBVIOUS
<1>2. r = RenewedFields(row, start, end, name, chain)
  BY <1>1, RenewedIs
<1>3. /\ r.kind = row.kind /\ r.start = start /\ r.end = end /\ r.name = name /\ r.chain = chain
      /\ \A f \in F : f \notin {"start", "end", "name", "chain"} => r[f] = row[f]
  BY <1>2 DEF RenewedFields
<1>4. IsSlot(r)
  BY <1>1, RenewedIsSlot
<1>5. ASSUME NEW s, NEW e, NEW n, NEW c
      PROVE  Renewed(r, s, e, n, c) = Renewed(row, s, e, n, c)
  <2>1. Renewed(r, s, e, n, c) = RenewedFields(r, s, e, n, c)
    BY <1>4, RenewedIs
  <2>2. Renewed(row, s, e, n, c) = RenewedFields(row, s, e, n, c)
    BY RenewedIs
  <2>3. RenewedFields(r, s, e, n, c) = RenewedFields(row, s, e, n, c)
    BY <1>3 DEF RenewedFields
  <2>4. QED
    BY <2>1, <2>2, <2>3
<1>6. QED
  BY <1>1, <1>3, <1>4, <1>5

\* Time-slot rows the form wrote and found fit read back as they are.
LEMMA SlotsReadBack ==
  ASSUME NEW list, AreSlots(list), \A i \in DOMAIN list : Plain(list[i].chain),
         NEW slots, slots = RowsToTimeSlots(list), \A i \in DOMAIN slots : SlotFit(slots, i)
  PROVE  RowsToTimeSlots(TimeSlotsToRows(slots)) = slots
<1>1. /\ DOMAIN slots = DOMAIN list /\ AreSlots(slots)
      /\ Len(slots) \in Nat /\ slots = [i \in DOMAIN slots |-> slots[i]]
  <2>1. DOMAIN slots = DOMAIN list /\ AreSlots(slots)
    BY SlotsConverted
  <2>2. slots = [i \in DOMAIN slots |-> slots[i]]
    BY DEF RowsToTimeSlots
  <2>3. QED
    BY <2>1, <2>2, ListDomain DEF AreSlots
<1> DEFINE inForm == TimeSlotsToRows(slots)
<1>2. ASSUME NEW i \in DOMAIN slots PROVE RowsToTimeSlots(inForm)[i] = slots[i]
  <2> DEFINE row == list[i]
             preset == row.kind = "preset"
             start == IF preset THEN Absent ELSE row.start
             end == IF preset THEN Absent ELSE row.end
             name == IF preset \/ row.name = "" THEN "-" ELSE row.name
             chain == RowsToChain(row.chain)
             start2 == IF start = Absent THEN Blank ELSE start
             end2 == IF end = Absent THEN Blank ELSE end
             name2 == IF name = "-" THEN "" ELSE name
             start3 == IF preset THEN Absent ELSE start2
             end3 == IF preset THEN Absent ELSE end2
             name3 == IF preset \/ name2 = "" THEN "-" ELSE name2
  <2>1. IsSlot(row) /\ Plain(row.chain) /\ i \in DOMAIN list
    BY <1>1, <1>2 DEF AreSlots
  <2>2. slots[i] = Renewed(row, start, end, name, chain)
    BY <2>1 DEF RowsToTimeSlots, Renewed, IsSlot
  <2>3. start \in Int /\ end \in Int
    BY <2>1 DEF IsSlot, Absent
  <2>4. /\ IsSlot(slots[i]) /\ slots[i].kind = row.kind /\ slots[i].start = start
        /\ slots[i].end = end /\ slots[i].name = name /\ slots[i].chain = chain
        /\ \A s, e, n, c : Renewed(slots[i], s, e, n, c) = Renewed(row, s, e, n, c)
    <3> HIDE DEF row, start, end, name, chain, preset
    <3>1. QED
      BY <2>1, <2>2, <2>3, RenewedAgain
  <2>5. OfTheForm(chain) /\ Selectors(chain) = chain /\ RowsToChain(chain) = chain
    <3>1. OfTheForm(chain)
      BY <2>1, ChainWritten
    <3> HIDE DEF chain
    <3>2. QED
      BY <3>1, SelectorsAre, ChainWritten DEF OfTheForm, Plain
  <2>6. start3 = start /\ end3 = end /\ name3 = name
    <3>1. slots[i].kind = "preset" \/ (start >= 0 /\ end >= 0)
      BY <1>2, <2>4 DEF SlotFit, CustomRowFit, IsTime
    <3>2. CASE preset
      BY <3>2
    <3>3. CASE ~preset
      <4>1. row.start >= 0 /\ row.end >= 0 /\ row.start \in Int /\ row.end \in Int
        BY <2>1, <2>4, <3>1, <3>3 DEF IsSlot
      <4>2. start3 = start /\ end3 = end
        BY <3>3, <4>1 DEF Absent, Blank
      <4>3. name3 = name
        BY <3>3
      <4>4. QED
        BY <4>2, <4>3
    <3>4. QED
      BY <3>2, <3>3
  <2>7. start2 \in Int /\ end2 \in Int
    BY <2>3 DEF Blank
  <2>8. inForm[i] = Renewed(slots[i], start2, end2, name2, chain)
    <3>1. inForm[i] = Renewed(slots[i], start2, end2, name2, Selectors(slots[i].chain))
      <4> HIDE DEF start, end, name, chain
      <4>1. QED
        BY <1>2, <2>4 DEF TimeSlotsToRows, Renewed, IsSlot
    <3>2. QED
      BY <2>4, <2>5, <3>1
  <2>9. /\ IsSlot(inForm[i]) /\ inForm[i].kind = row.kind /\ inForm[i].start = start2
        /\ inForm[i].end = end2 /\ inForm[i].name = name2 /\ inForm[i].chain = chain
        /\ \A s, e, n, c : Renewed(inForm[i], s, e, n, c) = Renewed(slots[i], s, e, n, c)
    <3> HIDE DEF row, chain, start2, end2, name2, inForm
    <3>1. IsSlot(slots[i]) /\ slots[i].kind = row.kind
      BY <2>4
    <3>2. PICK r : r = inForm[i]
      OBVIOUS
    <3>3. r = Renewed(slots[i], start2, end2, name2, chain)
      BY <2>8, <3>2
    <3>4. /\ IsSlot(r) /\ r.kind = slots[i].kind /\ r.start = start2
          /\ r.end = end2 /\ r.name = name2 /\ r.chain = chain
          /\ \A s, e, n, c : Renewed(r, s, e, n, c) = Renewed(slots[i], s, e, n, c)
      BY <2>7, <3>1, <3>3, RenewedAgain
    <3>5. QED
      BY <3>1, <3>2, <3>4
  <2>10. RowsToTimeSlots(inForm)[i] = Renewed(inForm[i], start3, end3, name3, RowsToChain(inForm[i].chain))
    <3>1. DOMAIN inForm = DOMAIN slots
      BY DEF TimeSlotsToRows
    <3> HIDE DEF inForm, start2, end2, name2, chain
    <3>2. QED
      BY <1>2, <2>9, <3>1 DEF RowsToTimeSlots, Renewed, IsSlot
  <2>11. Renewed(inForm[i], start3, end3, name3, RowsToChain(inForm[i].chain))
           = Renewed(row, start, end, name, chain)
    <3> HIDE DEF inForm, row, chain, start, end, name, start2, end2, name2, start3, end3, name3
    <3>1. QED
      BY <2>4, <2>5, <2>6, <2>9
  <2>12. QED
    BY <2>2, <2>10, <2>11
<1>3. /\ DOMAIN RowsToTimeSlots(inForm) = DOMAIN slots
      /\ RowsToTimeSlots(inForm) = [i \in DOMAIN RowsToTimeSlots(inForm) |-> RowsToTimeSlots(inForm)[i]]
  <2>1. DOMAIN inForm = DOMAIN slots
    BY DEF TimeSlotsToRows
  <2> HIDE DEF inForm
  <2>2. QED
    BY <2>1 DEF RowsToTimeSlots
<1> HIDE DEF inForm
<1>4. PICK back : back = RowsToTimeSlots(inForm)
  OBVIOUS
<1>5. back = [i \in DOMAIN slots |-> back[i]] /\ \A i \in DOMAIN slots : back[i] = slots[i]
  BY <1>2, <1>3, <1>4
<1>6. back = slots
  BY <1>1, <1>5
<1>7. QED
  BY <1>4, <1>6 DEF inForm

\* Roles the form wrote and found fit read back as they are, what it never shows too:
\* no two of them share an id.
LEMMA RolesReadBack ==
  ASSUME NEW list, IsList(list), \A i \in DOMAIN list : Plain(list[i].chain), NEW original,
         NEW roles, roles = MergeRoleExtras(list, original), \A i \in DOMAIN roles : RoleFit(roles, i)
  PROVE  MergeRoleExtras(RolesToRows(roles), roles) = roles
<1>1. DOMAIN roles = DOMAIN list /\ DOMAIN roles = 1..Len(list) /\ Len(list) \in Nat
  BY ListDomain DEF MergeRoleExtras
<1> DEFINE inForm == RolesToRows(roles)
<1>2. ASSUME NEW i \in DOMAIN roles PROVE MergeRoleExtras(inForm, roles)[i] = roles[i]
  <2>1. PICK prompt : roles[i] = [id |-> Trim(list[i].id), prompt |-> prompt,
                                  chain |-> RowsToChain(list[i].chain),
                                  fallback |-> list[i].fallback, labelled |-> FALSE]
    BY <1>1, <1>2 DEF MergeRoleExtras
  <2>2. PICK id, chain, fallback :
          id = Trim(list[i].id) /\ chain = RowsToChain(list[i].chain) /\ fallback = list[i].fallback
    OBVIOUS
  <2>3. roles[i] = [id |-> id, prompt |-> prompt, chain |-> chain, fallback |-> fallback, labelled |-> FALSE]
    BY <2>1, <2>2
  <2>4. Trim(id) = id
    BY <2>2 DEF Trim, Id
  <2>5. RowsToChain(Selectors(chain)) = chain
    <3>1. OfTheForm(chain)
      BY <1>1, <2>2, ChainWritten
    <3>2. QED
      BY <3>1, SelectorsAre, ChainWritten DEF OfTheForm, Plain
  <2> DEFINE same == {j \in DOMAIN roles : roles[j].id = id}
  <2>6. same = {i}
    BY <2>3 DEF RoleFit
  <2>7. inForm[i] = [id |-> id, chain |-> Selectors(chain), fallback |-> fallback] /\ DOMAIN inForm = DOMAIN roles
    BY <2>3 DEF RolesToRows
  <2>8. MergeRoleExtras(inForm, roles)[i]
          = [id |-> id, prompt |-> IF same = {} THEN "-" ELSE roles[Latest(same)].prompt,
             chain |-> RowsToChain(Selectors(chain)), fallback |-> fallback, labelled |-> FALSE]
    <3> DEFINE Same(x) == {j \in DOMAIN roles : roles[j].id = x}
    <3>1. MergeRoleExtras(inForm, roles)[i]
            = [id |-> Trim(inForm[i].id),
               prompt |-> IF Same(Trim(inForm[i].id)) = {} THEN "-"
                          ELSE roles[Latest(Same(Trim(inForm[i].id)))].prompt,
               chain |-> RowsToChain(inForm[i].chain), fallback |-> inForm[i].fallback, labelled |-> FALSE]
      BY <1>2, <2>7, Zenon DEF MergeRoleExtras, Latest
    <3>2. Trim(inForm[i].id) = id /\ inForm[i].chain = Selectors(chain) /\ inForm[i].fallback = fallback
      BY <2>4, <2>7
    <3>3. QED
      BY <3>1, <3>2, Zenon
  <2> HIDE DEF same
  <2>9. Latest(same) = i
    BY <1>1, <2>6 DEF Latest
  <2>10. roles[Latest(same)].prompt = prompt /\ same # {}
    BY <2>3, <2>6, <2>9
  <2>11. QED
    BY <2>3, <2>5, <2>8, <2>10
<1>3. /\ DOMAIN MergeRoleExtras(inForm, roles) = DOMAIN roles
      /\ MergeRoleExtras(inForm, roles)
           = [i \in DOMAIN MergeRoleExtras(inForm, roles) |-> MergeRoleExtras(inForm, roles)[i]]
      /\ roles = [i \in DOMAIN roles |-> roles[i]]
  BY DEF MergeRoleExtras, RolesToRows
<1> HIDE DEF inForm
<1>4. PICK back : back = MergeRoleExtras(inForm, roles)
  OBVIOUS
<1>5. back = [i \in DOMAIN roles |-> back[i]] /\ \A i \in DOMAIN roles : back[i] = roles[i]
  BY <1>2, <1>3, <1>4
<1>6. back = roles
  BY <1>3, <1>5
<1>7. QED
  BY <1>4, <1>6 DEF inForm

\* Rules the form wrote read back as they are, and none of them is an empty row.
LEMMA RulesReadBack ==
  ASSUME NEW list, IsList(list), NEW rules, rules = RowsToRules(list)
  PROVE  /\ RowsToRules(RulesToRows(rules)) = rules /\ IsList(rules)
         /\ \A i \in DOMAIN RulesToRows(rules) : RulesToRows(rules)[i].role.name # ""
<1> DEFINE Of(inForm) == [i \in DOMAIN inForm |->
                          [provider |-> IF inForm[i].provider = "" THEN "-" ELSE inForm[i].provider,
                           role |-> Trim(inForm[i].role), origin |-> "-"]]
           Named(all) == {rule \in ToSet(all) : rule.role.name # ""}
<1>1. \A inForm : RowsToRules(inForm) = Among(Of(inForm), Named(Of(inForm)))
  BY DEF RowsToRules
<1>2. IsList(Of(list))
  <2>1. Len(list) \in Nat /\ DOMAIN list = 1..Len(list)
    BY ListDomain
  <2>2. QED
    BY <2>1, FunctionIsList
<1>3. \A i \in DOMAIN Of(list) : /\ Of(list)[i].provider # "" /\ Trim(Of(list)[i].role) = Of(list)[i].role
                                 /\ Of(list)[i] = [provider |-> Of(list)[i].provider,
                                                   role |-> Of(list)[i].role, origin |-> "-"]
  BY DEF Trim, Id
<1>4. \A rule \in Named(Of(list)) : rule.role.name # ""
  OBVIOUS
<1>5. /\ IsList(rules)
      /\ \A i \in DOMAIN rules : rules[i].role.name # "" /\ \E j \in DOMAIN Of(list) : rules[i] = Of(list)[j]
  <2>0. PICK all, S : all = Of(list) /\ S = Named(Of(list))
    OBVIOUS
  <2>1. rules = Among(all, S) /\ IsList(all)
    BY <1>1, <1>2, <2>0
  <2>2. /\ IsList(rules)
        /\ \A i \in DOMAIN rules : rules[i] \in S /\ \E j \in DOMAIN all : rules[i] = all[j]
    <3>1. PICK kept : kept = Among(all, S)
      OBVIOUS
    <3>2. /\ IsList(kept)
          /\ \A k \in DOMAIN kept : kept[k] \in S /\ \E i \in DOMAIN all : kept[k] = all[i]
      BY <2>1, <3>1, AmongList
    <3>3. QED
      BY <2>1, <3>1, <3>2
  <2>3. QED
    BY <1>4, <2>0, <2>2
<1>6. \A i \in DOMAIN rules : /\ rules[i].provider # "" /\ Trim(rules[i].role) = rules[i].role
                              /\ rules[i] = [provider |-> rules[i].provider, role |-> rules[i].role,
                                             origin |-> "-"]
  <2> HIDE DEF Of
  <2>1. QED
    BY <1>3, <1>5
<1>7. PICK inForm : inForm = RulesToRows(rules)
  OBVIOUS
<1>8. /\ DOMAIN inForm = DOMAIN rules
      /\ \A i \in DOMAIN rules : /\ inForm[i].provider = IF rules[i].provider = "-" THEN "" ELSE rules[i].provider
                                 /\ inForm[i].role = rules[i].role
  BY <1>7 DEF RulesToRows
<1>9. Of(inForm) = rules
  <2>1. \A i \in DOMAIN rules : Of(inForm)[i] = rules[i]
    <3> TAKE i \in DOMAIN rules
    <3>1. Of(inForm)[i] = [provider |-> IF inForm[i].provider = "" THEN "-" ELSE inForm[i].provider,
                         role |-> Trim(inForm[i].role), origin |-> "-"]
      BY <1>8
    <3>2. /\ inForm[i].provider = IF rules[i].provider = "-" THEN "" ELSE rules[i].provider
          /\ inForm[i].role = rules[i].role /\ rules[i].provider # "" /\ Trim(rules[i].role) = rules[i].role
      BY <1>6, <1>8
    <3>3. (IF inForm[i].provider = "" THEN "-" ELSE inForm[i].provider) = rules[i].provider
      BY <3>2
    <3>4. Of(inForm)[i] = [provider |-> rules[i].provider, role |-> rules[i].role, origin |-> "-"]
      BY <3>1, <3>2, <3>3
    <3>5. QED
      BY <1>6, <3>4
  <2>2. DOMAIN Of(inForm) = DOMAIN rules /\ Of(inForm) = [i \in DOMAIN Of(inForm) |-> Of(inForm)[i]]
    BY <1>8
  <2>3. rules = [i \in DOMAIN rules |-> rules[i]]
    BY <1>5, ListIsFunction
  <2> HIDE DEF Of
  <2>4. QED
    BY <2>1, <2>2, <2>3
<1>10. Among(rules, Named(rules)) = rules
  <2>1. \A i \in DOMAIN rules : rules[i] \in Named(rules)
    BY <1>5 DEF ToSet
  <2> PICK S, X : S = Named(rules) /\ X = {rules[i] : i \in DOMAIN rules}
    OBVIOUS
  <2>2. rules \in Seq(X)
    BY <1>5 DEF IsList
  <2>3. Among(rules, S) = rules
    BY <2>1, <2>2, AmongAll
  <2>4. QED
    BY <2>3
<1>11. RowsToRules(inForm) = rules
  BY <1>1, <1>9, <1>10
<1>12. \A i \in DOMAIN inForm : inForm[i].role.name # ""
  BY <1>5, <1>8
<1>13. QED
  BY <1>5, <1>7, <1>11, <1>12

-----------------------------------------------------------------------------
(* A save and its reading.  Beside what the gates need, the rows are kept  *)
(* free of blanks, the roles the form has written parse to themselves, and *)
(* a form nobody has edited shows the document it was read from.           *)

RowsShape ==
  /\ IsList(doc.root)
  /\ \A i \in DOMAIN doc.slots : IsList(doc.slots[i].chain)
  /\ \A i \in DOMAIN doc.roles : IsList(doc.roles[i].chain)
  /\ Plain(ed.lead) /\ IsList(ed.rules)
  /\ \A i \in DOMAIN ed.slots : Plain(ed.slots[i].chain)
  /\ \A i \in DOMAIN ed.roles : Plain(ed.roles[i].chain)

ParsedRole(role) == [role EXCEPT !.labelled = FALSE]
SavedRolesParse ==
  "sub" \in saved => \A i \in DOMAIN doc.roles : ParsedRole(doc.roles[i]) = doc.roles[i]

Untouched ==
  /\ edits \in Nat
  /\ edits = 0 => /\ ed.model = AllDayModelOf(doc.root) /\ ed.lead = AllDayChainRowOf(doc.root)
                  /\ ed.slots = TimeSlotsToRows(doc.slots) /\ ed.roles = RolesToRows(doc.roles)

RowsInv == RowsShape /\ SavedRolesParse /\ Untouched

\* A chain is what comes before its last entry, and that entry.
LEMMA FrontOf ==
  ASSUME NEW chain, IsList(chain), Len(chain) # 0
  PROVE  IsList(Front(chain)) /\ chain = Append(Front(chain), chain[Len(chain)])
<1> DEFINE X == {chain[i] : i \in DOMAIN chain}
           n == Len(chain)
<1>1. chain \in Seq(X) /\ n \in Nat /\ n # 0 /\ DOMAIN chain = 1..n
  BY ListDomain DEF IsList
<1>2. \A i \in 1..(n - 1) : chain[i] \in X
  BY <1>1
<1>3. PICK f : f = SubSeq(chain, 1, n - 1)
  OBVIOUS
<1> HIDE DEF X
<1>4. f \in Seq(X) /\ Len(f) = n - 1 /\ \A i \in 1..(n - 1) : f[i] = chain[i]
  BY <1>1, <1>2, <1>3, SubSeqProperties
<1>5. Front(chain) = f
  BY <1>3 DEF Front
<1>6. PICK c : c = Append(f, chain[n])
  OBVIOUS
<1>7. chain[n] \in X
  BY <1>1 DEF X
<1>8. c \in Seq(X) /\ Len(c) = n /\ c[n] = chain[n] /\ \A i \in 1..(n - 1) : c[i] = chain[i]
  <2>1. /\ c \in Seq(X) /\ Len(c) = Len(f) + 1 /\ c[Len(f) + 1] = chain[n]
        /\ \A i \in 1..Len(f) : c[i] = f[i]
    BY <1>4, <1>6, <1>7, AppendProperties
  <2>2. Len(f) + 1 = n
    BY <1>1, <1>4
  <2>3. QED
    BY <1>4, <2>1, <2>2
<1>9. c = chain
  <2>1. \A i \in 1..n : c[i] = chain[i]
    BY <1>1, <1>8
  <2>2. c = [i \in 1..n |-> c[i]] /\ chain = [i \in 1..n |-> chain[i]]
    BY <1>1, <1>8
  <2>3. QED
    BY <2>1, <2>2
<1>10. IsList(f)
  BY <1>4, ListOf
<1>11. QED
  BY <1>5, <1>6, <1>9, <1>10

\* What comes before the entry just appended.
LEMMA FrontOfAppend ==
  ASSUME NEW chain, IsList(chain), NEW e
  PROVE  /\ Front(Append(chain, e)) = chain /\ IsList(Append(chain, e))
         /\ Append(chain, e)[Len(Append(chain, e))] = e /\ Len(Append(chain, e)) # 0
<1>1. PICK X : X = {chain[i] : i \in DOMAIN chain} \union {e}
  OBVIOUS
<1>2. chain \in Seq(X) /\ e \in X /\ Len(chain) \in Nat
  <2>1. chain \in Seq({chain[i] : i \in DOMAIN chain}) /\ {chain[i] : i \in DOMAIN chain} \subseteq X
    BY <1>1 DEF IsList
  <2>2. QED
    BY <1>1, <2>1, SeqWidens, ListDomain
<1>3. PICK c, n : c = Append(chain, e) /\ n = Len(chain)
  OBVIOUS
<1>4. /\ c \in Seq(X) /\ Len(c) = n + 1 /\ c[n + 1] = e /\ n \in Nat
      /\ \A i \in 1..n : c[i] = chain[i]
  BY <1>2, <1>3, AppendProperties
<1>5. PICK f : f = SubSeq(c, 1, n)
  OBVIOUS
<1>6. f \in Seq(X) /\ Len(f) = n /\ \A i \in 1..n : f[i] = c[i]
  <2>1. \A i \in 1..n : c[i] \in X
    BY <1>4
  <2>2. QED
    BY <1>4, <1>5, <2>1, SubSeqProperties
<1>7. f = chain
  <2>1. \A i \in 1..n : f[i] = chain[i]
    BY <1>4, <1>6
  <2>2. f = [i \in 1..n |-> f[i]] /\ chain = [i \in 1..n |-> chain[i]]
    BY <1>2, <1>3, <1>6
  <2>3. QED
    BY <2>1, <2>2
<1>8. Front(c) = f
  <2>1. Len(c) - 1 = n
    BY <1>4
  <2>2. QED
    BY <1>5, <2>1 DEF Front
<1>9. IsList(c)
  BY <1>4, ListOf
<1>10. QED
  BY <1>3, <1>4, <1>7, <1>8, <1>9

\* A chain that conforms is not empty.
LEMMA ConformingIs ==
  ASSUME NEW chain, IsList(chain), IsAllDayConforming(chain)
  PROVE  Len(chain) # 0 /\ chain[Len(chain)] = Entry("official") /\ AllDayModelOf(chain) = "official"
<1>1. chain # <<>> /\ chain[Len(chain)] = Entry("official")
  BY DEF IsAllDayConforming, IsOfficialAllDayId
<1>2. chain \in Seq({chain[i] : i \in DOMAIN chain})
  BY DEF IsList
<1>3. Len(chain) # 0
  BY <1>1, <1>2
<1>4. AllDayModelOf(chain) = "official"
  BY DEF AllDayModelOf
<1>5. QED
  BY <1>1, <1>3, <1>4

\* The all-day chain's rows carry no blanks.
LEMMA LeadIs ==
  ASSUME NEW chain, IsList(chain)
  PROVE  /\ Plain(AllDayChainRowOf(chain))
         /\ ~IsAllDayConforming(chain) => AllDayModelOf(chain) = ""
         /\ IsAllDayConforming(chain) => AllDayChainRowOf(chain) = Selectors(Front(chain))
<1>1. CASE IsAllDayConforming(chain)
  <2>1. Len(chain) # 0 /\ AllDayModelOf(chain) = "official"
    BY <1>1, ConformingIs
  <2>2. AllDayChainRowOf(chain) = Selectors(Front(chain))
    BY <2>1 DEF AllDayChainRowOf
  <2>3. IsList(Front(chain))
    BY <2>1, FrontOf
  <2>4. QED
    BY <1>1, <2>2, <2>3, SelectorsAre
<1>2. CASE ~IsAllDayConforming(chain)
  <2>1. AllDayModelOf(chain) = ""
    BY <1>2 DEF AllDayModelOf
  <2>2. AllDayChainRowOf(chain) = Selectors(chain)
    BY <2>1 DEF AllDayChainRowOf
  <2>3. QED
    BY <1>2, <2>1, <2>2, SelectorsAre
<1>3. QED
  BY <1>1, <1>2

\* The rows of a section show that section of the document, and leave the other's.
LEMMA RowsShow ==
  ASSUME NEW d, NEW e, IsForm(e)
  PROVE  LET m == MainRowsOf(d, e)
             s == SubRowsOf(d, e)
         IN /\ m.model = AllDayModelOf(d.root) /\ m.lead = AllDayChainRowOf(d.root)
            /\ m.slots = TimeSlotsToRows(d.slots) /\ m.roles = e.roles /\ m.rules = e.rules
            /\ s.model = e.model /\ s.lead = e.lead /\ s.slots = e.slots
            /\ s.roles = RolesToRows(d.roles) /\ s.rules = RulesToRows(d.rules)
  BY DEF MainRowsOf, SubRowsOf, IsForm

\* Rows read from a list of rows with list chains are plain.
LEMMA SlotChainsRead ==
  ASSUME NEW slots, AreSlots(slots), \A i \in DOMAIN slots : IsList(slots[i].chain)
  PROVE  /\ DOMAIN TimeSlotsToRows(slots) = DOMAIN slots
         /\ \A i \in DOMAIN slots : /\ TimeSlotsToRows(slots)[i].chain = Selectors(slots[i].chain)
                                    /\ Plain(TimeSlotsToRows(slots)[i].chain)
<1>1. DOMAIN TimeSlotsToRows(slots) = DOMAIN slots
  BY DEF TimeSlotsToRows
<1>2. ASSUME NEW i \in DOMAIN slots PROVE TimeSlotsToRows(slots)[i].chain = Selectors(slots[i].chain)
  <2> DEFINE start == IF slots[i].start = Absent THEN Blank ELSE slots[i].start
             end == IF slots[i].end = Absent THEN Blank ELSE slots[i].end
             name == IF slots[i].name = "-" THEN "" ELSE slots[i].name
  <2>1. IsSlot(slots[i])
    BY DEF AreSlots
  <2>2. TimeSlotsToRows(slots)[i] = Renewed(slots[i], start, end, name, Selectors(slots[i].chain))
    BY <2>1 DEF TimeSlotsToRows, Renewed, IsSlot
  <2>3. start \in Int /\ end \in Int
    BY <2>1 DEF IsSlot, Blank
  <2> HIDE DEF start, end, name
  <2>4. PICK row : row = slots[i]
    OBVIOUS
  <2>5. PICK c : c = Selectors(slots[i].chain)
    OBVIOUS
  <2>6. Renewed(row, start, end, name, c).chain = c
    BY <2>1, <2>3, <2>4, RenewedAgain
  <2>7. QED
    BY <2>2, <2>4, <2>5, <2>6
<1>3. \A i \in DOMAIN slots : Plain(Selectors(slots[i].chain))
  BY SelectorsAre
<1>4. QED
  BY <1>1, <1>2, <1>3

\* What the rows of a slot write as its chain.
LEMMA SlotChainsWritten ==
  ASSUME NEW inForm, AreSlots(inForm)
  PROVE  \A i \in DOMAIN inForm : RowsToTimeSlots(inForm)[i].chain = RowsToChain(inForm[i].chain)
<1> TAKE i \in DOMAIN inForm
<1> DEFINE preset == inForm[i].kind = "preset"
           start == IF preset THEN Absent ELSE inForm[i].start
           end == IF preset THEN Absent ELSE inForm[i].end
           name == IF preset \/ inForm[i].name = "" THEN "-" ELSE inForm[i].name
<1>1. IsSlot(inForm[i])
  BY DEF AreSlots
<1>2. RowsToTimeSlots(inForm)[i] = Renewed(inForm[i], start, end, name, RowsToChain(inForm[i].chain))
  BY <1>1 DEF RowsToTimeSlots, Renewed, IsSlot
<1>3. start \in Int /\ end \in Int
  BY <1>1 DEF IsSlot, Absent
<1> HIDE DEF start, end, name
<1>4. PICK row : row = inForm[i]
  OBVIOUS
<1>5. PICK c : c = RowsToChain(inForm[i].chain)
  OBVIOUS
<1>6. Renewed(row, start, end, name, c).chain = c
  BY <1>1, <1>3, <1>4, RenewedAgain
<1>7. QED
  BY <1>2, <1>4, <1>5, <1>6

\* The rows of roles: their chains without blanks, what old schemas left not seen.
LEMMA RolesShow ==
  ASSUME NEW d, DOMAIN d = {"root", "slots", "roles", "rules"}, AreRoles(d.roles)
  PROVE  /\ ParseFallbacksConfig(d).roles = [i \in DOMAIN d.roles |-> ParsedRole(d.roles[i])]
         /\ RolesToRows(ParseFallbacksConfig(d).roles) = RolesToRows(d.roles)
<1>1. PICK roles : roles = [i \in DOMAIN d.roles |-> ParsedRole(d.roles[i])]
  OBVIOUS
<1>2. PICK a : a = [d EXCEPT !.roles = roles]
  OBVIOUS
<1>3. ParseFallbacksConfig(d) = a
  BY <1>1, <1>2 DEF ParseFallbacksConfig, ParsedRole
<1>4. a.roles = roles
  BY <1>2
<1>5. /\ DOMAIN roles = DOMAIN d.roles
      /\ \A i \in DOMAIN d.roles : /\ roles[i].id = d.roles[i].id /\ roles[i].chain = d.roles[i].chain
                                   /\ roles[i].fallback = d.roles[i].fallback
  BY <1>1 DEF AreRoles, ParsedRole
<1>6. RolesToRows(roles) = RolesToRows(d.roles)
  BY <1>5 DEF RolesToRows
<1>7. QED
  BY <1>1, <1>3, <1>4, <1>6

\* The chains of the rows of roles.
LEMMA RoleChainsRead ==
  ASSUME NEW roles, \A i \in DOMAIN roles : IsList(roles[i].chain)
  PROVE  /\ DOMAIN RolesToRows(roles) = DOMAIN roles
         /\ \A i \in DOMAIN roles : /\ RolesToRows(roles)[i].chain = Selectors(roles[i].chain)
                                    /\ Plain(RolesToRows(roles)[i].chain)
<1>1. /\ DOMAIN RolesToRows(roles) = DOMAIN roles
      /\ \A i \in DOMAIN roles : RolesToRows(roles)[i].chain = Selectors(roles[i].chain)
  BY DEF RolesToRows
<1>2. \A i \in DOMAIN roles : Plain(Selectors(roles[i].chain))
  BY SelectorsAre
<1>3. QED
  BY <1>1, <1>2

\* What the merge writes of a row.
LEMMA RoleWritten ==
  ASSUME NEW inForm, NEW original, NEW i \in DOMAIN inForm
  PROVE  LET role == MergeRoleExtras(inForm, original)[i] IN
         /\ role.chain = RowsToChain(inForm[i].chain) /\ ParsedRole(role) = role
<1>1. PICK prompt : MergeRoleExtras(inForm, original)[i]
          = [id |-> Trim(inForm[i].id), prompt |-> prompt, chain |-> RowsToChain(inForm[i].chain),
             fallback |-> inForm[i].fallback, labelled |-> FALSE]
  BY DEF MergeRoleExtras
<1>2. PICK role : role = MergeRoleExtras(inForm, original)[i]
  OBVIOUS
<1>3. DOMAIN role = {"id", "prompt", "chain", "fallback", "labelled"} /\ role.labelled = FALSE
      /\ role = [f \in DOMAIN role |-> role[f]] /\ role.chain = RowsToChain(inForm[i].chain)
  BY <1>1, <1>2
<1>4. ParsedRole(role) = role
  <2>1. PICK p : p = ParsedRole(role)
    OBVIOUS
  <2>2. DOMAIN p = DOMAIN role /\ (\A f \in DOMAIN role : p[f] = role[f]) /\ p = [f \in DOMAIN p |-> p[f]]
    BY <1>3, <2>1 DEF ParsedRole
  <2>3. p = role
    BY <1>3, <2>2
  <2>4. QED
    BY <2>1, <2>3
<1>5. QED
  BY <1>2, <1>3, <1>4

\* What a save of the main section leaves: the rows' main section, which the form found
\* fit, and the rows of it.
LEMMA MainSaved ==
  ASSUME FormInv, SaveForm("main")
  PROVE  /\ DOMAIN doc' = {"root", "slots", "roles", "rules"} /\ AreRoles(doc'.roles) /\ AreSlots(doc'.slots)
         /\ doc'.root = IF ed.model = "" THEN doc.root ELSE Append(RowsToChain(ed.lead), Entry(ed.model))
         /\ doc'.slots = RowsToTimeSlots(ed.slots)
         /\ doc'.roles = ParseFallbacksConfig(doc).roles /\ doc'.rules = doc.rules
         /\ IsAllDayConforming(doc'.root) /\ \A i \in DOMAIN doc'.slots : SlotFit(doc'.slots, i)
         /\ ed' = MainRowsOf(doc', ed) /\ saved' = saved \union {"main"} /\ edits' = edits
<1> PICK a : a = ParseFallbacksConfig(doc)
  OBVIOUS
<1> PICK draft : draft = AssembleConfig(ed, a)
  OBVIOUS
<1> PICK patch : patch = [a EXCEPT !.root = draft.root, !.slots = draft.slots]
  OBVIOUS
<1>1. /\ DOMAIN a = {"root", "slots", "roles", "rules"} /\ AreRoles(a.roles)
      /\ a.rules = doc.rules /\ a.root = doc.root
  BY ParseIs DEF FormInv, FormShape
<1>2. /\ DOMAIN patch = {"root", "slots", "roles", "rules"}
      /\ patch.root = draft.root /\ patch.slots = draft.slots
      /\ patch.roles = a.roles /\ patch.rules = doc.rules
  BY <1>1
<1>3. /\ draft.slots = RowsToTimeSlots(ed.slots)
      /\ draft.root = IF ed.model = "" THEN doc.root ELSE Append(RowsToChain(ed.lead), Entry(ed.model))
  BY <1>1 DEF AssembleConfig
<1>4. AreSlots(ed.slots) /\ AreSlots(patch.slots)
  <2>1. AreSlots(ed.slots)
    BY DEF FormInv, FormShape
  <2>2. AreSlots(RowsToTimeSlots(ed.slots))
    BY <2>1, SlotsConverted
  <2>3. QED
    BY <1>2, <1>3, <2>1, <2>2
<1>5. ValidateDraft("main", draft)
  BY DEF SaveForm
<1>6. IsAllDayConforming(patch.root) /\ \A i \in DOMAIN patch.slots : SlotFit(patch.slots, i)
  BY <1>2, <1>5 DEF ValidateDraft
<1>7. ValidateConfigPatch(patch)
  BY <1>2, <1>3, <1>4, <1>6, FormGate DEF ValidateConfigPatch
<1>8. /\ doc' = patch /\ saved' = saved \union {"main"}
      /\ ed' = MainRowsOf(patch, ed) /\ edits' = edits
  BY <1>7 DEF SaveForm
<1>9. QED
  BY <1>1, <1>2, <1>3, <1>4, <1>6, <1>8

\* What an admitted save of the subagents and rules leaves.
SubAdmitted ==
  /\ DOMAIN doc' = {"root", "slots", "roles", "rules"} /\ AreRoles(doc'.roles)
  /\ doc'.root = doc.root /\ doc'.slots = doc.slots
  /\ doc'.roles = MergeRoleExtras(ed.roles, ParseFallbacksConfig(doc).roles)
  /\ doc'.rules = RowsToRules(ed.rules)
  /\ \A i \in DOMAIN doc'.roles : RoleFit(doc'.roles, i)
  /\ ed' = SubRowsOf(doc', ed) /\ saved' = saved \union {"sub"} /\ edits' = edits

\* A save of the subagent section writes the assembled section, or nothing.
LEMMA SubSaved ==
  ASSUME FormInv, SaveForm("sub")
  PROVE  SubAdmitted \/ UNCHANGED <<doc, ed, saved, edits>>
<1> PICK a : a = ParseFallbacksConfig(doc)
  OBVIOUS
<1> PICK draft : draft = AssembleConfig(ed, a)
  OBVIOUS
<1> PICK patch : patch = [a EXCEPT !.roles = draft.roles, !.rules = draft.rules]
  OBVIOUS
<1>1. DOMAIN a = {"root", "slots", "roles", "rules"} /\ a.root = doc.root /\ a.slots = doc.slots
  BY ParseIs DEF FormInv, FormShape
<1>2. /\ DOMAIN patch = {"root", "slots", "roles", "rules"}
      /\ patch.root = doc.root /\ patch.slots = doc.slots
      /\ patch.roles = draft.roles /\ patch.rules = draft.rules
  BY <1>1
<1>3. /\ draft.roles = MergeRoleExtras(ed.roles, a.roles) /\ draft.rules = RowsToRules(ed.rules)
      /\ AreRoles(draft.roles)
  <2>1. AreRoles(draft.roles)
    BY DraftIs DEF FormInv, FormShape
  <2>2. QED
    BY <2>1 DEF AssembleConfig
<1>4. \A i \in DOMAIN patch.roles : RoleFit(patch.roles, i)
  BY <1>2 DEF SaveForm, ValidateDraft
<1>5. CASE ValidateConfigPatch(patch)
  <2>1. /\ doc' = patch /\ saved' = saved \union {"sub"}
        /\ ed' = SubRowsOf(patch, ed) /\ edits' = edits
    BY <1>5 DEF SaveForm
  <2>2. QED
    BY <1>1, <1>2, <1>3, <1>4, <2>1 DEF SubAdmitted
<1>6. CASE ~ValidateConfigPatch(patch)
  BY <1>6 DEF SaveForm
<1>7. QED
  BY <1>5, <1>6

-----------------------------------------------------------------------------
\* The rows of a form that has just been opened are those of its document.
LEMMA RowsStart == FormInit => RowsInv
<1> SUFFICES ASSUME FormInit PROVE RowsInv
  OBVIOUS
<1>1. /\ doc \in [root : Seq(ChainEntry), slots : Seq(SlotRow), roles : Seq(RoleRow), rules : Seq(RuleRow)]
      /\ saved = {} /\ edits = 0 /\ ed = SubRowsOf(doc, MainRowsOf(doc, NoRows))
  BY FormAssumption DEF FormInit
<1>2. /\ doc.root \in Seq(ChainEntry) /\ doc.slots \in Seq(SlotRow)
      /\ doc.roles \in Seq(RoleRow) /\ doc.rules \in Seq(RuleRow)
  BY <1>1
<1>3. IsList(doc.root) /\ IsList(doc.rules)
  BY <1>2, ListOf
<1>4. AreSlots(doc.slots) /\ \A i \in DOMAIN doc.slots : IsList(doc.slots[i].chain)
  <2>1. \A row \in SlotRow : IsSlot(row) /\ row.chain \in Seq(ChainEntry)
    BY DEF SlotRow, IsSlot
  <2>2. \A row \in SlotRow : IsList(row.chain)
    BY <2>1, ListOf
  <2>3. IsList(doc.slots) /\ \A i \in DOMAIN doc.slots : doc.slots[i] \in SlotRow
    BY <1>2, ListOf
  <2>4. QED
    BY <2>1, <2>2, <2>3 DEF AreSlots
<1>5. \A i \in DOMAIN doc.roles : IsList(doc.roles[i].chain)
  <2>1. \A role \in RoleRow : role.chain \in Seq(ChainEntry)
    BY DEF RoleRow
  <2>2. \A role \in RoleRow : IsList(role.chain)
    BY <2>1, ListOf
  <2>3. \A i \in DOMAIN doc.roles : doc.roles[i] \in RoleRow
    BY <1>2, ListOf
  <2>4. QED
    BY <2>2, <2>3
<1>6. /\ ed.model = AllDayModelOf(doc.root) /\ ed.lead = AllDayChainRowOf(doc.root)
      /\ ed.slots = TimeSlotsToRows(doc.slots) /\ ed.roles = RolesToRows(doc.roles)
      /\ ed.rules = RulesToRows(doc.rules)
  <2>1. IsForm(NoRows)
    BY DEF NoRows, IsForm
  <2>2. PICK e : e = MainRowsOf(doc, NoRows)
    OBVIOUS
  <2>3. /\ IsForm(e) /\ e.model = AllDayModelOf(doc.root) /\ e.lead = AllDayChainRowOf(doc.root)
        /\ e.slots = TimeSlotsToRows(doc.slots)
    BY <2>1, <2>2, RowsOf, RowsShow
  <2>4. ed = SubRowsOf(doc, e)
    BY <1>1, <2>2
  <2>5. /\ SubRowsOf(doc, e).model = e.model /\ SubRowsOf(doc, e).lead = e.lead
        /\ SubRowsOf(doc, e).slots = e.slots /\ SubRowsOf(doc, e).roles = RolesToRows(doc.roles)
        /\ SubRowsOf(doc, e).rules = RulesToRows(doc.rules)
    BY <2>3, RowsShow
  <2>6. QED
    BY <2>3, <2>4, <2>5, Zenon
<1>7. Plain(ed.lead) /\ IsList(ed.rules)
  <2>1. IsList(RulesToRows(doc.rules))
    BY <1>3, ListDomain, FunctionIsList DEF RulesToRows
  <2>2. QED
    BY <1>3, <1>6, <2>1, LeadIs
<1>8. \A i \in DOMAIN ed.slots : Plain(ed.slots[i].chain)
  BY <1>4, <1>6, SlotChainsRead
<1>9. \A i \in DOMAIN ed.roles : Plain(ed.roles[i].chain)
  BY <1>5, <1>6, RoleChainsRead
<1>10. QED
  BY <1>1, <1>3, <1>4, <1>5, <1>6, <1>7, <1>8, <1>9 DEF RowsInv, RowsShape, SavedRolesParse, Untouched

\* A save of the main section reads back clean and, from an untouched form, keeps every
\* text; the roles it carries along are those of the document.
LEMMA MainSaveReads ==
  ASSUME FormInv, RowsInv, SaveForm("main")
  PROVE  RowsInv' /\ ReadsBackClean /\ UntouchedSaveKeepsTexts
<1>1. /\ DOMAIN doc' = {"root", "slots", "roles", "rules"} /\ AreRoles(doc'.roles) /\ AreSlots(doc'.slots)
      /\ doc'.root = IF ed.model = "" THEN doc.root ELSE Append(RowsToChain(ed.lead), Entry(ed.model))
      /\ doc'.slots = RowsToTimeSlots(ed.slots)
      /\ doc'.roles = ParseFallbacksConfig(doc).roles /\ doc'.rules = doc.rules
      /\ IsAllDayConforming(doc'.root) /\ \A i \in DOMAIN doc'.slots : SlotFit(doc'.slots, i)
      /\ ed' = MainRowsOf(doc', ed) /\ saved' = saved \union {"main"} /\ edits' = edits
  BY MainSaved
<1>2. /\ IsForm(ed) /\ AreSlots(ed.slots) /\ AreSlots(doc.slots) /\ AreRoles(doc.roles)
      /\ DOMAIN doc = {"root", "slots", "roles", "rules"}
  BY DEF FormInv, FormShape
<1>3. /\ IsList(doc.root) /\ Plain(ed.lead) /\ IsList(ed.rules)
      /\ \A i \in DOMAIN doc.slots : IsList(doc.slots[i].chain)
      /\ \A i \in DOMAIN doc.roles : IsList(doc.roles[i].chain)
      /\ \A i \in DOMAIN ed.slots : Plain(ed.slots[i].chain)
      /\ \A i \in DOMAIN ed.roles : Plain(ed.roles[i].chain)
  BY DEF RowsInv, RowsShape
<1>4. /\ ed'.model = AllDayModelOf(doc'.root) /\ ed'.lead = AllDayChainRowOf(doc'.root)
      /\ ed'.slots = TimeSlotsToRows(doc'.slots) /\ ed'.roles = ed.roles /\ ed'.rules = ed.rules
  <2>1. PICK d, e : d = doc' /\ e = MainRowsOf(d, ed)
    OBVIOUS
  <2>2. /\ e.model = AllDayModelOf(d.root) /\ e.lead = AllDayChainRowOf(d.root)
        /\ e.slots = TimeSlotsToRows(d.slots) /\ e.roles = ed.roles /\ e.rules = ed.rules
    BY <1>2, <2>1, RowsShow
  <2>3. QED
    BY <1>1, <2>1, <2>2
<1>5. /\ DOMAIN doc'.roles = DOMAIN doc.roles
      /\ doc'.roles = [i \in DOMAIN doc.roles |-> ParsedRole(doc.roles[i])]
      /\ RolesToRows(doc'.roles) = RolesToRows(doc.roles)
      /\ \A i \in DOMAIN doc.roles : doc'.roles[i].chain = doc.roles[i].chain
  <2>1. /\ doc'.roles = [i \in DOMAIN doc.roles |-> ParsedRole(doc.roles[i])]
        /\ RolesToRows(doc'.roles) = RolesToRows(doc.roles)
    BY <1>1, <1>2, RolesShow
  <2>2. \A i \in DOMAIN doc.roles : ParseFallbacksConfig(doc).roles[i].chain = doc.roles[i].chain
    BY <1>2, ParseIs
  <2>3. QED
    BY <1>1, <2>1, <2>2
<1>6. DOMAIN doc'.slots = DOMAIN ed.slots /\ \A i \in DOMAIN ed.slots : doc'.slots[i].chain = RowsToChain(ed.slots[i].chain)
  BY <1>1, <1>2, SlotsConverted, SlotChainsWritten
<1>7. \A i \in DOMAIN doc'.slots : IsList(doc'.slots[i].chain)
  <2>1. ASSUME NEW i \in DOMAIN ed.slots PROVE IsList(RowsToChain(ed.slots[i].chain))
    <3>1. Plain(ed.slots[i].chain)
      BY <1>3
    <3>2. OfTheForm(RowsToChain(ed.slots[i].chain))
      BY <3>1, ChainWritten
    <3>3. QED
      BY <3>2 DEF OfTheForm, Plain
  <2>2. QED
    BY <1>6, <2>1
<1>8. OfTheForm(RowsToChain(ed.lead)) /\ IsList(RowsToChain(ed.lead))
  BY <1>3, ChainWritten DEF OfTheForm, Plain
<1>9. IsList(doc'.root)
  <2>1. PICK c, e : c = RowsToChain(ed.lead) /\ e = Entry(ed.model)
    OBVIOUS
  <2>2. IsList(Append(c, e))
    BY <1>8, <2>1, FrontOfAppend
  <2>3. QED
    BY <1>1, <1>3, <2>1, <2>2
<1>10. RowsShape'
  <2>1. Plain(ed'.lead)
    BY <1>4, <1>9, LeadIs
  <2>2. \A i \in DOMAIN ed'.slots : Plain(ed'.slots[i].chain)
    BY <1>1, <1>4, <1>7, SlotChainsRead
  <2>3. \A i \in DOMAIN doc'.roles : IsList(doc'.roles[i].chain)
    BY <1>3, <1>5
  <2>4. QED
    BY <1>3, <1>4, <1>7, <1>9, <2>1, <2>2, <2>3 DEF RowsShape
<1>11. "sub" \in saved => doc'.roles = doc.roles
  <2> SUFFICES ASSUME "sub" \in saved PROVE doc'.roles = doc.roles
    OBVIOUS
  <2>1. \A i \in DOMAIN doc.roles : ParsedRole(doc.roles[i]) = doc.roles[i]
    BY DEF RowsInv, SavedRolesParse
  <2>2. doc.roles = [i \in DOMAIN doc.roles |-> doc.roles[i]]
    BY <1>2, ListIsFunction DEF AreRoles
  <2>3. QED
    BY <1>5, <2>1, <2>2
<1>12. SavedRolesParse'
  <2>1. "sub" \in saved' => "sub" \in saved
    BY <1>1
  <2>2. QED
    BY <1>11, <2>1 DEF RowsInv, SavedRolesParse
<1>13. Untouched'
  BY <1>1, <1>4, <1>5 DEF RowsInv, Untouched
<1>14. ReadsBackClean
  <2>1. ~("sub" \in saved' /\ SectionOf("sub", doc') # SectionOf("sub", doc))
    BY <1>1, <1>11 DEF SectionOf
  <2>2. ASSUME ed.model # "" PROVE ~DirtyIn("main", ed', doc')
    <3> PICK a : a = ParseFallbacksConfig(doc')
      OBVIOUS
    <3> PICK draft : draft = AssembleConfig(ed', a)
      OBVIOUS
    <3>1. a.root = doc'.root /\ a.slots = doc'.slots
      BY <1>1, ParseIs
    <3>2. /\ draft.slots = RowsToTimeSlots(ed'.slots)
          /\ draft.root = IF ed'.model = "" THEN doc'.root
                          ELSE Append(RowsToChain(ed'.lead), Entry(ed'.model))
      BY <3>1 DEF AssembleConfig
    <3>3. draft.slots = doc'.slots
      <4>1. PICK slots : slots = doc'.slots
        OBVIOUS
      <4>2. slots = RowsToTimeSlots(ed.slots) /\ \A i \in DOMAIN slots : SlotFit(slots, i)
        BY <1>1, <4>1
      <4>3. RowsToTimeSlots(TimeSlotsToRows(slots)) = slots
        BY <1>2, <1>3, <4>2, SlotsReadBack
      <4>4. QED
        BY <1>4, <3>2, <4>1, <4>3
    <3>4. draft.root = doc'.root
      <4>1. PICK c, root : c = RowsToChain(ed.lead) /\ root = doc'.root
        OBVIOUS
      <4>2. root = Append(c, Entry(ed.model)) /\ IsList(c) /\ OfTheForm(c) /\ IsList(root) /\ IsAllDayConforming(root)
        BY <1>1, <1>8, <1>9, <2>2, <4>1
      <4>3. Front(root) = c /\ root[Len(root)] = Entry(ed.model)
        BY <4>2, FrontOfAppend
      <4>4. root[Len(root)] = Entry("official") /\ AllDayModelOf(root) = "official"
        BY <4>2, ConformingIs
      <4>5. AllDayChainRowOf(root) = c
        <5>1. AllDayChainRowOf(root) = Selectors(c)
          BY <4>2, <4>3, LeadIs
        <5>2. Selectors(c) = c
          BY <4>2, SelectorsAre DEF OfTheForm
        <5>3. QED
          BY <5>1, <5>2
      <4>6. RowsToChain(c) = c
        BY <4>2, ChainWritten DEF OfTheForm
      <4>7. ed'.model = "official" /\ ed'.lead = c
        BY <1>4, <4>1, <4>4, <4>5
      <4>8. draft.root = Append(c, Entry("official"))
        BY <3>2, <4>6, <4>7
      <4>9. QED
        BY <4>1, <4>2, <4>3, <4>4, <4>8
    <3>5. QED
      BY <3>1, <3>3, <3>4 DEF DirtyIn, SectionOf
  <2>3. QED
    BY <2>1, <2>2 DEF ReadsBackClean
<1>15. UntouchedSaveKeepsTexts
  <2> SUFFICES ASSUME edits = 0
               PROVE  /\ Texts(doc'.root) = Texts(doc.root)
                      /\ \A i \in DOMAIN doc.slots : Texts(doc'.slots[i].chain) = Texts(doc.slots[i].chain)
                      /\ \A i \in DOMAIN doc.roles : Texts(doc'.roles[i].chain) = Texts(doc.roles[i].chain)
    BY <1>1 DEF UntouchedSaveKeepsTexts
  <2>1. /\ ed.model = AllDayModelOf(doc.root) /\ ed.lead = AllDayChainRowOf(doc.root)
        /\ ed.slots = TimeSlotsToRows(doc.slots)
    BY DEF RowsInv, Untouched
  <2>2. IsAllDayConforming(doc.root)
    <3> SUFFICES ASSUME ~IsAllDayConforming(doc.root) PROVE FALSE
      OBVIOUS
    <3>1. ed.model = ""
      BY <1>3, <2>1, LeadIs
    <3>2. QED
      BY <1>1, <3>1
  <2>3. Texts(doc'.root) = Texts(doc.root)
    <3>1. PICK root, f : root = doc.root /\ f = Front(doc.root)
      OBVIOUS
    <3>2. /\ IsList(f) /\ root = Append(f, Entry("official")) /\ ed.model = "official"
          /\ ed.lead = Selectors(f)
      <4>1. Len(root) # 0 /\ root[Len(root)] = Entry("official") /\ AllDayModelOf(root) = "official"
        BY <1>3, <2>2, <3>1, ConformingIs
      <4>2. IsList(f) /\ root = Append(f, root[Len(root)])
        BY <1>3, <3>1, <4>1, FrontOf
      <4>3. ed.lead = Selectors(f)
        BY <1>3, <2>1, <2>2, <3>1, LeadIs
      <4>4. QED
        BY <2>1, <3>1, <4>1, <4>2, <4>3
    <3>3. PICK c : c = RowsToChain(Selectors(f))
      OBVIOUS
    <3>4. doc'.root = Append(c, Entry("official")) /\ IsList(c)
      BY <1>1, <1>8, <3>2, <3>3
    <3>5. Says("official")
      BY DEF Says
    <3>6. Texts(c) = Texts(f)
      BY <3>2, <3>3, TextsKept
    <3>7. Texts(Append(c, Entry("official"))) = Append(Texts(c), "official")
      BY <3>4, <3>5, TextsOneMore
    <3>8. Texts(Append(f, Entry("official"))) = Append(Texts(f), "official")
      BY <3>2, <3>5, TextsOneMore
    <3>9. QED
      BY <3>1, <3>2, <3>4, <3>6, <3>7, <3>8
  <2>4. ASSUME NEW i \in DOMAIN doc.slots PROVE Texts(doc'.slots[i].chain) = Texts(doc.slots[i].chain)
    <3>1. i \in DOMAIN ed.slots /\ ed.slots[i].chain = Selectors(doc.slots[i].chain)
      BY <1>2, <1>3, <2>1, SlotChainsRead
    <3>2. doc'.slots[i].chain = RowsToChain(Selectors(doc.slots[i].chain))
      BY <1>6, <3>1
    <3>3. QED
      BY <1>3, <3>2, TextsKept
  <2>5. QED
    BY <1>5, <2>3, <2>4
<1>16. QED
  BY <1>10, <1>12, <1>13, <1>14, <1>15 DEF RowsInv

\* A save of the subagents and rules reads back clean and, from an untouched form, keeps
\* every text.
LEMMA SubSaveReads ==
  ASSUME FormInv, RowsInv, SaveForm("sub")
  PROVE  RowsInv' /\ ReadsBackClean /\ UntouchedSaveKeepsTexts
<1>1. CASE UNCHANGED <<doc, ed, saved, edits>>
  BY <1>1 DEF RowsInv, RowsShape, SavedRolesParse, Untouched, ReadsBackClean, UntouchedSaveKeepsTexts
<1>2. ASSUME SubAdmitted PROVE RowsInv' /\ ReadsBackClean /\ UntouchedSaveKeepsTexts
  <2>1. /\ DOMAIN doc' = {"root", "slots", "roles", "rules"} /\ AreRoles(doc'.roles)
        /\ doc'.root = doc.root /\ doc'.slots = doc.slots
        /\ doc'.roles = MergeRoleExtras(ed.roles, ParseFallbacksConfig(doc).roles)
        /\ doc'.rules = RowsToRules(ed.rules)
        /\ \A i \in DOMAIN doc'.roles : RoleFit(doc'.roles, i)
        /\ ed' = SubRowsOf(doc', ed) /\ saved' = saved \union {"sub"} /\ edits' = edits
    BY <1>2 DEF SubAdmitted
  <2>2. /\ IsForm(ed) /\ IsList(ed.roles) /\ AreRoles(doc.roles)
        /\ DOMAIN doc = {"root", "slots", "roles", "rules"}
    BY DEF FormInv, FormShape
  <2>3. /\ IsList(doc.root) /\ Plain(ed.lead) /\ IsList(ed.rules)
        /\ \A i \in DOMAIN doc.slots : IsList(doc.slots[i].chain)
        /\ \A i \in DOMAIN doc.roles : IsList(doc.roles[i].chain)
        /\ \A i \in DOMAIN ed.slots : Plain(ed.slots[i].chain)
        /\ \A i \in DOMAIN ed.roles : Plain(ed.roles[i].chain)
    BY DEF RowsInv, RowsShape
  <2>4. /\ ed'.model = ed.model /\ ed'.lead = ed.lead /\ ed'.slots = ed.slots
        /\ ed'.roles = RolesToRows(doc'.roles) /\ ed'.rules = RulesToRows(doc'.rules)
    <3>1. PICK d, e : d = doc' /\ e = SubRowsOf(d, ed)
      OBVIOUS
    <3>2. /\ e.model = ed.model /\ e.lead = ed.lead /\ e.slots = ed.slots
          /\ e.roles = RolesToRows(d.roles) /\ e.rules = RulesToRows(d.rules)
      BY <2>2, <3>1, RowsShow
    <3>3. QED
      BY <2>1, <3>1, <3>2
  <2>5. /\ DOMAIN doc'.roles = DOMAIN ed.roles
        /\ \A i \in DOMAIN ed.roles : /\ doc'.roles[i].chain = RowsToChain(ed.roles[i].chain)
                                      /\ ParsedRole(doc'.roles[i]) = doc'.roles[i]
    <3>1. PICK original : original = ParseFallbacksConfig(doc).roles
      OBVIOUS
    <3>2. doc'.roles = MergeRoleExtras(ed.roles, original)
      BY <2>1, <3>1
    <3>3. DOMAIN MergeRoleExtras(ed.roles, original) = DOMAIN ed.roles
      BY DEF MergeRoleExtras
    <3>4. QED
      BY <3>2, <3>3, RoleWritten
  <2>6. \A i \in DOMAIN doc'.roles : IsList(doc'.roles[i].chain)
    <3>1. ASSUME NEW i \in DOMAIN ed.roles PROVE IsList(RowsToChain(ed.roles[i].chain))
      <4>1. Plain(ed.roles[i].chain)
        BY <2>3
      <4>2. OfTheForm(RowsToChain(ed.roles[i].chain))
        BY <4>1, ChainWritten
      <4>3. QED
        BY <4>2 DEF OfTheForm, Plain
    <3>2. QED
      BY <2>5, <3>1
  <2>7. /\ RowsToRules(RulesToRows(doc'.rules)) = doc'.rules
        /\ \A i \in DOMAIN RulesToRows(doc'.rules) : RulesToRows(doc'.rules)[i].role.name # ""
        /\ IsList(doc'.rules)
    <3>1. PICK rules : rules = doc'.rules
      OBVIOUS
    <3>2. rules = RowsToRules(ed.rules)
      BY <2>1, <3>1
    <3>3. /\ RowsToRules(RulesToRows(rules)) = rules
          /\ \A i \in DOMAIN RulesToRows(rules) : RulesToRows(rules)[i].role.name # ""
          /\ IsList(rules)
      BY <2>3, <3>2, RulesReadBack
    <3>4. QED
      BY <3>1, <3>3
  <2>8. RowsShape'
    <3>1. IsList(RulesToRows(doc'.rules))
      BY <2>7, ListDomain, FunctionIsList DEF RulesToRows
    <3>2. \A i \in DOMAIN ed'.roles : Plain(ed'.roles[i].chain)
      BY <2>4, <2>6, RoleChainsRead
    <3>3. QED
      BY <2>1, <2>3, <2>4, <2>6, <3>1, <3>2 DEF RowsShape
  <2>9. SavedRolesParse'
    BY <2>5 DEF SavedRolesParse
  <2>10. Untouched'
    BY <2>1, <2>4 DEF RowsInv, Untouched
  <2>11. ReadsBackClean
    <3>1. SectionOf("main", doc') = SectionOf("main", doc)
      BY <2>1 DEF SectionOf
    <3> PICK a : a = ParseFallbacksConfig(doc')
      OBVIOUS
    <3> PICK draft : draft = AssembleConfig(ed', a)
      OBVIOUS
    <3>2. a.rules = doc'.rules /\ a.roles = doc'.roles
      <4>1. a.rules = doc'.rules
        BY <2>1, ParseIs
      <4>2. PICK d : d = doc'
        OBVIOUS
      <4>3. a.roles = [i \in DOMAIN d.roles |-> ParsedRole(d.roles[i])]
        BY <2>1, <4>2, RolesShow
      <4>4. d.roles = [i \in DOMAIN d.roles |-> d.roles[i]]
        BY <2>1, <4>2, ListIsFunction DEF AreRoles
      <4>5. \A i \in DOMAIN d.roles : ParsedRole(d.roles[i]) = d.roles[i]
        BY <2>5, <4>2
      <4>6. a.roles = d.roles
        BY <4>3, <4>4, <4>5
      <4>7. QED
        BY <4>1, <4>2, <4>6
    <3>3. draft.roles = MergeRoleExtras(ed'.roles, a.roles) /\ draft.rules = RowsToRules(ed'.rules)
      BY DEF AssembleConfig
    <3>4. draft.rules = doc'.rules
      BY <2>4, <2>7, <3>3
    <3>5. draft.roles = doc'.roles
      <4>1. PICK roles, original : roles = doc'.roles /\ original = ParseFallbacksConfig(doc).roles
        OBVIOUS
      <4>2. roles = MergeRoleExtras(ed.roles, original) /\ \A i \in DOMAIN roles : RoleFit(roles, i)
        BY <2>1, <4>1
      <4>3. MergeRoleExtras(RolesToRows(roles), roles) = roles
        BY <2>2, <2>3, <4>2, RolesReadBack
      <4>4. QED
        BY <2>4, <3>2, <3>3, <4>1, <4>3
    <3>6. ~HasEmptyRuleRows(ed')
      BY <2>4, <2>7 DEF HasEmptyRuleRows
    <3>7. ~DirtyIn("sub", ed', doc')
      BY <3>2, <3>4, <3>5, <3>6 DEF DirtyIn, SectionOf
    <3>8. QED
      BY <3>1, <3>7 DEF ReadsBackClean
  <2>12. UntouchedSaveKeepsTexts
    <3> SUFFICES ASSUME edits = 0, NEW i \in DOMAIN doc.roles
                 PROVE  Texts(doc'.roles[i].chain) = Texts(doc.roles[i].chain)
      BY <2>1 DEF UntouchedSaveKeepsTexts
    <3>1. ed.roles = RolesToRows(doc.roles)
      BY DEF RowsInv, Untouched
    <3>2. i \in DOMAIN ed.roles /\ ed.roles[i].chain = Selectors(doc.roles[i].chain)
      BY <2>3, <3>1, RoleChainsRead
    <3>3. doc'.roles[i].chain = RowsToChain(Selectors(doc.roles[i].chain))
      BY <2>5, <3>2
    <3>4. QED
      BY <2>3, <3>3, TextsKept
  <2>13. QED
    BY <2>8, <2>9, <2>10, <2>11, <2>12 DEF RowsInv
<1>3. QED
  BY <1>1, <1>2, SubSaved

\* Another client's write leaves the rows alone, and is not a save of the form.
LEMMA OtherReads ==
  ASSUME FormInv, RowsInv, SetByOther
  PROVE  RowsInv' /\ ReadsBackClean /\ UntouchedSaveKeepsTexts
<1>1. PICK main \in OtherMain :
        /\ doc' = [doc EXCEPT !.root = main.root, !.slots = main.slots]
        /\ edits' = edits + 1 /\ saved' = saved \ {"main"} /\ ed' = ed
  BY DEF SetByOther
<1>2. DOMAIN doc = {"root", "slots", "roles", "rules"}
  BY DEF FormInv, FormShape
<1>3. /\ doc'.root = main.root /\ doc'.slots = main.slots
      /\ doc'.roles = doc.roles /\ doc'.rules = doc.rules
  BY <1>1, <1>2
<1>4. main.root \in Seq(ChainEntry) /\ main.slots \in Seq(SlotRow)
  BY FormAssumption
<1>5. IsList(main.root) /\ \A i \in DOMAIN main.slots : IsList(main.slots[i].chain)
  <2>1. \A row \in SlotRow : row.chain \in Seq(ChainEntry)
    BY DEF SlotRow
  <2>2. \A row \in SlotRow : IsList(row.chain)
    BY <2>1, ListOf
  <2>3. \A i \in DOMAIN main.slots : main.slots[i] \in SlotRow
    BY <1>4, ListOf
  <2>4. IsList(main.root)
    BY <1>4, ListOf
  <2>5. QED
    BY <2>2, <2>3, <2>4
<1>6. RowsShape'
  BY <1>1, <1>3, <1>5 DEF RowsInv, RowsShape
<1>7. SavedRolesParse'
  <2>1. "sub" \in saved' => "sub" \in saved
    BY <1>1
  <2>2. QED
    BY <1>3, <2>1 DEF RowsInv, SavedRolesParse
<1>8. edits \in Nat /\ edits' \in Nat /\ edits' # 0
  BY <1>1 DEF RowsInv, Untouched
<1>9. Untouched' /\ UntouchedSaveKeepsTexts
  BY <1>8 DEF Untouched, UntouchedSaveKeepsTexts
<1>10. ReadsBackClean
  <2>1. SectionOf("sub", doc') = SectionOf("sub", doc) /\ "main" \notin saved'
    BY <1>1, <1>3 DEF SectionOf
  <2>2. QED
    BY <2>1 DEF ReadsBackClean
<1>11. QED
  BY <1>6, <1>7, <1>9, <1>10 DEF RowsInv

\* A chain of what an editor offers carries no blanks.
LEMMA OfferedIsPlain ==
  ASSUME NEW chain \in Seq(Offered)
  PROVE  Plain(chain)
<1>1. \A e \in Offered : e = Entry(e.text)
  BY DEF Offered, ChainEntry, Entry
<1>2. IsList(chain) /\ \A i \in DOMAIN chain : chain[i] \in Offered
  BY ListOf
<1>3. QED
  BY <1>1, <1>2 DEF Plain

\* An edit of a list of rows shows rows it showed before, and the one edited.
LEMMA EditedRows ==
  ASSUME NEW list, IsList(list), NEW row
  PROVE  /\ \A k \in DOMAIN Append(list, row) :
              Append(list, row)[k] = row \/ \E j \in DOMAIN list : Append(list, row)[k] = list[j]
         /\ \A i \in DOMAIN list : \A k \in DOMAIN [list EXCEPT ![i] = row] :
              \/ [list EXCEPT ![i] = row][k] = row
              \/ \E j \in DOMAIN list : [list EXCEPT ![i] = row][k] = list[j]
         /\ \A i, l \in DOMAIN list : \A k \in DOMAIN InsertAt(RemoveAt(list, i), l, row) :
              \/ InsertAt(RemoveAt(list, i), l, row)[k] = row
              \/ \E j \in DOMAIN list : InsertAt(RemoveAt(list, i), l, row)[k] = list[j]
<1>1. PICK S : /\ S = {list[i] : i \in DOMAIN list} \union {row}
               /\ Append(list, row) \in Seq(S)
               /\ \A i \in DOMAIN list :
                    [list EXCEPT ![i] = row] \in Seq(S) /\ RemoveAt(list, i) \in Seq(S)
               /\ \A i, j \in DOMAIN list : InsertAt(RemoveAt(list, i), j, row) \in Seq(S)
  BY ListEdited
<1>2. \A s \in S : s = row \/ \E j \in DOMAIN list : s = list[j]
  BY <1>1
<1>3. ASSUME NEW s \in Seq(S)
      PROVE  \A k \in DOMAIN s : s[k] = row \/ \E j \in DOMAIN list : s[k] = list[j]
  BY <1>2
<1>4. QED
  BY <1>1, <1>3

\* An edit shows an editor's rows, and marks the form as edited.
LEMMA EditReads ==
  ASSUME FormInv, RowsInv, FormEdit
  PROVE  RowsInv' /\ ReadsBackClean /\ UntouchedSaveKeepsTexts
<1>1. /\ IsForm(ed) /\ AreSlots(ed.slots) /\ IsList(ed.roles)
      /\ Plain(ed.lead) /\ IsList(ed.rules)
      /\ \A i \in DOMAIN ed.slots : Plain(ed.slots[i].chain)
      /\ \A i \in DOMAIN ed.roles : Plain(ed.roles[i].chain)
  BY DEF FormInv, FormShape, RowsInv, RowsShape
<1>2. /\ \A chain \in LeadChoice : Plain(chain)
      /\ \A row \in SlotChoice : Plain(row.chain)
      /\ \A row \in RoleChoice : Plain(row.chain)
      /\ \A inForm \in RuleChoice : IsList(inForm)
  <2>1. /\ \A chain \in LeadChoice : chain \in Seq(Offered)
        /\ \A row \in SlotChoice : row.chain \in Seq(Offered)
        /\ \A row \in RoleChoice : row.chain \in Seq(Offered)
        /\ \A inForm \in RuleChoice :
             inForm \in Seq([provider : STRING, role : [name : STRING, padded : BOOLEAN]])
    BY FormAssumption
  <2>2. QED
    BY <2>1, OfferedIsPlain, ListOf
<1>3. ASSUME NEW e, Edited(e), Plain(e.lead), IsList(e.rules),
             \A i \in DOMAIN e.slots : Plain(e.slots[i].chain),
             \A i \in DOMAIN e.roles : Plain(e.roles[i].chain)
      PROVE  RowsInv' /\ ReadsBackClean /\ UntouchedSaveKeepsTexts
  <2>1. ed' = e /\ edits' = edits + 1 /\ UNCHANGED <<doc, saved>>
    BY <1>3 DEF Edited
  <2>2. edits' \in Nat /\ edits' # 0
    BY <2>1 DEF RowsInv, Untouched
  <2>3. RowsShape'
    BY <1>3, <2>1 DEF RowsInv, RowsShape
  <2>4. SavedRolesParse' /\ Untouched'
    BY <2>1, <2>2 DEF RowsInv, SavedRolesParse, Untouched
  <2>5. QED
    BY <2>1, <2>2, <2>3, <2>4 DEF RowsInv, ReadsBackClean, UntouchedSaveKeepsTexts
<1>4. ASSUME NEW slots, \A i \in DOMAIN slots : Plain(slots[i].chain), Edited([ed EXCEPT !.slots = slots])
      PROVE  RowsInv' /\ ReadsBackClean /\ UntouchedSaveKeepsTexts
  <2>1. PICK e : e = [ed EXCEPT !.slots = slots]
    OBVIOUS
  <2>2. e.slots = slots /\ e.roles = ed.roles /\ e.lead = ed.lead /\ e.rules = ed.rules
    BY <1>1, <2>1 DEF IsForm
  <2>3. QED
    BY <1>1, <1>3, <1>4, <2>1, <2>2
<1>5. ASSUME NEW roles, \A i \in DOMAIN roles : Plain(roles[i].chain), Edited([ed EXCEPT !.roles = roles])
      PROVE  RowsInv' /\ ReadsBackClean /\ UntouchedSaveKeepsTexts
  <2>1. PICK e : e = [ed EXCEPT !.roles = roles]
    OBVIOUS
  <2>2. e.roles = roles /\ e.slots = ed.slots /\ e.lead = ed.lead /\ e.rules = ed.rules
    BY <1>1, <2>1 DEF IsForm
  <2>3. QED
    BY <1>1, <1>3, <1>5, <2>1, <2>2
<1>6. CASE PickModel
  <2>1. PICK e : e = [ed EXCEPT !.model = "official"]
    OBVIOUS
  <2>2. e.roles = ed.roles /\ e.slots = ed.slots /\ e.lead = ed.lead /\ e.rules = ed.rules
    BY <1>1, <2>1 DEF IsForm
  <2>3. Edited(e)
    BY <1>6, <2>1 DEF PickModel
  <2>4. QED
    BY <1>1, <1>3, <2>2, <2>3
<1>7. CASE EditLead
  <2>1. PICK chain \in LeadChoice : Edited([ed EXCEPT !.lead = chain])
    BY <1>7 DEF EditLead
  <2>2. PICK e : e = [ed EXCEPT !.lead = chain]
    OBVIOUS
  <2>3. e.roles = ed.roles /\ e.slots = ed.slots /\ e.lead = chain /\ e.rules = ed.rules
    BY <1>1, <2>2 DEF IsForm
  <2>4. QED
    BY <1>1, <1>2, <1>3, <2>1, <2>2, <2>3
<1>8. CASE EditRules
  <2>1. PICK inForm \in RuleChoice : Edited([ed EXCEPT !.rules = inForm])
    BY <1>8 DEF EditRules
  <2>2. PICK e : e = [ed EXCEPT !.rules = inForm]
    OBVIOUS
  <2>3. e.roles = ed.roles /\ e.slots = ed.slots /\ e.lead = ed.lead /\ e.rules = inForm
    BY <1>1, <2>2 DEF IsForm
  <2>4. QED
    BY <1>1, <1>2, <1>3, <2>1, <2>2, <2>3
<1>9. IsList(ed.slots)
  BY <1>1 DEF AreSlots
<1>10. CASE AddSlot
  <2>1. PICK row \in SlotChoice : Edited([ed EXCEPT !.slots = Append(@, row)])
    BY <1>10 DEF AddSlot
  <2>2. PICK slots : slots = Append(ed.slots, row)
    OBVIOUS
  <2>3. \A k \in DOMAIN slots : slots[k] = row \/ \E j \in DOMAIN ed.slots : slots[k] = ed.slots[j]
    BY <1>9, <2>2, EditedRows
  <2>4. (\A k \in DOMAIN slots : Plain(slots[k].chain)) /\ Edited([ed EXCEPT !.slots = slots])
    BY <1>1, <1>2, <2>1, <2>2, <2>3
  <2>5. QED
    BY <1>4, <2>4
<1>11. CASE EditSlot
  <2>1. PICK i \in DOMAIN ed.slots, row \in SlotChoice : Edited([ed EXCEPT !.slots[i] = row])
    BY <1>11 DEF EditSlot
  <2>2. PICK slots : slots = [ed.slots EXCEPT ![i] = row]
    OBVIOUS
  <2>3. \A k \in DOMAIN slots : slots[k] = row \/ \E j \in DOMAIN ed.slots : slots[k] = ed.slots[j]
    BY <1>9, <2>1, <2>2, EditedRows
  <2>4. (\A k \in DOMAIN slots : Plain(slots[k].chain)) /\ Edited([ed EXCEPT !.slots = slots])
    BY <1>1, <1>2, <2>1, <2>2, <2>3
  <2>5. QED
    BY <1>4, <2>4
<1>12. CASE MoveSlot
  <2>1. PICK from \in DOMAIN ed.slots, to \in DOMAIN ed.slots :
          Edited([ed EXCEPT !.slots = InsertAt(RemoveAt(@, from), to, @[from])])
    BY <1>12 DEF MoveSlot
  <2>2. PICK row : row = ed.slots[from]
    OBVIOUS
  <2>a. PICK slots : slots = InsertAt(RemoveAt(ed.slots, from), to, row)
    OBVIOUS
  <2>3. \A k \in DOMAIN slots : slots[k] = row \/ \E j \in DOMAIN ed.slots : slots[k] = ed.slots[j]
    BY <1>9, <2>1, <2>a, EditedRows
  <2>4. (\A k \in DOMAIN slots : Plain(slots[k].chain)) /\ Edited([ed EXCEPT !.slots = slots])
    <3>1. Plain(row.chain)
      BY <1>1, <2>1, <2>2
    <3>2. QED
      BY <1>1, <2>1, <2>2, <2>a, <2>3, <3>1
  <2>5. QED
    BY <1>4, <2>4
<1>13. CASE AddRole
  <2>1. PICK row \in RoleChoice : Edited([ed EXCEPT !.roles = Append(@, row)])
    BY <1>13 DEF AddRole
  <2>2. PICK roles : roles = Append(ed.roles, row)
    OBVIOUS
  <2>3. \A k \in DOMAIN roles : roles[k] = row \/ \E j \in DOMAIN ed.roles : roles[k] = ed.roles[j]
    BY <1>1, <2>2, EditedRows
  <2>4. (\A k \in DOMAIN roles : Plain(roles[k].chain)) /\ Edited([ed EXCEPT !.roles = roles])
    BY <1>1, <1>2, <2>1, <2>2, <2>3
  <2>5. QED
    BY <1>5, <2>4
<1>14. CASE RemoveRole
  <2>1. PICK i \in DOMAIN ed.roles : Edited([ed EXCEPT !.roles = RemoveAt(@, i)])
    BY <1>14 DEF RemoveRole
  <2>2. PICK roles : roles = RemoveAt(ed.roles, i)
    OBVIOUS
  <2>3. \A k \in DOMAIN roles : \E j \in DOMAIN ed.roles : roles[k] = ed.roles[j]
    <3>1. PICK S, list : S = {ed.roles[j] : j \in DOMAIN ed.roles} /\ list = ed.roles
      OBVIOUS
    <3>2. list \in Seq(S) /\ i \in 1..Len(list)
      BY <1>1, <2>1, <3>1, ListDomain DEF IsList
    <3>3. RemoveAt(list, i) \in Seq(S)
      BY <3>2, TakenOut
    <3>4. \A k \in DOMAIN roles : roles[k] \in S
      BY <2>2, <3>1, <3>3
    <3>5. QED
      BY <3>1, <3>4
  <2>4. (\A k \in DOMAIN roles : Plain(roles[k].chain)) /\ Edited([ed EXCEPT !.roles = roles])
    BY <1>1, <2>1, <2>2, <2>3
  <2>5. QED
    BY <1>5, <2>4
<1>15. CASE EditRole
  <2>1. PICK i \in DOMAIN ed.roles, row \in RoleChoice : Edited([ed EXCEPT !.roles[i] = row])
    BY <1>15 DEF EditRole
  <2>2. PICK roles : roles = [ed.roles EXCEPT ![i] = row]
    OBVIOUS
  <2>3. \A k \in DOMAIN roles : roles[k] = row \/ \E j \in DOMAIN ed.roles : roles[k] = ed.roles[j]
    BY <1>1, <2>1, <2>2, EditedRows
  <2>4. (\A k \in DOMAIN roles : Plain(roles[k].chain)) /\ Edited([ed EXCEPT !.roles = roles])
    BY <1>1, <1>2, <2>1, <2>2, <2>3
  <2>5. QED
    BY <1>5, <2>4
<1>16. QED
  BY <1>6, <1>7, <1>8, <1>10, <1>11, <1>12, <1>13, <1>14, <1>15 DEF FormEdit

\* No step breaks what is kept of the rows, loses a text, or leaves a saved section dirty.
LEMMA RowsStep ==
  FormInv /\ RowsInv /\ [FormNext \/ Tick]_formRowVars
    => RowsInv' /\ [ReadsBackClean /\ UntouchedSaveKeepsTexts]_formRowVars
<1> SUFFICES ASSUME FormInv, RowsInv, [FormNext \/ Tick]_formRowVars
             PROVE  RowsInv' /\ [ReadsBackClean /\ UntouchedSaveKeepsTexts]_formRowVars
  OBVIOUS
<1>1. CASE UNCHANGED formRowVars
  BY <1>1 DEF formRowVars, RowsInv, RowsShape, SavedRolesParse, Untouched
<1>2. CASE Tick
  <2>1. UNCHANGED <<doc, ed, saved, edits>>
    BY <1>2 DEF Tick
  <2>2. QED
    BY <2>1 DEF RowsInv, RowsShape, SavedRolesParse, Untouched, ReadsBackClean, UntouchedSaveKeepsTexts
<1>3. CASE FormNext
  BY <1>3, MainSaveReads, SubSaveReads, OtherReads, EditReads DEF FormNext
<1>4. QED
  BY <1>1, <1>2, <1>3

\* Rows and document go back and forth without loss: a section just saved reads back
\* clean, what a role never shows survives, and a save of a form nobody edited keeps
\* every text of every chain.
THEOREM SavesRoundTrip == FormSpec => SaveRoundTrips
<1>1. FormInit => FormInv /\ RowsInv
  BY FormStarts, RowsStart
<1>2. FormInv /\ RowsInv /\ [FormNext \/ Tick]_formRowVars
        => /\ FormInv' /\ RowsInv'
           /\ [ReadsBackClean /\ ExtrasSurvive /\ UntouchedSaveKeepsTexts]_formRowVars
  <2> SUFFICES ASSUME FormInv, RowsInv, [FormNext \/ Tick]_formRowVars
               PROVE  /\ FormInv' /\ RowsInv'
                      /\ [ReadsBackClean /\ ExtrasSurvive /\ UntouchedSaveKeepsTexts]_formRowVars
    OBVIOUS
  <2>1. FormInv' /\ [ExtrasSurvive]_formRowVars
    BY FormStep
  <2>2. RowsInv' /\ [ReadsBackClean /\ UntouchedSaveKeepsTexts]_formRowVars
    BY RowsStep
  <2>3. QED
    BY <2>1, <2>2
<1>3. QED
  BY <1>1, <1>2, PTL DEF FormSpec, SaveRoundTrips

-----------------------------------------------------------------------------
(* The week *)

\* Two windows that meet at both ends, over the same days, contain a moment of such a
\* day exactly once.
LEMMA WindowsMeet ==
  ASSUME NEW a, NEW b, NEW now \in Clock, a.start \in Int, a.end \in Int,
         a.start = b.end, a.end = b.start, a.start # a.end,
         a.days = b.days, a.days = {} \/ now[1] \in a.days
  PROVE  ContainsWindow(Window(a.start, a.end, a.days), now)
           # ContainsWindow(Window(b.start, b.end, b.days), now)
<1>1. now[2] \in Int
  <2>1. PICK m : m = now[2]
    OBVIOUS
  <2>2. m \in Minute
    BY <2>1 DEF Clock
  <2>3. m \in 0..1439
    BY <2>2, MinuteAssumption
  <2>4. QED
    BY <2>1, <2>3
<1>2. PICK v, w : v = Window(a.start, a.end, a.days) /\ w = Window(b.start, b.end, b.days)
  OBVIOUS
<1>3. /\ v.start = a.start /\ v.end = a.end /\ v.days = a.days
      /\ w.start = a.end /\ w.end = a.start /\ w.days = a.days
  BY <1>2 DEF Window
<1>4. ContainsWindow(v, now) <=> ~ContainsWindow(w, now)
  BY <1>1, <1>3 DEF ContainsWindow
<1>5. QED
  BY <1>2, <1>4 DEF ContainsWindow

\* Of two rows that share the week exactly one matches.
LEMMA OneOfTwoMatches ==
  ASSUME NEW a, NEW b, IsSlot(a), IsSlot(b), clock \in Clock, Shares(a, b)
  PROVE  Matches(a, clock) # Matches(b, clock)
<1>1. CASE /\ a.kind = "preset" /\ b.kind = "preset"
           /\ \/ a.preset = "liang-peak" /\ b.preset = "liang-valley"
              \/ a.preset = "glm-peak" /\ b.preset = "glm-valley"
  <2>1. /\ a.preset \in PresetId /\ b.preset \in PresetId
        /\ PRESETS[a.preset].windows = PRESETS[b.preset].windows
        /\ PRESETS[a.preset].complement = FALSE /\ PRESETS[b.preset].complement = TRUE
    <3> DEFINE liang == {Window(540, 720, Weekdays), Window(840, 1080, Weekdays)}
               glm == {Window(840, 1080, Weekdays)}
    <3>1. PRESETS = [p \in PresetId |->
                      [windows |-> IF p \in {"liang-peak", "liang-valley"} THEN liang ELSE glm,
                       complement |-> p \in {"liang-valley", "glm-valley"}]]
      BY Zenon DEF PRESETS
    <3> HIDE DEF liang, glm
    <3>2. a.preset \in PresetId /\ b.preset \in PresetId
      BY <1>1 DEF PresetId
    <3>3. \A p \in PresetId :
            /\ PRESETS[p].windows = IF p \in {"liang-peak", "liang-valley"} THEN liang ELSE glm
            /\ PRESETS[p].complement = (p \in {"liang-valley", "glm-valley"})
      BY <3>1, Zenon
    <3>4. /\ PRESETS[a.preset].windows = PRESETS[b.preset].windows
          /\ PRESETS[a.preset].complement = FALSE /\ PRESETS[b.preset].complement = TRUE
      <4>1. /\ a.preset \in {"liang-peak", "liang-valley"} <=> b.preset \in {"liang-peak", "liang-valley"}
            /\ a.preset \notin {"liang-valley", "glm-valley"} /\ b.preset \in {"liang-valley", "glm-valley"}
        BY <1>1
      <4>2. PRESETS[a.preset].windows = PRESETS[b.preset].windows
        BY <3>2, <3>3, <4>1
      <4>3. PRESETS[a.preset].complement = FALSE
        <5>1. (a.preset \in {"liang-valley", "glm-valley"}) = FALSE
          BY <4>1
        <5>2. PRESETS[a.preset].complement = (a.preset \in {"liang-valley", "glm-valley"})
          BY <3>2, <3>3
        <5>3. QED
          BY <5>1, <5>2, Zenon
      <4>4. PRESETS[b.preset].complement = TRUE
        BY <3>2, <3>3, <4>1, Zenon
      <4>5. QED
        BY <4>2, <4>3, <4>4
    <3>5. QED
      BY <3>2, <3>4
  <2>2. DescribeRow(a) = PRESETS[a.preset] /\ DescribeRow(b) = PRESETS[b.preset]
    BY <1>1 DEF DescribeRow
  <2>3. PICK windows : windows = PRESETS[a.preset].windows
    OBVIOUS
  <2>4. /\ Matches(a, clock) = (\E w \in windows : ContainsWindow(w, clock))
        /\ Matches(b, clock) = ~(\E w \in windows : ContainsWindow(w, clock))
    BY <2>1, <2>2, <2>3 DEF Matches
  <2>5. QED
    BY <2>4
<1>2. CASE /\ a.kind = "custom" /\ b.kind = "custom" /\ a.start = b.end /\ a.end = b.start
           /\ a.start # a.end /\ a.days = b.days /\ (a.days = {} \/ clock[1] \in a.days)
  <2>1. ASSUME NEW row, row.kind = "custom"
        PROVE  Matches(row, clock) = ContainsWindow(Window(row.start, row.end, row.days), clock)
    <3>1. PICK w : w = Window(row.start, row.end, row.days)
      OBVIOUS
    <3>2. DescribeRow(row).windows = {w} /\ DescribeRow(row).complement = FALSE
      BY <2>1, <3>1 DEF DescribeRow
    <3>3. Matches(row, clock) = (\E x \in {w} : ContainsWindow(x, clock))
      BY <3>2 DEF Matches
    <3>4. QED
      BY <3>1, <3>3 DEF ContainsWindow
  <2>2. /\ Matches(a, clock) = ContainsWindow(Window(a.start, a.end, a.days), clock)
        /\ Matches(b, clock) = ContainsWindow(Window(b.start, b.end, b.days), clock)
    BY <1>2, <2>1
  <2>3. QED
    BY <1>2, <2>2, WindowsMeet DEF IsSlot
<1>3. QED
  BY <1>1, <1>2 DEF Shares

\* A pair of rows that share the week leaves no gap and no overlap, for any documents,
\* any edits and any moment; in a document the gateway admits the all-day chain never wins.
THEOREM WeekIsShared == FormSpec => []NoGapNoOverlap
<1>1. FormInv => NoGapNoOverlap
  <2> SUFFICES ASSUME FormInv, NEW i \in DOMAIN doc.slots, NEW j \in DOMAIN doc.slots,
                      Described(doc.slots[i]), Described(doc.slots[j]),
                      Shares(doc.slots[i], doc.slots[j])
               PROVE  /\ Matches(doc.slots[i], clock) # Matches(doc.slots[j], clock)
                      /\ ValidateConfigPatch(doc) => ResolveSlotState(doc.root, doc.slots, clock) # 0
    BY DEF NoGapNoOverlap
  <2>1. /\ AreSlots(doc.slots) /\ IsList(doc.slots) /\ clock \in Clock
        /\ \A k \in DOMAIN doc.slots : IsSlot(doc.slots[k])
    BY DEF FormInv, FormShape, AreSlots
  <2>2. DOMAIN doc.slots = 1..Len(doc.slots) /\ Len(doc.slots) \in Nat
    BY <2>1, ListDomain
  <2>3. Matches(doc.slots[i], clock) # Matches(doc.slots[j], clock)
    BY <2>1, OneOfTwoMatches
  <2>4. ASSUME ValidateConfigPatch(doc) PROVE ResolveSlotState(doc.root, doc.slots, clock) # 0
    <3> DEFINE hits == {k \in DOMAIN doc.slots : Eligible(doc.slots, k, clock)}
    <3>1. IsAllDayConforming(doc.root) /\ \A k \in DOMAIN doc.slots : ~RepeatsPreset(doc.slots, k)
      BY <2>4 DEF ValidateConfigPatch, ValidateTimeSlotsPatch, RepeatsPreset
    <3>2. PICK k \in {i, j} : Matches(doc.slots[k], clock)
      BY <2>3 DEF Matches
    <3>3. k \in hits
      BY <3>1, <3>2 DEF Eligible
    <3>4. hits \subseteq Nat /\ hits # {} /\ 0 \notin hits
      BY <2>2, <3>3
    <3> HIDE DEF hits
    <3>5. \E x \in hits : \A y \in hits : x <= y
      BY <3>4, LeastNaturalExists
    <3>6. (CHOOSE x \in hits : \A y \in hits : x <= y) \in hits
      BY <3>5
    <3>7. ResolveSlotState(doc.root, doc.slots, clock) = CHOOSE x \in hits : \A y \in hits : x <= y
      BY <3>1, <3>4 DEF ResolveSlotState, hits
    <3>8. QED
      BY <3>4, <3>6, <3>7
  <2>5. QED
    BY <2>3, <2>4
<1>2. QED
  BY <1>1, FormInvAlways, PTL
=============================================================================
