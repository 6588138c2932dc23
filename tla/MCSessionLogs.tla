---------------------------- MODULE MCSessionLogs -----------------------------
(***************************************************************************)
(* Small instances of the session-log repair, in two scenes: the triage of *)
(* one log by one command line, and two runs of the script over one        *)
(* directory.                                                              *)
(***************************************************************************)
EXTENDS LogTriage, RepairRun, TLC

VARIABLE scene
allVars == <<vars, runVars, scene>>

-----------------------------------------------------------------------------
(* The triage: logs about numbering and references, logs that mix the      *)
(* refusals, and logs of one row with every source and many descriptors.   *)

User == [kind |-> "user", plugin |-> None, form |-> None, summary |-> None, sections |-> None]
Team == [User EXCEPT !.kind = "team"]
Compact == [User EXCEPT !.kind = "compact"]

NoKeys == [k \in DescriptorKey |-> None]
OneShot == [version |-> 3, mode |-> "one-shot",
            keys |-> [NoKeys EXCEPT !["provider"] = "text"]]

Plain == [type |-> "message", seq |-> 0, len |-> 0, sources |-> <<User>>,
          descriptor |-> OneShot, refs |-> {}]
Pack(n) == [Plain EXCEPT !.type = "packed", !.len = n, !.sources = <<>>]
Of(type) == [Plain EXCEPT !.type = type, !.sources = <<>>]
Described(d) == [Of(Descriptor) EXCEPT !.descriptor = d]
From(s) == [Plain EXCEPT !.sources = s]

\* The rows with the positions they occupy as their numbers.
Dense(rows) == [i \in DOMAIN rows |-> [rows[i] EXCEPT !.seq = Position(rows, i)]]
\* Row k numbered one too high.
Skewed(rows, k) == [Dense(rows) EXCEPT ![k].seq = @ + 1]

Shapes == {Plain, Pack(2), Of(Legacy)}
Spans == {<<a, b>> \in (-1..4) \X (0..4) : a <= b}
RefSets == {{}} \union {{s} : s \in Spans} \union {{<<0, 0>>, <<2, 2>>}, {<<1, 1>>, <<3, 3>>}}
Numbering ==
  {[seed |-> n, rows |-> Dense(<<a, b, c, [d EXCEPT !.refs = r], Of("turn/end")>>)] :
     n \in {0, 2}, a \in Shapes, b \in Shapes, c \in Shapes, d \in {Plain, Pack(2)}, r \in RefSets}
  \union {[seed |-> 0, rows |-> Skewed(<<a, b, c, Of("turn/end")>>, k)] :
     a \in Shapes, b \in Shapes, c \in Shapes \union {Pack(0)}, k \in 1..3}

Kinds == {Plain, From(<<User, Team>>), From(<<Compact>>), Of(Legacy), Of("unknown"),
          Of("turn/end"), Described([OneShot EXCEPT !.version = 2]),
          Described([OneShot EXCEPT !.version = 4])}
Mixed == {[seed |-> 0, rows |-> Dense(<<a, b, c>>)] : a \in Kinds, b \in Kinds, c \in Kinds}

End(row) == [seed |-> 0, rows |-> Dense(<<row, Of("turn/end")>>)]
Sources == {End(From(<<s>>)) : s \in {t \in Source : (t.kind = "plugin") = (t.plugin # None)}}
           \union {End([From(<<Team>>) EXCEPT !.refs = {<<1, 1>>}])}
Descriptors ==
  {End(Described([version |-> v, mode |-> m,
                  keys |-> [NoKeys EXCEPT !["provider"] = p, !["label"] = l,
                                          !["agentProvider"] = a, !["agentModel"] = b,
                                          !["odd"] = o]])) :
     v \in {2, 4}, m \in {"one-shot", "continuable", "odd"}, p \in {"text", "empty"},
     l \in {"text", "bad", None}, a \in {"text", "empty", None}, b \in {"text", None},
     o \in {"text", None}}

AnyOption ==
  {o \in [apply : BOOLEAN, drop : BOOLEAN, oracle : BOOLEAN,
          class : {None, "source-kind", "unknown-event-type"},
          successor : {"none", "loads", "refused"}] :
     /\ o.apply => o.oracle
     /\ o.successor # "none" => o.class = None}

Pairs(logs, options) == {[log |-> l, opts |-> o] : l \in logs, o \in options}
AllCases ==
  Pairs(Mixed, AnyOption)
  \union Pairs(Numbering, {o \in AnyOption : o.drop /\ o.oracle /\ o.class = None
                                             /\ o.successor = "none"})
  \union Pairs(Sources \union Descriptors,
              {o \in AnyOption : ~o.drop /\ o.class = None /\ o.successor = "none"})

-----------------------------------------------------------------------------
(* Two runs over a log of at most three revisions, with every flag and the *)
(* catalogs resolution can find.                                           *)

Build(current, historical) == [loads |-> TRUE, current |-> current, historical |-> historical]
Broken == [loads |-> FALSE, current |-> 0, historical |-> Nothing]
Nowhere == [s \in CatalogSource |-> Nothing]
At3 == [Nowhere EXCEPT !["env"] = Build(3, Nothing)]
Newer == [Nowhere EXCEPT !["option"] = Build(4, 3), !["env"] = Broken]

\* What resolution may find: the usable ones, and those that end a run.
Usable == {At3, Newer, [Nowhere EXCEPT !["dsh-path"] = Broken, !["npx-store"] = Build(3, 2)]}
Unusable == {Nowhere, [At3 EXCEPT !["option"] = Broken],
             [Nowhere EXCEPT !["dsh-path"] = Build(2, Nothing)],
             [Nowhere EXCEPT !["env"] = Build(4, 2)], [Nowhere EXCEPT !["env"] = Build(5, Nothing)],
             [Nowhere EXCEPT !["npx-store"] = Build(5, 4)]}

Opts(apply, bak, drop, f) ==
  [apply |-> apply, backup |-> bak, drop |-> drop, irregular |-> FALSE, runtime |-> TRUE,
   found |-> f]
Applying == {Opts(TRUE, TRUE, d, f) : d \in BOOLEAN, f \in {At3, Newer}}
Simple == {Opts(TRUE, FALSE, FALSE, f) : f \in Usable}
Reporting == {Opts(FALSE, FALSE, TRUE, At3), Opts(FALSE, FALSE, FALSE, Nowhere)}
Fatal == {Opts(TRUE, FALSE, FALSE, f) : f \in Unusable}
         \union {Opts(FALSE, FALSE, FALSE, [Nowhere EXCEPT !["env"] = Build(4, 2)]),
                 Opts(TRUE, FALSE, TRUE, At3)}
         \union {[Opts(TRUE, TRUE, TRUE, At3) EXCEPT !.runtime = FALSE]}
Strict == {[Opts(TRUE, FALSE, FALSE, At3) EXCEPT !.irregular = TRUE]}
AllOptions == Applying \union Simple \union Reporting \union Fatal \union Strict

SomeVerdicts ==
  {<<"repairable", "repairable", "ok">>, <<"lossy", "lossy", "lossy">>,
   <<"repairable", "unpublishable", "repairable">>, <<"ok", "repairable", "refused">>}

Symmetry == Permutations(Run)

-----------------------------------------------------------------------------
\* What a scene is not about stays in one initial state.
OneLog == [log |-> [seed |-> 0, rows |-> Dense(<<Plain>>)],
           opts |-> [apply |-> FALSE, drop |-> FALSE, oracle |-> FALSE, class |-> None,
                     successor |-> "none"]]
CasesOfAll == AllCases \union {OneLog}
\* The logs that mix the refusals are enough for the promise.
PromiseCases == Pairs(Mixed, AnyOption) \union {OneLog}
\* Scenes of the runs alone.
OneCase == {OneLog}
OneRun == CHOOSE o \in Reporting : TRUE

MCInit ==
  \/ /\ scene = "triage"
     /\ verdict = (CHOOSE v \in SomeVerdicts : TRUE) /\ run = [r \in Run |-> NotStarted(OneRun)]
     /\ Init /\ RunInit
  \/ /\ scene = "runs" /\ log = OneLog.log /\ opts = OneLog.opts
     /\ Init /\ RunInit

MCNext ==
  \/ scene = "triage" /\ Next /\ UNCHANGED <<runVars, scene>>
  \/ scene = "runs" /\ RunNext /\ UNCHANGED <<vars, scene>>

MCSpec == MCInit /\ [][MCNext]_allVars
=============================================================================
