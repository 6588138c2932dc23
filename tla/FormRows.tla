------------------------------- MODULE FormRows -------------------------------
(***************************************************************************)
(* One stored configuration through the settings form: read and parsed     *)
(* (src/client/fallbacks-store.ts), spread over editable rows, edited,     *)
(* assembled and checked (src/client/FallbacksCard.tsx), admitted by the   *)
(* gateway (src/gateway.ts) and loaded again by the host (src/config.ts).  *)
(* The document starts as anything a hand-written settings file may hold;  *)
(* the clock runs beside it.                                               *)
(***************************************************************************)
EXTENDS SlotRows, SequencesExt, Selections

CONSTANTS
  Stored,       \* documents a settings file holds at first
  LeadChoice, SlotChoice, RoleChoice, RuleChoice,  \* what the user puts in an editor
  OtherMain,    \* [root, slots]: what another client of the gateway sends
  Seeded,       \* role ids of the live seed map
  MaxEdits      \* bound: edits of the form

ChainEntry == [text : STRING, padded : BOOLEAN]
SlotRow == [kind : STRING, preset : STRING, start : Int, end : Int, days : SUBSET Int,
            name : STRING, chain : Seq(ChainEntry)]
RoleRow == [id : [name : STRING, padded : BOOLEAN], prompt : STRING, chain : Seq(ChainEntry),
            fallback : STRING, labelled : BOOLEAN]
RuleRow == [provider : STRING, role : [name : STRING, padded : BOOLEAN], origin : STRING]

\* An editor offers catalog ids and the texts already read back, neither of which has
\* blanks around it (the selects of ChainSelectorEditor, entryToSelectorRow).
Offered == {e \in ChainEntry : ~e.padded}

\* What a settings file, an editor of the form and another client can hold.
ASSUME FormAssumption ==
  /\ \A d \in Stored :
       d \in [root : Seq(ChainEntry), slots : Seq(SlotRow), roles : Seq(RoleRow), rules : Seq(RuleRow)]
  /\ LeadChoice \subseteq Seq(Offered)
  /\ \A row \in SlotChoice : row \in SlotRow /\ row.chain \in Seq(Offered)
  /\ \A row \in RoleChoice : row.chain \in Seq(Offered)
  /\ \A rows \in RuleChoice : rows \in Seq([provider : STRING, role : [name : STRING, padded : BOOLEAN]])
  /\ \A main \in OtherMain : main \in [root : Seq(ChainEntry), slots : Seq(SlotRow)]

\* An id as written: a name, surrounded by blanks or not.
Id(name) == [name |-> name, padded |-> FALSE]
Trim(id) == Id(id.name)
INHERIT_ROLE_ID == Id("inherit")
WellFormedId(id) == id.name \in {"r1", "r2", "inherit"} /\ ~id.padded

VARIABLES
  doc, ed,      \* the stored document, and the rows of the form
  saved,        \* the sections whose stored value the form has written
  admitted,     \* the stored main section came through the gateway
  refused,      \* the section whose save the gateway refused last
  edits, clock
formRowVars == <<doc, ed, saved, admitted, refused, edits, clock>>

-----------------------------------------------------------------------------
(* Rows of a configuration, and the configuration of the rows *)

\* A well-formed entry loses its blanks in the parse, a malformed one by trim.
EntryToSelectorRow(entry) == Entry(entry.text)
Selectors(chain) == [i \in DOMAIN chain |-> EntryToSelectorRow(chain[i])]

\* A row with no text drops out; a malformed text stays verbatim.
RowsToChain(selectors) == Among(selectors, {e \in ToSet(selectors) : e.text # ""})

TimeSlotsToRows(slots) ==
  [i \in DOMAIN slots |->
     [slots[i] EXCEPT !.start = IF @ = Absent THEN Blank ELSE @,
                      !.end   = IF @ = Absent THEN Blank ELSE @,
                      !.name  = IF @ = "-" THEN "" ELSE @,
                      !.chain = Selectors(@)]]

\* A preset row keeps its day mask only; a custom row keeps blank times as text.
RowsToTimeSlots(rows) ==
  [i \in DOMAIN rows |->
     LET preset == rows[i].kind = "preset" IN
     [rows[i] EXCEPT !.start = IF preset THEN Absent ELSE @,
                     !.end   = IF preset THEN Absent ELSE @,
                     !.name  = IF preset \/ @ = "" THEN "-" ELSE @,
                     !.chain = RowsToChain(@)]]

RolesToRows(roles) ==
  [i \in DOMAIN roles |->
     [id |-> roles[i].id, chain |-> Selectors(roles[i].chain), fallback |-> roles[i].fallback]]

\* rowsToRoles, and what rows never edit put back by the trimmed id: the last
\* declared role that has it as its raw id.
MergeRoleExtras(rows, original) ==
  [i \in DOMAIN rows |->
     LET id == Trim(rows[i].id)
         same == {j \in DOMAIN original : original[j].id = id}
     IN [id |-> id,
         prompt |-> IF same = {} THEN "-"
                    ELSE original[CHOOSE j \in same : \A k \in same : k <= j].prompt,
         chain |-> RowsToChain(rows[i].chain),
         fallback |-> rows[i].fallback, labelled |-> FALSE]]

RulesToRows(rules) ==
  [i \in DOMAIN rules |->
     [provider |-> IF rules[i].provider = "-" THEN "" ELSE rules[i].provider, role |-> rules[i].role]]
RowsToRules(rows) ==
  LET rules == [i \in DOMAIN rows |->
                  [provider |-> IF rows[i].provider = "" THEN "-" ELSE rows[i].provider,
                   role |-> Trim(rows[i].role), origin |-> "-"]]
  IN Among(rules, {rule \in ToSet(rules) : rule.role.name # ""})

\* parseFallbacksConfig: fields the client does not know are not read.
ParseFallbacksConfig(d) ==
  [d EXCEPT !.roles = [i \in DOMAIN @ |-> [@[i] EXCEPT !.labelled = FALSE]]]

AllDayModelOf(chain) == IF IsAllDayConforming(chain) THEN "official" ELSE ""

\* Mutant: the default model stays in the list of the entries before it.
AllDayChainRowWhole(chain) == Selectors(chain)

AllDayChainRowOf(chain) == Selectors(IF AllDayModelOf(chain) = "" THEN chain ELSE Front(chain))

MainRowsOf(d, e) ==
  [e EXCEPT !.model = AllDayModelOf(d.root), !.lead = AllDayChainRowOf(d.root),
            !.slots = TimeSlotsToRows(d.slots)]
SubRowsOf(d, e) == [e EXCEPT !.roles = RolesToRows(d.roles), !.rules = RulesToRows(d.rules)]
NoRows == [model |-> "", lead |-> <<>>, slots |-> <<>>, roles |-> <<>>, rules |-> <<>>]

\* assembleConfig: with no default model picked the accepted chain rides along.
AssembleConfig(e, d) ==
  [root  |-> IF e.model = "" THEN d.root ELSE Append(RowsToChain(e.lead), Entry(e.model)),
   slots |-> RowsToTimeSlots(e.slots),
   roles |-> MergeRoleExtras(e.roles, d.roles),
   rules |-> RowsToRules(e.rules)]

SectionOf(s, d) == IF s = "main" THEN <<d.root, d.slots>> ELSE <<d.roles, d.rules>>
HasEmptyRuleRows(e) == \E i \in DOMAIN e.rules : e.rules[i].role.name = "" /\ ~e.rules[i].role.padded

DirtyIn(s, e, d) ==
  LET accepted == ParseFallbacksConfig(d) IN
  \/ SectionOf(s, AssembleConfig(e, accepted)) # SectionOf(s, accepted)
  \/ s = "sub" /\ HasEmptyRuleRows(e)

-----------------------------------------------------------------------------
(* What the form, the gateway and the load each find *)

AllParse(chain) == \A i \in DOMAIN chain : Parses(chain[i])

\* Mutant: the form checks the entries of a chain, never whether there are any.
SlotFitAnyChain(rows, i) ==
  /\ \/ rows[i].kind = "custom" /\ CustomRowFit(rows[i])
     \/ rows[i].kind = "preset" /\ rows[i].preset \in PresetId
        /\ ~RepeatsPreset(rows, i) /\ ~CarriesWindows(rows[i])
  /\ AllParse(rows[i].chain)

SlotFit(rows, i) ==
  /\ \/ rows[i].kind = "custom" /\ CustomRowFit(rows[i])
     \/ rows[i].kind = "preset" /\ rows[i].preset \in PresetId
        /\ ~RepeatsPreset(rows, i) /\ ~CarriesWindows(rows[i])
  /\ rows[i].chain # <<>> /\ AllParse(rows[i].chain)

DeclaredIds(roles) == {roles[i].id : i \in DOMAIN roles}

RoleFit(roles, i) ==
  /\ WellFormedId(roles[i].id) /\ roles[i].id # INHERIT_ROLE_ID
  /\ \A j \in DOMAIN roles : roles[j].id = roles[i].id => j = i
  /\ AllParse(roles[i].chain)
  /\ roles[i].chain # <<>> \/ Trim(roles[i].id) \in Seeded

\* validateDraft, by section.
ValidateDraft(s, draft) ==
  IF s = "main"
  THEN /\ IsAllDayConforming(draft.root) /\ AllParse(draft.root)
       /\ \A i \in DOMAIN draft.slots : SlotFit(draft.slots, i)
  ELSE /\ \A i \in DOMAIN draft.roles : RoleFit(draft.roles, i)
       /\ \A i \in DOMAIN draft.rules :
            draft.rules[i].role \in DeclaredIds(draft.roles) \union {INHERIT_ROLE_ID}

ValidateConfigPatch(patch) == IsAllDayConforming(patch.root) /\ ValidateTimeSlotsPatch(patch.slots)

\* detectLegacyKeys, as far as a section written from rows could keep one.
DetectLegacyKeys(d) ==
  \/ \E i \in DOMAIN d.roles : d.roles[i].labelled
  \/ \E i \in DOMAIN d.rules : d.rules[i].role \notin DeclaredIds(d.roles) \union {INHERIT_ROLE_ID}

\* validateFallbacksConfig: ids and references are compared trimmed.
TrimmedIds(roles) == {Trim(roles[i].id) : i \in DOMAIN roles}
RoleQuiet(roles, i) ==
  /\ WellFormedId(Trim(roles[i].id)) /\ Trim(roles[i].id) # INHERIT_ROLE_ID
  /\ \A j \in DOMAIN roles : Trim(roles[j].id) = Trim(roles[i].id) => j = i
  /\ roles[i].chain # <<>> /\ AllParse(roles[i].chain)
ValidateFallbacksConfig(s, d) ==
  IF s = "main"
  THEN /\ d.root # <<>> => IsAllDayConforming(d.root)
       /\ AllParse(d.root) /\ SlotRowsQuiet(d.slots)
  ELSE /\ \A i \in DOMAIN d.roles : RoleQuiet(d.roles, i)
       /\ \A i \in DOMAIN d.rules :
            Trim(d.rules[i].role) \in TrimmedIds(d.roles) \union {INHERIT_ROLE_ID}

-----------------------------------------------------------------------------
(* The form at work *)

FormInit ==
  /\ doc \in Stored /\ ed = SubRowsOf(doc, MainRowsOf(doc, NoRows))
  /\ saved = {} /\ admitted = FALSE /\ refused = "none" /\ edits = 0
  /\ clock \in Clock

Edited(e) == edits < MaxEdits /\ edits' = edits + 1 /\ ed' = e
             /\ UNCHANGED <<doc, saved, admitted, refused, clock>>

PickModel == Edited([ed EXCEPT !.model = "official"])
EditLead == \E chain \in LeadChoice : Edited([ed EXCEPT !.lead = chain])
AddSlot == \E row \in SlotChoice : Edited([ed EXCEPT !.slots = Append(@, row)])
EditSlot == \E i \in DOMAIN ed.slots : \E row \in SlotChoice : Edited([ed EXCEPT !.slots[i] = row])
AddRole == \E row \in RoleChoice : Edited([ed EXCEPT !.roles = Append(@, row)])
RemoveRole == \E i \in DOMAIN ed.roles : Edited([ed EXCEPT !.roles = RemoveAt(@, i)])
EditRole == \E i \in DOMAIN ed.roles : \E row \in RoleChoice : Edited([ed EXCEPT !.roles[i] = row])
EditRules == \E rows \in RuleChoice : Edited([ed EXCEPT !.rules = rows])

\* moveItem: one entry taken out and put back elsewhere.
MoveSlot ==
  \E from, to \in DOMAIN ed.slots :
    /\ from # to
    /\ Edited([ed EXCEPT !.slots = InsertAt(RemoveAt(@, from), to, @[from])])

\* saveSection: the section's draft over the accepted document, whole, to the
\* gateway; the answer is accepted and the section's rows are seeded from it.
SaveForm(s) ==
  LET accepted == ParseFallbacksConfig(doc)
      draft == AssembleConfig(ed, accepted)
      patch == IF s = "main" THEN [accepted EXCEPT !.root = draft.root, !.slots = draft.slots]
                             ELSE [accepted EXCEPT !.roles = draft.roles, !.rules = draft.rules]
  IN /\ DirtyIn(s, ed, doc) /\ ValidateDraft(s, draft)
     /\ s = "sub" => ~HasEmptyRuleRows(ed)
     /\ IF ValidateConfigPatch(patch)
        THEN /\ doc' = patch /\ saved' = saved \union {s} /\ refused' = "none"
             /\ admitted' = TRUE
             /\ ed' = IF s = "main" THEN MainRowsOf(patch, ed) ELSE SubRowsOf(patch, ed)
        ELSE refused' = s /\ UNCHANGED <<doc, ed, saved, admitted>>
     /\ UNCHANGED <<edits, clock>>

\* Another client of the gateway writes the main section: the terminal's settings,
\* a script.  Rows that now differ from it are kept as they are.
SetByOther ==
  \E main \in OtherMain :
    /\ edits < MaxEdits /\ edits' = edits + 1
    /\ ValidateConfigPatch(main)
    /\ doc' = [doc EXCEPT !.root = main.root, !.slots = main.slots]
    /\ admitted' = TRUE /\ saved' = saved \ {"main"} /\ refused' = "none"
    /\ UNCHANGED <<ed, clock>>

\* Time passes: the next minute looked at, or the first one of the next day.
Tick ==
  LET later == {m \in Minute : m > clock[2]}
      first(ms) == CHOOSE m \in ms : \A n \in ms : m <= n
  IN /\ clock' = IF later # {} THEN <<clock[1], first(later)>>
                 ELSE <<(clock[1] + 1) % 7, first(Minute)>>
     /\ UNCHANGED <<doc, ed, saved, admitted, refused, edits>>

FormEdit ==
  \/ PickModel \/ EditLead \/ AddSlot \/ EditSlot \/ MoveSlot
  \/ AddRole \/ RemoveRole \/ EditRole \/ EditRules
FormNext == FormEdit \/ SetByOther \/ SaveForm("main") \/ SaveForm("sub")

FormSpec == FormInit /\ [][FormNext \/ Tick]_formRowVars

-----------------------------------------------------------------------------
(* Properties *)

\* What was just saved reads back clean: the form that is seeded from it shows no
\* unsaved change, whatever was written by hand or typed before.  A main section
\* saved with no default model picked is exempt: the stored chain rides along in
\* it as it was written, and the rows of the reload are trimmed.
ReadsBackClean ==
  \A s \in {"main", "sub"} :
    (s \in saved' /\ SectionOf(s, doc') # SectionOf(s, doc) /\ (s = "main" => ed.model # ""))
    => ~DirtyIn(s, ed', doc')

\* A main section that the form's own validation lets through is never refused by
\* the gateway; a subagent section is refused for the stored main section only.
CardGateSuffices ==
  /\ refused # "main"
  /\ refused = "sub" => ~ValidateConfigPatch(doc)

\* A section the form saved loads without a warning, and leaves no key of its own
\* for the migration banner to name.  The empty chain of a seeded role is exempt,
\* and counts as filled: the form lets it through, the load warns of it all the same.
Filled(roles) ==
  [i \in DOMAIN roles |->
     IF roles[i].chain = <<>> /\ Trim(roles[i].id) \in Seeded
     THEN [roles[i] EXCEPT !.chain = <<Entry("exact")>>] ELSE roles[i]]
SavedLoadsQuietly ==
  /\ \A s \in saved : ValidateFallbacksConfig(s, [doc EXCEPT !.roles = Filled(@)])
  /\ "sub" \in saved => ~DetectLegacyKeys(doc)

\* Every time-slot row that the gateway admitted is one the resolver describes, so
\* none is skipped in silence when its moment comes.
AdmittedRowsTakeEffect ==
  admitted =>
    \A i \in DOMAIN doc.slots : Described(doc.slots[i]) /\ ~RepeatsPreset(doc.slots, i)

\* Three gates judge one document, the form's, the gateway's and the loader's, and
\* none of them is looser than the next.
GatesAgree == CardGateSuffices /\ SavedLoadsQuietly /\ AdmittedRowsTakeEffect

\* The fields of a role that the form does not edit survive every save of the
\* roles as long as the role keeps its id and the ids were unambiguous.
ExtrasSurvive ==
  \A i \in DOMAIN doc.roles : \A j \in DOMAIN doc'.roles :
    (/\ doc.roles[i].id = doc'.roles[j].id
     /\ \A k \in DOMAIN doc.roles : doc.roles[k].id = doc.roles[i].id => k = i)
    => doc'.roles[j].prompt = doc.roles[i].prompt

\* A save of a form nobody has edited loses no text of a chain, well-formed or not:
\* what the selector grammar does not know blocks the save, it is never dropped.
Texts(chain) ==
  LET texts == [i \in DOMAIN chain |-> chain[i].text] IN Among(texts, ToSet(texts) \ {""})
UntouchedSaveKeepsTexts ==
  edits' = 0 =>
    /\ Texts(doc'.root) = Texts(doc.root)
    /\ \A i \in DOMAIN doc.slots : Texts(doc'.slots[i].chain) = Texts(doc.slots[i].chain)
    /\ \A i \in DOMAIN doc.roles : Texts(doc'.roles[i].chain) = Texts(doc.roles[i].chain)

\* Rows and document are converted back and forth by every save, and nothing is lost
\* on the way.
SaveRoundTrips ==
  [][ReadsBackClean /\ ExtrasSurvive /\ UntouchedSaveKeepsTexts]_formRowVars

\* Two rows that share the week between them leave no gap and no overlap: at every
\* minute exactly one of a peak and its valley matches, and on the days of their
\* mask exactly one of two windows that meet at both ends; in a configuration the
\* gateway admits, the all-day chain then never wins.
Shares(a, b) ==
  \/ a.kind = "preset" /\ b.kind = "preset"
     /\ <<a.preset, b.preset>> \in {<<"liang-peak", "liang-valley">>, <<"glm-peak", "glm-valley">>}
  \/ /\ a.kind = "custom" /\ b.kind = "custom" /\ a.start = b.end /\ a.end = b.start
     /\ a.start # a.end /\ a.days = b.days /\ (a.days = {} \/ clock[1] \in a.days)
NoGapNoOverlap ==
  \A i, j \in DOMAIN doc.slots :
    (Described(doc.slots[i]) /\ Described(doc.slots[j]) /\ Shares(doc.slots[i], doc.slots[j]))
    => /\ Matches(doc.slots[i], clock) # Matches(doc.slots[j], clock)
       /\ ValidateConfigPatch(doc) => ResolveSlotState(doc.root, doc.slots, clock) # 0
=============================================================================
