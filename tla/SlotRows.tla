------------------------------- MODULE SlotRows -------------------------------
(***************************************************************************)
(* Time-slot rows as the host reads them: what the gateway admits on save  *)
(* (src/gateway.ts), what the load warns of (src/config.ts) and which row  *)
(* wins at a moment of the week (src/time-slots.ts).  A text of a time is  *)
(* the minute of the day it denotes, or one of the markers below.          *)
(***************************************************************************)
EXTENDS Integers, Sequences, FiniteSets

CONSTANT Minute   \* the minutes of the day at which the clock is looked at
ASSUME MinuteAssumption == Minute \subseteq 0..1439

Absent  == -1
Blank   == -2
Garbled == -3
IsTime(t) == t >= 0

PresetId == {"liang-peak", "liang-valley", "glm-peak", "glm-valley"}
Weekdays == 1..5
Window(start, end, days) == [start |-> start, end |-> end, days |-> days]

PRESETS ==
  LET liang == {Window(540, 720, Weekdays), Window(840, 1080, Weekdays)}
      glm   == {Window(840, 1080, Weekdays)}
  IN [p \in PresetId |->
        [windows |-> IF p \in {"liang-peak", "liang-valley"} THEN liang ELSE glm,
         complement |-> p \in {"liang-valley", "glm-valley"}]]

\* An entry of a chain: text that names an official model, another exact route,
\* a wildcard, or nothing the selector grammar knows; surrounded by blanks or not.
Entry(text) == [text |-> text, padded |-> FALSE]
Parses(e) == e.text \in {"official", "exact", "wild"}
IsOfficialAllDayId(e) == e = Entry("official")
IsAllDayConforming(chain) == chain # <<>> /\ IsOfficialAllDayId(chain[Len(chain)])

-----------------------------------------------------------------------------
(* Admission on save *)

\* A preset row carries none of its own windows, and each preset comes once.
CarriesWindows(row) == row.start # Absent \/ row.end # Absent \/ row.days # {}
RepeatsPreset(rows, i) ==
  rows[i].kind = "preset" /\ \E j \in 1..(i - 1) : rows[j].kind = "preset" /\ rows[j].preset = rows[i].preset

PresetRowFit(row) ==
  /\ row.preset \in PresetId /\ ~CarriesWindows(row)
  /\ row.name = "-"
CustomRowFit(row) == IsTime(row.start) /\ IsTime(row.end) /\ row.days \subseteq 0..6

ValidateTimeSlotsPatch(rows) ==
  \A i \in DOMAIN rows :
    /\ \/ rows[i].kind = "preset" /\ PresetRowFit(rows[i]) /\ ~RepeatsPreset(rows, i)
       \/ rows[i].kind = "custom" /\ CustomRowFit(rows[i])
    /\ rows[i].chain # <<>>

\* What the load warns of: warned rows stay in the document.
SlotRowsQuiet(rows) ==
  \A i \in DOMAIN rows : rows[i].kind = "preset" =>
    rows[i].preset \in PresetId /\ ~RepeatsPreset(rows, i) /\ ~CarriesWindows(rows[i])

-----------------------------------------------------------------------------
(* The winner at a moment *)

Clock == (0..6) \X Minute

\* Mutant: the end of a window belongs to it.
ContainsWindowClosed(w, clock) ==
  /\ w.days = {} \/ clock[1] \in w.days
  /\ IF w.start <= w.end THEN w.start <= clock[2] /\ clock[2] <= w.end
                         ELSE w.start <= clock[2] \/ clock[2] <= w.end

\* The end is exclusive; a window whose start lies after its end wraps midnight,
\* under the day mask of the moment itself.
ContainsWindow(w, clock) ==
  /\ w.days = {} \/ clock[1] \in w.days
  /\ IF w.start <= w.end THEN w.start <= clock[2] /\ clock[2] < w.end
                         ELSE w.start <= clock[2] \/ clock[2] < w.end

Described(row) ==
  /\ row.chain # <<>>
  /\ \/ row.kind = "preset" /\ row.preset \in PresetId /\ ~CarriesWindows(row)
     \/ row.kind = "custom" /\ IsTime(row.start) /\ IsTime(row.end)

DescribeRow(row) ==
  IF row.kind = "preset" THEN PRESETS[row.preset]
  ELSE [windows |-> {Window(row.start, row.end, row.days)}, complement |-> FALSE]

Matches(row, clock) ==
  LET d == DescribeRow(row)
      within == \E w \in d.windows : ContainsWindow(w, clock)
  IN IF d.complement THEN ~within ELSE within

\* A repeated preset is skipped even when the first row of it was malformed.
Eligible(rows, i, clock) ==
  ~RepeatsPreset(rows, i) /\ Described(rows[i]) /\ Matches(rows[i], clock)

\* The first eligible row in stored order wins; 0 is the all-day chain.
ResolveSlotState(root, rows, clock) ==
  LET hits == {i \in DOMAIN rows : Eligible(rows, i, clock)} IN
  IF ~IsAllDayConforming(root) \/ hits = {} THEN 0
  ELSE CHOOSE i \in hits : \A j \in hits : i <= j
=============================================================================
