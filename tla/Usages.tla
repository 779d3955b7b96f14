------------------------------- MODULE Usages -------------------------------
(***************************************************************************)
(* From the keys that are down to the two reports of a sample: the usage    *)
(* list that keys_populate_hid_usage_list (keyboard/keys.c) fills, its      *)
(* shifted-key post-processing, and the two populate functions of           *)
(* keyboard/hid.c.  What a key means is the subject of Layers, which step   *)
(* of a sequence is played that of Sequence.                                *)
(***************************************************************************)
EXTENDS Sequences, FiniteSetsExt

CONSTANTS
  Controls,      \* the usages of the Control, Alt and GUI keys
  LeftShift, RightShift,
  Ordinary,      \* the other usages of the keyboard page
  Consumers,     \* the usages of the consumer page
  NONE,          \* an entry of the list with page and id 0
  ROLLOVER,      \* ErrorRollOver, in a slot of the boot report
  BootKeys,      \* KEYBOARD_PAGE_MAX
  ConsumerKeys,  \* CONSUMER_DEVICES_PAGE_MAX
  Keys,
  Shifted,       \* the keys that the keymap gives a shifted usage
  UsageOf,       \* the usage of every key
  Steps          \* what a sequence may add to a sample, <<>> included

Shifts == {LeftShift, RightShift}
Modifiers == Controls \cup Shifts
Usage == Modifiers \cup Ordinary \cup Consumers

\* MAX_HID_USAGE_KEYS: KEYBOARD_MODIFIERS_MAX is the number of modifiers.
Slots == Cardinality(Modifiers) + BootKeys + ConsumerKeys

ASSUME UsageAssumption ==
  /\ IsFiniteSet(Usage) /\ NONE \notin Usage /\ ROLLOVER \notin Usage \cup {NONE}
  /\ Controls \cap Shifts = {} /\ LeftShift # RightShift
  /\ Modifiers \cap Ordinary = {} /\ (Modifiers \cup Ordinary) \cap Consumers = {}
ASSUME SlotAssumption == BootKeys \in Nat \ {0} /\ ConsumerKeys \in Nat \ {0}
\* No two keys are the same modifier; both halves have a space bar.
ASSUME KeyAssumption ==
  /\ IsFiniteSet(Keys) /\ UsageOf \in [Keys -> Usage]
  /\ \A k \in Shifted : k \in Keys /\ UsageOf[k] \in Ordinary
  /\ \A k, l \in Keys : UsageOf[k] = UsageOf[l] /\ UsageOf[k] \in Modifiers => k = l
ASSUME StepAssumption == <<>> \in Steps /\ Steps \subseteq Seq(Usage)

VARIABLES
  hid_usage_list,   \* Slots entries
  do_shifted,       \* do_shifted_keyboard_keypad_update
  scanning          \* keys_scan is calling back

(* History variables. *)
VARIABLES
  step,   \* what the sequence added to this sample
  down    \* the keys called back for in this sample

vars == <<hid_usage_list, do_shifted, scanning, step, down>>

-----------------------------------------------------------------------------
(* The list *)

(* The operators named ...Mutant are wrong on purpose: a plausible slip in the *)
(* operator after them, which one of the properties must notice.               *)

Empty == [i \in 1 .. Slots |-> NONE]

\* The entries of a list that hold a usage of S.
Positions(list, S) == {i \in DOMAIN list : list[i] \in S}
Has(list, u) == Positions(list, {u}) # {}

\* hid_usage_list_add: the first free entry; a full list drops the usage.
AddMutant(list, u) ==
  IF Has(list, NONE) THEN [list EXCEPT ![Min(Positions(list, {NONE}))] = u]
                     ELSE Append(list, u)
Add(list, u) ==
  IF Has(list, NONE) THEN [list EXCEPT ![Min(Positions(list, {NONE}))] = u] ELSE list

\* hid_usage_list_remove: the first entry only, which leaves a hole.
Taken(list, u) ==
  IF Has(list, u) THEN [list EXCEPT ![Min(Positions(list, {u}))] = NONE] ELSE list

\* What adding the usages of a step in turn makes of an empty list.
Played(s) == [i \in 1 .. Slots |-> IF i <= Len(s) THEN s[i] ELSE NONE]

\* shifted_keyboard_keypad_update
InvertMutant(list) ==
  IF Has(list, LeftShift) THEN Taken(list, LeftShift) ELSE Add(list, LeftShift)
Invert(list) ==
  IF Has(list, LeftShift) \/ Has(list, RightShift)
  THEN Taken(Taken(list, LeftShift), RightShift) ELSE Add(list, LeftShift)

ShiftUpdated(list) ==
  IF \E u \in Controls : Has(list, u) THEN list ELSE Invert(list)

-----------------------------------------------------------------------------
(* The reports: populate_hid_in_report_boot, populate_hid_in_report_extra *)

\* What the populate functions look at: all entries, holes or not.
EntriesMutant ==
  [i \in {j \in 1 .. Slots : \A h \in 1 .. j : hid_usage_list[h] # NONE} |-> hid_usage_list[i]]
Entries == hid_usage_list

KeysListed == Positions(Entries, Ordinary)
ConsumersListed == Positions(Entries, Consumers)

TooManyMutant == Cardinality(KeysListed) >= BootKeys
TooMany == Cardinality(KeysListed) > BootKeys

\* The slots of a report are filled in the order of the list: here a slot is named by
\* the entry that fills it.
hid_in_report_boot ==
  [modifiers |-> Range(Entries) \cap Modifiers,
   keys |-> IF TooMany THEN [i \in 1 .. BootKeys |-> ROLLOVER]
                       ELSE [i \in KeysListed |-> Entries[i]]]

\* The first consumer keys; the others are dropped without a sign.
hid_in_report_extra ==
  LET before(i) == {j \in ConsumersListed : j < i}
  IN  [i \in {j \in ConsumersListed : Cardinality(before(j)) < ConsumerKeys} |-> Entries[i]]

-----------------------------------------------------------------------------

Init ==
  /\ hid_usage_list = Empty /\ do_shifted = FALSE /\ scanning = FALSE
  /\ step = <<>> /\ down = {}

\* keys_populate_hid_usage_list up to the scan: the list is cleared and the
\* sequence that plays, if any, adds the usages of its step.
Start ==
  /\ ~scanning /\ scanning' = TRUE
  /\ step' \in Steps
  /\ hid_usage_list' = Played(step')
  /\ do_shifted' = FALSE /\ down' = {}

\* key_event_callback for a key that is down, in the order of the matrix, which
\* says nothing about what the keys are.
KeyDown(k) ==
  /\ scanning /\ k \notin down
  /\ down' = down \cup {k}
  /\ hid_usage_list' = Add(hid_usage_list, UsageOf[k])
  /\ do_shifted' = (do_shifted \/ k \in Shifted)
  /\ UNCHANGED <<scanning, step>>

\* The end of the scan; the reports are populated from the list as it is now.
Finish ==
  /\ scanning /\ scanning' = FALSE
  /\ hid_usage_list' = IF do_shifted THEN ShiftUpdated(hid_usage_list) ELSE hid_usage_list
  /\ UNCHANGED <<do_shifted, step, down>>

Next ==
  \/ Start
  \/ \E k \in Keys : KeyDown(k)
  \/ Finish

Spec == Init /\ [][Next]_vars
-----------------------------------------------------------------------------
(* Properties *)

TypeOK ==
  /\ hid_usage_list \in [1 .. Slots -> Usage \cup {NONE}]
  /\ do_shifted \in BOOLEAN /\ scanning \in BOOLEAN
  /\ step \in Steps /\ down \subseteq Keys

\* What is wanted of a sample: usages, and how many keys and steps want one of them.
Wanted == Range(step) \cup {UsageOf[k] : k \in down}
Many(S) == Cardinality({k \in down : UsageOf[k] \in S})
           + Cardinality(Positions(step, S))

Fits ==
  /\ Many(Ordinary) <= BootKeys /\ Many(Consumers) <= ConsumerKeys
  /\ Many(Modifiers) <= Cardinality(Modifiers)

\* Within the capacity of the two reports they say exactly what is down and what
\* the sequence plays: nothing is lost to the list, to its holes, or to the order
\* of the keys.  (The shift bits are the subject of ShiftInverted.)
ReportExact ==
  ~scanning /\ Fits =>
    /\ Range(hid_in_report_boot.keys) = Wanted \cap Ordinary
    /\ Cardinality(DOMAIN hid_in_report_boot.keys) = Many(Ordinary)
    /\ hid_in_report_boot.modifiers \ Shifts = Wanted \cap Controls
    /\ Range(hid_in_report_extra) = Wanted \cap Consumers

\* Too many ordinary keys are reported as such, and only then, although the list may
\* have dropped some of them: it has room for one more than the report as long as
\* not every other entry is taken as well.
RolloverShown ==
  ~scanning /\ Many(Modifiers \cup Consumers) < Cardinality(Modifiers) + ConsumerKeys =>
    (ROLLOVER \in Range(hid_in_report_boot.keys) <=> Many(Ordinary) > BootKeys)

\* A shifted key turns the shift of its sample around, wherever in the matrix the
\* shift keys are, and leaves it alone next to Control, Alt or GUI.  (It can not
\* when both a finger and the sequence hold the same shift.)
ShiftInverted ==
  ~scanning /\ Fits /\ (\A u \in Shifts : Many({u}) <= 1) =>
    hid_in_report_boot.modifiers \cap Shifts =
      IF do_shifted /\ Wanted \cap Controls = {}
      THEN (IF Wanted \cap Shifts = {} THEN {LeftShift} ELSE {})
      ELSE Wanted \cap Shifts
=============================================================================
