-------------------------------- MODULE Scan --------------------------------
(***************************************************************************)
(* One keys_scan after another (keyboard/keys/scan.c): the rows of the      *)
(* left half are driven one by one over GPIO, then the columns of the right *)
(* half over I2C through a MCP23017 port expander, whose cable may be       *)
(* pulled and put back, and whose transfers may fail, at any moment.        *)
(* What debounce() makes of a sample is the subject of Debounce.            *)
(***************************************************************************)
EXTENDS Naturals, Sequences, FiniteSets

CONSTANTS
  Rows,          \* ROWS
  LeftColumns,   \* LEFT_COLUMNS
  Columns,       \* COLUMNS; those from LeftColumns on are the right half's
  IoconColumns,  \* columns of port A whose bit is set in IOCON's value 0xA0
  Fingers        \* bound: keys that are closed at the same time

Row == 0 .. Rows - 1
LeftColumn == 0 .. LeftColumns - 1
RightColumn == LeftColumns .. Columns - 1
Key == Row \X (0 .. Columns - 1)

\* Column 7 is bit 7 of port B, the others are on port A, from bit 7 (which is
\* the BANK bit when the address is that of IOCON) down to bit 0.
ColumnB == LeftColumns
ColumnsA == RightColumn \ {ColumnB}
BankColumn == LeftColumns + 1

ASSUME SizeAssumption ==
  /\ Rows \in Nat \ {0} /\ LeftColumns \in Nat \ {0} /\ Columns \in Nat
  /\ Columns > LeftColumns + 1 /\ Fingers \in Nat
ASSUME IoconAssumption == BankColumn \in IoconColumns /\ IoconColumns \subseteq ColumnsA

VARIABLES
  closed,        \* the keys whose contact is closed
  cable,         \* the right half is plugged in
  raised,        \* left rows driven high
  charged,       \* left column lines that are still high from the row before
  chip,          \* the expander's registers
  disconnected,  \* keys_scan_right_side_disconnected
  pc, at         \* where the scan is: its phase, and the row, column or write

(* History variables. *)
VARIABLES
  down,    \* the keys the last row or column read as closed
  warm,    \* the left half has been scanned once
  met,     \* left columns on which this scan has read a closed contact
  unseen   \* the expander lost its registers and no transfer failed since

matrix == <<closed, cable>>
left == <<raised, charged, warm, met>>
right == <<chip, disconnected, unseen>>
vars == <<matrix, left, right, pc, at, down>>

-----------------------------------------------------------------------------
(* The expander.  An address means one register or another depending on the *)
(* BANK bit: 0x0A is IOCON in bank 0, and OLATA in bank 1.                  *)

PowerOn == [bank |-> 0, dira |-> FALSE, dirb |-> FALSE, pull |-> FALSE, high |-> {}]

Written(e, reg, value) ==
  CASE reg = "0A" /\ e.bank = 0 -> [e EXCEPT !.bank = IF BankColumn \in value THEN 1 ELSE 0]
    [] reg = "0A" /\ e.bank = 1 -> [e EXCEPT !.high = (@ \ ColumnsA) \cup value]
    [] reg = "00"               -> [e EXCEPT !.dira = TRUE]
    [] reg = "10" /\ e.bank = 1 -> [e EXCEPT !.dirb = TRUE]
    [] reg = "16" /\ e.bank = 1 -> [e EXCEPT !.pull = TRUE]
    [] reg = "1A" /\ e.bank = 1 -> [e EXCEPT !.high = (@ \ {ColumnB}) \cup value]
    [] OTHER                    -> e

\* dira: port A all outputs; dirb: port B rows inputs, column 7 output.
Configured(e) == e.bank = 1 /\ e.dira /\ e.dirb /\ e.pull

Low(e) == {c \in RightColumn : c \notin e.high /\ IF c = ColumnB THEN e.dirb ELSE e.dira}

\* What reading GPIOB may give: a row is low when a key of it closes to a low
\* column.  Nothing is known of pins that float or of an address without a
\* register.
RowsReadable(e) ==
  IF Configured(e) THEN {{r \in Row : \E c \in Low(e) : <<r, c>> \in closed}}
                   ELSE SUBSET Row

(* The operators named ...Mutant are wrong on purpose: a plausible slip in the *)
(* operator after them, which one of the properties must notice.               *)

\* The writes of setup_right_side, in order.
SetupWritesMutant ==
  << <<"0A", IoconColumns>>, <<"00", {}>>, <<"10", {}>>, <<"16", {}>>,
     <<"16", {}>>, <<"1A", {ColumnB}>> >>
SetupWrites ==
  << <<"0A", IoconColumns>>, <<"00", {}>>, <<"10", {}>>, <<"16", {}>>,
     <<"0A", ColumnsA>>, <<"1A", {ColumnB}>> >>

Cleared(c) == IF c = ColumnB THEN Written(chip, "1A", {})
                             ELSE Written(chip, "0A", ColumnsA \ {c})
RaisedAgainMutant(c) ==
  IF c = ColumnB THEN Written(chip, "1A", {ColumnB})
                 ELSE Written(chip, "0A", ColumnsA \ {c})
RaisedAgain(c) == IF c = ColumnB THEN Written(chip, "1A", {ColumnB})
                                 ELSE Written(chip, "0A", ColumnsA)

InSetup == pc \in {"boot", "setup"}

\* The registers when the transfer the scan is at has reached the expander.
Transferred ==
  CASE InSetup     -> Written(chip, SetupWrites[at][1], SetupWrites[at][2])
    [] pc = "clear" -> Cleared(at)
    [] pc = "read"  -> chip
    [] pc = "set"   -> RaisedAgain(at)
-----------------------------------------------------------------------------

\* keys_scan_setup drives every left row high and begins to set up the right
\* half, where the expander has just got its power, if it is there.
Init ==
  /\ closed = {} /\ cable \in BOOLEAN
  /\ raised = Row /\ charged = {} /\ warm = FALSE /\ met = {}
  /\ chip = PowerOn /\ disconnected = TRUE /\ unseen = FALSE
  /\ pc = "boot" /\ at = 1 /\ down = {}

KeyMoves(k) ==
  /\ closed' = IF k \in closed THEN closed \ {k} ELSE closed \cup {k}
  /\ Cardinality(closed') <= Fingers
  /\ UNCHANGED <<cable, left, right, pc, at, down>>

Unplug ==
  /\ cable
  /\ cable' = FALSE
  /\ UNCHANGED <<closed, left, right, pc, at, down>>

\* The expander comes back with its power-on registers, in the middle of a setup
\* or of a scan included.
Plug ==
  /\ ~cable
  /\ cable' = TRUE /\ chip' = PowerOn
  /\ unseen' = (~disconnected \/ (InSetup /\ at > 1))
  /\ UNCHANGED <<closed, left, disconnected, pc, at, down>>

-----------------------------------------------------------------------------
(* keys_scan_left *)

ScanStart ==
  /\ pc = "idle"
  /\ pc' = "left" /\ at' = 0 /\ charged' = {} /\ down' = {} /\ met' = {}
  /\ UNCHANGED <<matrix, raised, warm, right>>

\* Whether the wait for the lines to drain is compiled in or not, it is never
\* executed: any_state_active is 0 for every row.
DriveRow == raised \cup {at}
AfterRowMutant == DriveRow
AfterRow == DriveRow \ {at}

\* keys_scan_right tries to set the half up again in every scan.
SetsUpAgainMutant == disconnected /\ ~warm
SetsUpAgain == disconnected

ScanLeftRow ==
  /\ pc = "left"
  /\ LET high == {c \in LeftColumn :
                    c \in charged \/ \E r \in DriveRow : <<r, c>> \in closed}
     IN /\ down' = {at} \X high
        /\ charged' \in SUBSET high
  /\ met' = met \cup {c \in LeftColumn : <<at, c>> \in closed}
  /\ raised' = AfterRow
  /\ IF at + 1 < Rows
       THEN at' = at + 1 /\ UNCHANGED <<pc, warm>>
       ELSE /\ warm' = TRUE
            /\ pc' = IF SetsUpAgain THEN "setup" ELSE "clear"
            /\ at' = IF SetsUpAgain THEN 1 ELSE LeftColumns
  /\ UNCHANGED <<matrix, right>>

-----------------------------------------------------------------------------
(* setup_right_side and keys_scan_right, one transfer at a time *)

SetupWrite ==
  /\ InSetup /\ cable
  /\ chip' = Transferred
  /\ IF at < Len(SetupWrites)
       THEN at' = at + 1 /\ UNCHANGED <<disconnected, pc>>
       ELSE /\ disconnected' = FALSE
            /\ pc' = IF pc = "boot" THEN "idle" ELSE "clear"
            /\ at' = LeftColumns
  /\ UNCHANGED <<matrix, left, unseen, down>>

ClearColumn ==
  /\ pc = "clear" /\ cable
  /\ chip' = Transferred /\ pc' = "read"
  /\ UNCHANGED <<matrix, left, disconnected, unseen, at, down>>

ReadColumn ==
  /\ pc = "read" /\ cable
  /\ \E rows \in RowsReadable(chip) : down' = rows \X {at}
  /\ pc' = "set"
  /\ UNCHANGED <<matrix, left, right, at>>

MoreColumnsMutant == at < Columns
MoreColumns == at + 1 < Columns

SetColumn ==
  /\ pc = "set" /\ cable
  /\ chip' = Transferred
  /\ pc' = IF MoreColumns THEN "clear" ELSE "idle"
  /\ at' = at + 1
  /\ UNCHANGED <<matrix, left, disconnected, unseen, down>>

\* A time-out or an error bit ends the scan and sets the flag.  The expander may have taken the bytes or not.
TransferFails ==
  /\ pc \in {"boot", "setup", "clear", "read", "set"}
  /\ chip' \in {chip} \cup IF cable THEN {Transferred} ELSE {}
  /\ disconnected' = TRUE /\ unseen' = FALSE
  /\ pc' = "idle" /\ at' = 0
  /\ UNCHANGED <<matrix, left, down>>

ScanStep ==
  \/ ScanStart \/ ScanLeftRow
  \/ SetupWrite \/ ClearColumn \/ ReadColumn \/ SetColumn
  \/ TransferFails

Next ==
  \/ \E k \in Key : KeyMoves(k)
  \/ Unplug
  \/ Plug
  \/ ScanStep

Spec == Init /\ [][Next]_vars

\* hid_poll samples for ever while the host takes the reports, and no transfer
\* waits longer than TIMEOUT_MS.
FairSpec == Spec /\ WF_vars(ScanStep)
-----------------------------------------------------------------------------
(* Properties *)

\* Ranges of the variables; in particular the loop variables stay within the
\* matrix and the list of set-up writes.
TypeOK ==
  /\ closed \subseteq Key /\ cable \in BOOLEAN
  /\ raised \subseteq Row /\ charged \subseteq LeftColumn /\ warm \in BOOLEAN
  /\ met \subseteq LeftColumn
  /\ chip \in [bank : {0, 1}, dira : BOOLEAN, dirb : BOOLEAN, pull : BOOLEAN,
               high : SUBSET RightColumn]
  /\ disconnected \in BOOLEAN /\ unseen \in BOOLEAN
  /\ \/ pc = "idle" /\ at \in {0, LeftColumns, Columns}
     \/ pc = "left" /\ at \in Row
     \/ InSetup /\ at \in 1 .. Len(SetupWrites)
     \/ pc \in {"clear", "read", "set"} /\ at \in RightColumn
  /\ down \subseteq Key

\* While the flag says that the right half is there, the last scan has read all of
\* its columns, its expander is set up and drives no column low but the one being
\* read, whatever failed before and whichever bank the set-up found the expander
\* in.  (A half that was pulled and put back between two transfers goes unseen.)
ReadyWhenConnected ==
  ~disconnected =>
    /\ pc = "idle" /\ warm => at = Columns
    /\ ~unseen =>
         /\ Configured(chip)
         /\ Low(chip) = IF pc \in {"read", "set"} THEN {at} ELSE {}

\* Reading a column of the right half gives the contacts of that column alone.
RightReadsOwnColumn ==
  [][ReadColumn /\ ~unseen => down' = closed \cap (Row \X {at})]_vars

\* A row of the left half shows the contacts of that row, or else a ghost: its column
\* line has not drained since the row before, which read it high.  The code means to
\* wait for the lines (scan.c:315) and never does (scan.c:318), so ghosts happen, one
\* row after another.  What still holds is that no closed contact is missed and that,
\* from the second scan on, every ghost comes down an unbroken column from a contact
\* that this very scan has read as closed: no other row is driven, and no scan sees
\* the lines of the scan before.
GhostsTraced ==
  [][ScanLeftRow =>
       /\ closed \cap ({at} \X LeftColumn) \subseteq down'
       /\ warm => \A k \in down' \ closed :
                    at > 0 /\ <<at - 1, k[2]>> \in down /\ k[2] \in met]_vars

\* Once the cable stays in and no transfer fails any more, the right half comes
\* back and stays, whatever state its expander was left in.
HalfComesBack ==
  <>[]cable /\ <>[][~TransferFails]_vars => <>[](~disconnected)
=============================================================================
