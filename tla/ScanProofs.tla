----------------------------- MODULE ScanProofs -----------------------------
(***************************************************************************)
(* Proofs about Scan, for a matrix of any size: the right half is set up    *)
(* whenever the flag says that it is there, and a column of it that is read *)
(* is the only one that is driven.                                          *)
(***************************************************************************)
EXTENDS Scan, TLAPS

LEMMA Sizes ==
  /\ ColumnB \in RightColumn /\ ColumnsA \subseteq RightColumn
  /\ ColumnB \notin ColumnsA /\ ColumnsA \cup {ColumnB} = RightColumn
  /\ IoconColumns \subseteq RightColumn /\ BankColumn \in IoconColumns
  /\ LeftColumns \in RightColumn /\ 0 \in Row
  BY SizeAssumption, IoconAssumption
     DEF ColumnB, ColumnsA, RightColumn, BankColumn, Row

LEMMA Writes ==
  /\ Len(SetupWrites) = 6
  /\ SetupWrites[1] = <<"0A", IoconColumns>>
  /\ SetupWrites[2] = <<"00", {}>>
  /\ SetupWrites[3] = <<"10", {}>>
  /\ SetupWrites[4] = <<"16", {}>>
  /\ SetupWrites[5] = <<"0A", ColumnsA>>
  /\ SetupWrites[6] = <<"1A", {ColumnB}>>
  BY DEF SetupWrites

Registers == [bank : {0, 1}, dira : BOOLEAN, dirb : BOOLEAN, pull : BOOLEAN,
              high : SUBSET RightColumn]

Value == SUBSET RightColumn

\* A write leaves registers, whatever its address and value.
LEMMA WrittenType ==
  ASSUME NEW e \in Registers, NEW reg, NEW value \in Value
  PROVE  Written(e, reg, value) \in Registers
  BY Sizes DEF Registers, Value, Written

\* So does the transfer a scan is at.
LEMMA TransferredType ==
  ASSUME TypeOK, pc \in {"boot", "setup", "clear", "read", "set"}
  PROVE  Transferred \in Registers
<1>1. chip \in Registers
  BY DEF TypeOK, Registers
<1>2. CASE InSetup
  <2>1. at \in 1 .. 6
    BY <1>2, Writes DEF TypeOK, InSetup
  <2>2. SetupWrites[at][2] \in Value
    BY <2>1, Writes, Sizes DEF Value
  <2>3. Written(chip, SetupWrites[at][1], SetupWrites[at][2]) \in Registers
    BY <1>1, <2>2, WrittenType
  <2> QED
    BY <1>2, <2>3 DEF Transferred, InSetup
<1>3. CASE pc = "clear"
  <2>1. {} \in Value /\ ColumnsA \ {at} \in Value
    BY Sizes DEF Value
  <2> QED
    BY <1>1, <1>3, <2>1, WrittenType DEF Transferred, Cleared, InSetup
<1>4. CASE pc = "read"
  BY <1>1, <1>4 DEF Transferred, InSetup
<1>5. CASE pc = "set"
  <2>1. {ColumnB} \in Value /\ ColumnsA \in Value
    BY Sizes DEF Value
  <2> QED
    BY <1>1, <1>5, <2>1, WrittenType DEF Transferred, RaisedAgain, InSetup
<1> QED
  BY <1>2, <1>3, <1>4, <1>5 DEF InSetup

-----------------------------------------------------------------------------
(* The type invariant *)

LEMMA InitType == Init => TypeOK
<1> SUFFICES ASSUME Init PROVE TypeOK
  OBVIOUS
<1>1. chip \in Registers
  BY DEF Init, PowerOn, Registers
<1>2. InSetup /\ at \in 1 .. Len(SetupWrites)
  BY Writes DEF Init, InSetup
<1> QED
  BY <1>1, <1>2 DEF Init, TypeOK, Registers

LEMMA LeftRowType ==
  ASSUME TypeOK, ScanLeftRow
  PROVE  TypeOK'
<1>1. at \in Row /\ pc = "left"
  BY DEF TypeOK, ScanLeftRow, InSetup
<1>2. PICK high \in SUBSET LeftColumn : down' = {at} \X high /\ charged' \in SUBSET high
  BY DEF ScanLeftRow
<1>3. down' \subseteq Key
  <2>1. high \subseteq 0 .. Columns - 1
    BY <1>2, SizeAssumption DEF LeftColumn
  <2>2. {at} \X high \subseteq Key
    BY <1>1, <2>1 DEF Key
  <2> QED
    BY <1>2, <2>2
<1>4. raised' \subseteq Row
  BY <1>1 DEF TypeOK, ScanLeftRow, AfterRow, DriveRow
<1>5. CASE at + 1 < Rows
  <2>1. at' \in Row /\ pc' = "left" /\ warm' = warm
    BY <1>1, <1>5, SizeAssumption DEF ScanLeftRow, Row
  <2> QED
    BY <1>2, <1>3, <1>4, <2>1 DEF TypeOK, ScanLeftRow, matrix, right, InSetup
<1>6. CASE ~(at + 1 < Rows)
  <2>1. warm' = TRUE /\ \/ pc' = "setup" /\ at' = 1
                        \/ pc' = "clear" /\ at' = LeftColumns
    BY <1>6 DEF ScanLeftRow
  <2>2. \/ pc' \in {"boot", "setup"} /\ at' \in 1 .. Len(SetupWrites)
        \/ pc' \in {"clear", "read", "set"} /\ at' \in RightColumn
    BY <2>1, Sizes, Writes
  <2> QED
    BY <1>2, <1>3, <1>4, <2>1, <2>2 DEF TypeOK, ScanLeftRow, matrix, right, InSetup
<1> QED
  BY <1>5, <1>6

LEMMA SetupWriteType ==
  ASSUME TypeOK, SetupWrite
  PROVE  TypeOK'
<1>1. chip' \in Registers
  BY TransferredType DEF SetupWrite, InSetup
<1>2. at \in 1 .. 6
  BY Writes DEF TypeOK, SetupWrite, InSetup
<1>3. CASE at < Len(SetupWrites)
  <2>1. at' \in 1 .. Len(SetupWrites) /\ pc' = pc /\ disconnected' = disconnected
    BY <1>2, <1>3, Writes DEF SetupWrite
  <2> QED
    BY <1>1, <2>1 DEF TypeOK, SetupWrite, matrix, left, InSetup, Registers
<1>4. CASE ~(at < Len(SetupWrites))
  <2>1. at' = LeftColumns /\ pc' \in {"idle", "clear"} /\ disconnected' = FALSE
    BY <1>4 DEF SetupWrite
  <2> QED
    BY <1>1, <2>1, Sizes DEF TypeOK, SetupWrite, matrix, left, InSetup, Registers
<1> QED
  BY <1>3, <1>4

LEMMA ColumnStepType ==
  ASSUME TypeOK, ClearColumn \/ ReadColumn \/ SetColumn
  PROVE  TypeOK'
<1>1. at \in RightColumn /\ ~InSetup
  BY DEF TypeOK, ClearColumn, ReadColumn, SetColumn, InSetup
<1>2. CASE ClearColumn
  <2>1. chip' \in Registers
    BY <1>2, TransferredType DEF ClearColumn
  <2> QED
    BY <1>1, <1>2, <2>1 DEF TypeOK, ClearColumn, matrix, left, InSetup, Registers
<1>3. CASE ReadColumn
  <2>1. PICK rows \in RowsReadable(chip) : down' = rows \X {at}
    BY <1>3 DEF ReadColumn
  <2>2. rows \subseteq Row
    BY <2>1 DEF RowsReadable
  <2>3. at \in 0 .. Columns - 1
    BY <1>1, SizeAssumption DEF RightColumn
  <2>4. down' \subseteq Key
    BY <2>1, <2>2, <2>3 DEF Key
  <2> QED
    BY <1>1, <1>3, <2>4 DEF TypeOK, ReadColumn, matrix, left, right, InSetup
<1>4. CASE SetColumn
  <2>1. chip' \in Registers
    BY <1>4, TransferredType DEF SetColumn
  <2>2. \/ pc' = "clear" /\ at' \in RightColumn
        \/ pc' = "idle" /\ at' = Columns
    BY <1>1, <1>4, SizeAssumption DEF SetColumn, MoreColumns, RightColumn
  <2> QED
    BY <1>4, <2>1, <2>2 DEF TypeOK, SetColumn, matrix, left, InSetup, Registers
<1> QED
  BY <1>2, <1>3, <1>4

LEMMA StepType ==
  ASSUME TypeOK, [Next]_vars
  PROVE  TypeOK'
<1>1. ASSUME NEW k \in Key, KeyMoves(k) PROVE TypeOK'
  <2>1. closed' \subseteq Key
    BY <1>1 DEF KeyMoves, TypeOK
  <2> QED
    BY <1>1, <2>1 DEF KeyMoves, TypeOK, left, right, InSetup
<1>2. CASE Unplug
  BY <1>2 DEF Unplug, TypeOK, left, right, InSetup
<1>3. CASE Plug
  <2>1. chip' \in Registers
    BY <1>3 DEF Plug, PowerOn, Registers
  <2>2. unseen' \in BOOLEAN
    BY <1>3 DEF Plug
  <2> QED
    BY <1>3, <2>1, <2>2 DEF Plug, TypeOK, left, InSetup, Registers
<1>4. CASE ScanStart
  BY <1>4, Sizes DEF ScanStart, TypeOK, matrix, right, InSetup
<1>5. CASE ScanLeftRow
  BY <1>5, LeftRowType
<1>6. CASE SetupWrite
  BY <1>6, SetupWriteType
<1>7. CASE ClearColumn \/ ReadColumn \/ SetColumn
  BY <1>7, ColumnStepType
<1>8. CASE TransferFails
  <2>1. chip' \in Registers
    BY <1>8, TransferredType DEF TransferFails, TypeOK, Registers
  <2>2. pc' = "idle" /\ at' = 0 /\ disconnected' = TRUE /\ unseen' = FALSE
    BY <1>8 DEF TransferFails
  <2> QED
    BY <1>8, <2>1, <2>2 DEF TransferFails, TypeOK, matrix, left, InSetup, Registers
<1>9. CASE UNCHANGED vars
  BY <1>9 DEF vars, matrix, left, right, TypeOK, InSetup
<1> QED
  BY <1>1, <1>2, <1>3, <1>4, <1>5, <1>6, <1>7, <1>8, <1>9 DEF Next, ScanStep

\* The loops of keys_scan stay within the matrix, and the variables in range.
THEOREM TypeCorrect == Spec => []TypeOK
  BY InitType, StepType, PTL DEF Spec

-----------------------------------------------------------------------------
(* The expander is set up while the flag says so.  The strengthening says what *)
(* the set-up has achieved before each of its writes: the first one reaches    *)
(* IOCON or OLATA depending on the bank, and the fifth repairs the latter.     *)

SetUpTo(n) ==
  /\ n > 1 => chip.bank = 1
  /\ n > 2 => chip.dira
  /\ n > 3 => chip.dirb
  /\ n > 4 => chip.pull
  /\ n > 5 => ColumnsA \subseteq chip.high

Driving == IF pc \in {"read", "set"} THEN {at} ELSE {}

\* Low(chip) = Driving, said of the latches.
Latched == chip.high = RightColumn \ Driving

\* A scan that ended without a failure has read every column; there is no scan
\* before the first set-up ends.
ReadWhole ==
  /\ pc = "boot" => ~warm
  /\ ~disconnected /\ pc = "idle" /\ warm => at = Columns

ReadyInv ==
  /\ TypeOK
  /\ ReadWhole
  /\ InSetup => disconnected
  /\ pc \in {"clear", "read", "set"} => ~disconnected
  /\ InSetup /\ ~unseen => SetUpTo(at)
  /\ ~disconnected /\ ~unseen => Configured(chip) /\ Latched

LEMMA LatchedIsLow ==
  ASSUME TypeOK, Configured(chip), Latched
  PROVE  Low(chip) = Driving
<1>1. Driving \subseteq RightColumn
  BY DEF TypeOK, InSetup, Driving
<1>2. Low(chip) = RightColumn \ chip.high
  BY DEF Low, Configured
<1> QED
  BY <1>1, <1>2 DEF Latched

LEMMA ReadyImplied == ReadyInv => ReadyWhenConnected
  BY LatchedIsLow DEF ReadyInv, ReadyWhenConnected, Driving, ReadWhole

LEMMA ReadyInit == Init => ReadyInv
  BY InitType DEF Init, ReadyInv, SetUpTo, InSetup, ReadWhole

\* The six writes of the set-up, one by one.
LEMMA SetupWriteReady ==
  ASSUME ReadyInv, SetupWrite
  PROVE  ReadyInv'
<1>1. TypeOK'
  BY SetupWriteType DEF ReadyInv
<1>2. InSetup /\ at \in 1 .. 6 /\ disconnected /\ unseen' = unseen
  BY Writes DEF ReadyInv, TypeOK, SetupWrite, InSetup
<1>3. chip \in Registers
  BY DEF ReadyInv, TypeOK, Registers
<1>4. chip' = Written(chip, SetupWrites[at][1], SetupWrites[at][2])
  BY <1>2 DEF SetupWrite, Transferred, InSetup
<1>5. ReadWhole'
  BY <1>2 DEF ReadyInv, ReadWhole, SetupWrite, left, InSetup
<1>6. CASE unseen
  <2>1. unseen'
    BY <1>2, <1>6
  <2>2. InSetup' => disconnected'
    BY <1>2 DEF SetupWrite, InSetup
  <2>3. pc' \in {"clear", "read", "set"} => ~disconnected'
    BY <1>2 DEF SetupWrite, InSetup
  <2> QED
    BY <1>1, <1>5, <2>1, <2>2, <2>3 DEF ReadyInv
<1>7. CASE ~unseen /\ at < 6
  <2>1. at' = at + 1 /\ pc' = pc /\ disconnected' = disconnected
    BY <1>7, Writes DEF SetupWrite
  <2>2. SetUpTo(at)
    BY <1>2, <1>7 DEF ReadyInv
  <2>3. chip' \in Registers
    BY <1>1 DEF TypeOK, Registers
  <2>4. SetUpTo(at)'
    <3>1. CASE at = 1
      BY <1>3, <1>4, <2>1, <2>3, <3>1, Writes, Sizes DEF Written, Registers, SetUpTo
    <3>2. CASE at = 2
      BY <1>3, <1>4, <2>1, <2>2, <2>3, <3>2, Writes DEF Written, Registers, SetUpTo
    <3>3. CASE at = 3
      BY <1>3, <1>4, <2>1, <2>2, <2>3, <3>3, Writes DEF Written, Registers, SetUpTo
    <3>4. CASE at = 4
      BY <1>3, <1>4, <2>1, <2>2, <2>3, <3>4, Writes DEF Written, Registers, SetUpTo
    <3>5. CASE at = 5
      BY <1>3, <1>4, <2>1, <2>2, <2>3, <3>5, Writes DEF Written, Registers, SetUpTo
    <3> QED
      BY <1>2, <1>7, <3>1, <3>2, <3>3, <3>4, <3>5
  <2> QED
    BY <1>1, <1>2, <1>5, <2>1, <2>4 DEF ReadyInv, InSetup
<1>8. CASE ~unseen /\ at = 6
  <2>1. disconnected' = FALSE /\ pc' \in {"idle", "clear"}
    BY <1>8, Writes DEF SetupWrite
  <2>2. SetUpTo(6)
    BY <1>2, <1>8 DEF ReadyInv
  <2>3. chip' = [chip EXCEPT !.high = (chip.high \ {ColumnB}) \cup {ColumnB}]
    BY <1>3, <1>4, <1>8, <2>2, Writes DEF Written, Registers, SetUpTo
  <2>4. chip'.high = RightColumn
    BY <1>3, <2>2, <2>3, Sizes DEF Registers, SetUpTo
  <2>5. Configured(chip')
    BY <1>3, <2>2, <2>3 DEF Configured, Registers, SetUpTo
  <2> QED
    BY <1>1, <1>5, <2>1, <2>4, <2>5 DEF ReadyInv, Latched, Driving, InSetup
<1> QED
  BY <1>2, <1>6, <1>7, <1>8

LEMMA ClearColumnReady ==
  ASSUME ReadyInv, ClearColumn
  PROVE  ReadyInv'
<1>1. TypeOK'
  BY ColumnStepType DEF ReadyInv
<1>2. at \in RightColumn /\ ~disconnected /\ chip \in Registers
  BY DEF ReadyInv, TypeOK, ClearColumn, InSetup, Registers
<1>3. /\ pc' = "read" /\ at' = at /\ disconnected' = disconnected
      /\ unseen' = unseen
  BY DEF ClearColumn
<1>4. ASSUME ~unseen PROVE Configured(chip') /\ Latched'
  <2>1. Configured(chip) /\ chip.high = RightColumn
    BY <1>2, <1>4 DEF ReadyInv, Latched, Driving, ClearColumn
  <2>2. chip' = Cleared(at)
    BY DEF ClearColumn, Transferred, InSetup
  <2>3. Configured(chip') /\ chip'.high = RightColumn \ {at}
    <3>1. CASE at = ColumnB
      BY <1>2, <2>1, <2>2, <3>1, Sizes DEF Cleared, Written, Configured, Registers
    <3>2. CASE at # ColumnB
      BY <1>2, <2>1, <2>2, <3>2, Sizes DEF Cleared, Written, Configured, Registers
    <3> QED
      BY <3>1, <3>2
  <2> QED
    BY <1>3, <2>3 DEF Latched, Driving
<1> QED
  BY <1>1, <1>2, <1>3, <1>4 DEF ReadyInv, InSetup, ReadWhole

LEMMA SetColumnReady ==
  ASSUME ReadyInv, SetColumn
  PROVE  ReadyInv'
<1>1. TypeOK'
  BY ColumnStepType DEF ReadyInv
<1>2. at \in RightColumn /\ ~disconnected /\ chip \in Registers
  BY DEF ReadyInv, TypeOK, SetColumn, InSetup, Registers
<1>3. pc' \in {"clear", "idle"} /\ disconnected' = disconnected /\ unseen' = unseen
  BY DEF SetColumn
<1>4. ASSUME ~unseen PROVE Configured(chip') /\ Latched'
  <2>1. Configured(chip) /\ chip.high = RightColumn \ {at}
    BY <1>2, <1>4 DEF ReadyInv, Latched, Driving, SetColumn
  <2>2. chip' = RaisedAgain(at)
    BY DEF SetColumn, Transferred, InSetup
  <2>3. Configured(chip') /\ chip'.high = RightColumn
    <3>1. CASE at = ColumnB
      BY <1>2, <2>1, <2>2, <3>1, Sizes DEF RaisedAgain, Written, Configured, Registers
    <3>2. CASE at # ColumnB
      BY <1>2, <2>1, <2>2, <3>2, Sizes DEF RaisedAgain, Written, Configured, Registers
    <3> QED
      BY <3>1, <3>2
  <2> QED
    BY <1>3, <2>3 DEF Latched, Driving
<1>5. pc' = "idle" => at' = Columns
  BY <1>2, SizeAssumption DEF SetColumn, MoreColumns, RightColumn
<1>6. ReadWhole'
  BY <1>3, <1>5 DEF ReadWhole
<1> QED
  BY <1>1, <1>2, <1>3, <1>4, <1>6 DEF ReadyInv, InSetup

LEMMA ReadyStep ==
  ASSUME ReadyInv, [Next]_vars
  PROVE  ReadyInv'
<1>1. TypeOK'
  BY StepType DEF ReadyInv
<1> USE DEF Latched, Driving, ReadWhole
<1>2. ASSUME NEW k \in Key, KeyMoves(k) PROVE ReadyInv'
  BY <1>1, <1>2 DEF ReadyInv, KeyMoves, left, right, InSetup, SetUpTo
<1>3. CASE Unplug
  BY <1>1, <1>3 DEF ReadyInv, Unplug, left, right, InSetup, SetUpTo
<1>4. CASE Plug
  <2>1. /\ pc' = pc /\ at' = at /\ disconnected' = disconnected
        /\ unseen' = (~disconnected \/ (InSetup /\ at > 1)) /\ warm' = warm
    BY <1>4 DEF Plug, left
  <2>2. ~disconnected' => unseen'
    BY <2>1
  <2>3. InSetup' /\ ~unseen' => SetUpTo(at)'
    <3> SUFFICES ASSUME InSetup, ~unseen' PROVE SetUpTo(at)'
      BY <2>1 DEF InSetup
    <3>1. at = 1
      BY <2>1, Writes DEF ReadyInv, TypeOK, InSetup
    <3> QED
      BY <2>1, <3>1 DEF SetUpTo
  <2> QED
    BY <1>1, <2>1, <2>2, <2>3 DEF ReadyInv, InSetup
<1>5. CASE ScanStart
  BY <1>1, <1>5 DEF ReadyInv, ScanStart, right, InSetup
<1>6. CASE ScanLeftRow
  <2>1. /\ pc = "left" /\ chip' = chip /\ disconnected' = disconnected
        /\ unseen' = unseen
    BY <1>6 DEF ScanLeftRow, right
  <2>2. \/ pc' = "left"
        \/ pc' = "setup" /\ at' = 1 /\ disconnected
        \/ pc' = "clear" /\ ~disconnected
    BY <1>6, <2>1 DEF ScanLeftRow, SetsUpAgain
  <2> QED
    BY <1>1, <2>1, <2>2 DEF ReadyInv, InSetup, SetUpTo
<1>7. CASE SetupWrite
  BY <1>7, SetupWriteReady
<1>8. CASE ClearColumn
  BY <1>8, ClearColumnReady
<1>9. CASE ReadColumn
  BY <1>1, <1>9 DEF ReadyInv, ReadColumn, right, InSetup
<1>10. CASE SetColumn
  BY <1>10, SetColumnReady
<1>11. CASE TransferFails
  BY <1>1, <1>11 DEF ReadyInv, TransferFails, InSetup
<1>12. CASE UNCHANGED vars
  BY <1>1, <1>12 DEF ReadyInv, vars, left, right, InSetup, SetUpTo
<1> QED
  BY <1>2, <1>3, <1>4, <1>5, <1>6, <1>7, <1>8, <1>9, <1>10, <1>11, <1>12
     DEF Next, ScanStep

LEMMA AlwaysReadyInv == Spec => []ReadyInv
  BY ReadyInit, ReadyStep, PTL DEF Spec

\* Whatever transfer failed or cable came out before: while the flag says that
\* the right half is there, its last scan was whole and it is set up
\* (ReadyWhenConnected).
THEOREM Ready == Spec => []ReadyWhenConnected
  BY AlwaysReadyInv, ReadyImplied, PTL

\* A column of the right half that is read shows its own contacts and no others
\* (RightReadsOwnColumn).
THEOREM OwnColumn == Spec => RightReadsOwnColumn
<1>1. ASSUME ReadyInv, ReadColumn, ~unseen
      PROVE  down' = closed \cap (Row \X {at})
  <2>1. ~disconnected /\ at \in RightColumn /\ pc = "read"
    BY <1>1 DEF ReadyInv, TypeOK, ReadColumn, InSetup
  <2>2. Configured(chip) /\ Low(chip) = {at}
    BY <1>1, <2>1, ReadyImplied DEF ReadyWhenConnected
  <2>3. RowsReadable(chip) = {{r \in Row : <<r, at>> \in closed}}
    BY <2>2 DEF RowsReadable
  <2>4. down' = {r \in Row : <<r, at>> \in closed} \X {at}
    BY <1>1, <2>3 DEF ReadColumn
  <2> QED
    BY <2>4
<1>2. ReadyInv /\ [Next]_vars
        => [ReadColumn /\ ~unseen => down' = closed \cap (Row \X {at})]_vars
  BY <1>1
<1> QED
  BY <1>2, AlwaysReadyInv, PTL DEF Spec, RightReadsOwnColumn

-----------------------------------------------------------------------------
(* The left half.  Only the set-up drives more than one row; a line that is still *)
(* charged was read high in the row before, and after the first scan it owes its   *)
(* charge to a contact of its column that this scan has read.                      *)

LeftInv ==
  /\ warm => raised = {}
  /\ pc = "left" /\ ~warm => \A r \in raised : r >= at
  /\ pc = "left" => \A c \in charged : at > 0 /\ <<at - 1, c>> \in down
  /\ pc = "left" /\ warm => charged \subseteq met

LEMMA RowRead ==
  ASSUME TypeOK, ScanLeftRow
  PROVE  /\ at \in Row
         /\ \E high \in SUBSET LeftColumn :
              /\ high = {c \in LeftColumn :
                          c \in charged \/ \E r \in DriveRow : <<r, c>> \in closed}
              /\ down' = {at} \X high /\ charged' \subseteq high
         /\ raised' = raised \ {at}
         /\ met' = met \cup {c \in LeftColumn : <<at, c>> \in closed}
<1>1. at \in Row
  BY DEF TypeOK, ScanLeftRow, InSetup
<1>2. raised' = raised \ {at}
  BY DEF ScanLeftRow, AfterRow, DriveRow
<1> QED
  BY <1>1, <1>2 DEF ScanLeftRow

\* A row that is driven alone charges only columns that it, or the charge it found,
\* accounts for.
LEMMA ChargedMet ==
  ASSUME TypeOK, LeftInv, ScanLeftRow, warm
  PROVE  /\ charged' \subseteq met'
         /\ \A k \in down' \ closed : k[2] \in charged
<1>1. PICK high \in SUBSET LeftColumn :
        /\ high = {c \in LeftColumn :
                    c \in charged \/ \E r \in DriveRow : <<r, c>> \in closed}
        /\ down' = {at} \X high /\ charged' \subseteq high
  BY RowRead
<1>2. met' = met \cup {c \in LeftColumn : <<at, c>> \in closed}
  BY RowRead
<1>3. DriveRow = {at} /\ charged \subseteq met
  BY DEF LeftInv, DriveRow, ScanLeftRow
<1>4. \A c \in high : c \in charged \/ <<at, c>> \in closed
  BY <1>1, <1>3
<1>5. charged' \subseteq met'
  BY <1>1, <1>2, <1>3, <1>4
<1>6. ASSUME NEW k \in down' \ closed PROVE k[2] \in charged
  <2>1. PICK c \in high : k = <<at, c>>
    BY <1>1
  <2>2. c \in charged
    BY <1>4, <2>1
  <2> QED
    BY <2>1, <2>2
<1> QED
  BY <1>5, <1>6

LEMMA LeftRowLeft ==
  ASSUME TypeOK, LeftInv, ScanLeftRow
  PROVE  LeftInv'
<1>1. PICK high \in SUBSET LeftColumn : down' = {at} \X high /\ charged' \subseteq high
  BY RowRead
<1>2. at \in Row /\ raised' = raised \ {at} /\ raised \subseteq Row /\ pc = "left"
  BY RowRead DEF TypeOK, ScanLeftRow
<1>3. warm \in BOOLEAN /\ (warm => raised' = {})
  BY <1>2 DEF LeftInv, TypeOK
<1>4. ~warm => \A r \in raised' : r >= at + 1
  BY <1>2, SizeAssumption DEF LeftInv, Row
<1>5. CASE at + 1 < Rows
  <2>1. at' = at + 1 /\ warm' = warm /\ pc' = pc
    BY <1>5 DEF ScanLeftRow
  <2>2. at' > 0 /\ at' - 1 = at
    BY <1>2, <2>1 DEF Row
  <2>3. \A c \in charged' : <<at' - 1, c>> \in down'
    BY <1>1, <2>2
  <2>4. warm' => charged' \subseteq met'
    BY <2>1, ChargedMet
  <2> QED
    BY <1>3, <1>4, <2>1, <2>2, <2>3, <2>4 DEF LeftInv
<1>6. CASE ~(at + 1 < Rows)
  <2>1. warm' = TRUE /\ pc' # "left"
    BY <1>6 DEF ScanLeftRow
  <2>2. \A r \in raised' : ~(r >= at + 1)
    BY <1>2, <1>6, SizeAssumption DEF Row
  <2>3. raised' = {}
    BY <1>3, <1>4, <2>2
  <2> QED
    BY <2>1, <2>3 DEF LeftInv
<1> QED
  BY <1>5, <1>6

LEMMA LeftStep ==
  ASSUME TypeOK, LeftInv, [Next]_vars
  PROVE  LeftInv'
<1>1. ASSUME UNCHANGED <<left, pc, at, down>> PROVE LeftInv'
  BY <1>1 DEF left, LeftInv
<1>2. ASSUME UNCHANGED left, pc' # "left" PROVE LeftInv'
  BY <1>2 DEF left, LeftInv
<1>3. ASSUME NEW k \in Key, KeyMoves(k) PROVE LeftInv'
  BY <1>1, <1>3 DEF KeyMoves
<1>4. CASE Unplug \/ Plug
  BY <1>1, <1>4 DEF Unplug, Plug
<1>5. CASE ScanStart
  <2>1. pc' = "left" /\ at' = 0 /\ charged' = {} /\ UNCHANGED <<raised, warm>>
    BY <1>5 DEF ScanStart
  <2>3. charged' = {}
    BY <1>5 DEF ScanStart
  <2>2. \A r \in raised' : r >= at'
    BY <2>1 DEF TypeOK, Row
  <2> QED
    BY <2>1, <2>2, <2>3 DEF LeftInv
<1>6. CASE ScanLeftRow
  BY <1>6, LeftRowLeft
<1>7. CASE SetupWrite
  BY <1>2, <1>7 DEF SetupWrite, InSetup
<1>8. CASE ClearColumn \/ ReadColumn \/ SetColumn \/ TransferFails
  BY <1>2, <1>8 DEF ClearColumn, ReadColumn, SetColumn, TransferFails
<1>9. CASE UNCHANGED vars
  BY <1>1, <1>9 DEF vars
<1> QED
  BY <1>3, <1>4, <1>5, <1>6, <1>7, <1>8, <1>9 DEF Next, ScanStep

\* A row of the left half misses no closed contact, and each ghost it shows goes back
\* to a contact that the same scan has read on that column (GhostsTraced), however many
\* rows the lines stay charged.
THEOREM Traced == Spec => GhostsTraced
<1>1. Init => LeftInv
  BY DEF Init, LeftInv
<1>2. ASSUME TypeOK, LeftInv, ScanLeftRow
      PROVE  /\ closed \cap ({at} \X LeftColumn) \subseteq down'
             /\ warm => \A k \in down' \ closed :
                          at > 0 /\ <<at - 1, k[2]>> \in down /\ k[2] \in met
  <2>1. PICK high \in SUBSET LeftColumn :
          /\ high = {c \in LeftColumn :
                      c \in charged \/ \E r \in DriveRow : <<r, c>> \in closed}
          /\ down' = {at} \X high
    BY <1>2, RowRead
  <2>2. closed \cap ({at} \X LeftColumn) \subseteq down'
    <3> SUFFICES ASSUME NEW c \in LeftColumn, <<at, c>> \in closed
                 PROVE  <<at, c>> \in down'
      OBVIOUS
    <3>1. c \in high
      BY <2>1 DEF DriveRow
    <3> QED
      BY <2>1, <3>1
  <2>3. ASSUME warm, NEW k \in down' \ closed
        PROVE  at > 0 /\ <<at - 1, k[2]>> \in down /\ k[2] \in met
    <3>1. k[2] \in charged
      BY <1>2, <2>3, ChargedMet
    <3> QED
      BY <1>2, <2>3, <3>1 DEF LeftInv, ScanLeftRow
  <2> QED
    BY <2>2, <2>3
<1>3. TypeOK /\ LeftInv /\ [Next]_vars
        => [ScanLeftRow =>
              /\ closed \cap ({at} \X LeftColumn) \subseteq down'
              /\ warm => \A k \in down' \ closed :
                           at > 0 /\ <<at - 1, k[2]>> \in down /\ k[2] \in met]_vars
  BY <1>2
<1> QED
  BY <1>1, <1>3, InitType, StepType, LeftStep, PTL DEF Spec, GhostsTraced
=============================================================================
