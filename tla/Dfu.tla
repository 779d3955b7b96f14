--------------------------------- MODULE Dfu ---------------------------------
(***************************************************************************)
(* The bootloader: the boot decision of bootloader/main.c, the DFU request  *)
(* handler of bootloader/dfu.c and the flash it writes, with resets and     *)
(* power cuts at any time, the middle of a write included.                  *)
(*                                                                          *)
(* An address stands for a fixed number of bytes.  A flash cell holds       *)
(* Erased, a cell <<file, index>> of a firmware file of the host, or Other. *)
(***************************************************************************)
EXTENDS Naturals

CONSTANTS
  Sector,        \* the flash sectors; 0 is one of them
  SectorFirst,   \* the first and the last address of each sector
  SectorLast,    \*   (the table of get_sector)
  MainBase,      \* MAIN_PROGRAM_BASE
  MainMax,       \* MAIN_MEMORY_MAX: the last address of the flash
  File,          \* the firmware files the host may send
  Image,         \* their length
  TransferSize,  \* the longest block of the host, at most wTransferSize
  Erased, Other  \* an erased cell, and one that holds anything else

Cells(s) == SectorFirst[s] .. SectorLast[s]
Address == UNION {Cells(s) : s \in Sector}
Content == (File \X Nat) \cup {Erased, Other}

ASSUME SectorAssumption ==
  /\ 0 \in Sector
  /\ SectorFirst \in [Sector -> Nat] /\ SectorLast \in [Sector -> Nat]
  /\ \A s, t \in Sector : s # t => Cells(s) \cap Cells(t) = {}
ASSUME MemoryAssumption ==
  /\ MainBase \in Nat /\ MainMax \in Nat
  /\ MainBase .. MainMax \subseteq Address
  /\ \A s \in Sector : SectorLast[s] < MainBase \/ MainBase <= SectorFirst[s]
  /\ SectorLast[0] < MainBase
ASSUME HostAssumption ==
  /\ TransferSize \in Nat /\ Image \in Nat
ASSUME ContentAssumption ==
  Erased # Other /\ Erased \notin File \X Nat /\ Other \notin File \X Nat

VARIABLES
  mode,            \* "boot" until main has decided, then "app" or "dfu"
  csr,             \* the reset flags of RCC_CSR
  configured,      \* SET_CONFIGURATION has registered the DFU callbacks
  dfu_state, dfu_status, dfu_address, dfu_bytes, erased_sectors,
  flash,           \* the contents of every address
  file,            \* the file the host is sending
  offset           \* the host's position in it

(* History variables. *)
VARIABLES
  cause,           \* what has reset the chip since main last ran
  contiguous,      \* no block of this download was sent after a refused one
  aligned          \* no block of this download lies across two sectors

progress == <<dfu_address, dfu_bytes, erased_sectors>>
dfu == <<dfu_state, dfu_status, progress>>
boot == <<mode, csr, cause>>
host == <<file, offset, contiguous, aligned>>
vars == <<boot, configured, dfu, flash, host>>

Init ==
  /\ mode = "boot" /\ csr = {"pin", "power"} /\ cause = {"power"}
  /\ configured = FALSE
  /\ dfu_status = "OK" /\ dfu_state = "dfuIDLE"
  /\ dfu_address = MainBase /\ dfu_bytes = 0 /\ erased_sectors = {}
  /\ flash = [a \in Address |-> Other]
  /\ file \in File /\ offset = 0 /\ contiguous = TRUE /\ aligned = TRUE

\* dfu_reset, which also restores the initial values of its variables; the host
\* starts a file from the beginning.
DfuReset ==
  /\ dfu_status' = "OK" /\ dfu_state' = "dfuIDLE"
  /\ dfu_address' = MainBase /\ dfu_bytes' = 0 /\ erased_sectors' = {}
  /\ file' \in File /\ offset' = 0 /\ contiguous' = TRUE /\ aligned' = TRUE

-----------------------------------------------------------------------------
(* Resets and the boot decision. *)

\* Every reset pulls the reset line, and so sets the pin flag too.
ChipReset(c) ==
  /\ mode' = "boot" /\ csr' = csr \cup {c, "pin"} /\ cause' = cause \cup {c}
  /\ configured' = FALSE
  /\ DfuReset

PowerCut == ChipReset("power") /\ UNCHANGED flash
ResetButton == ChipReset("pin") /\ UNCHANGED flash

(* The operators named ...Mutant are wrong on purpose: a plausible slip in the *)
(* operator after them, which one of the properties must notice.               *)

\* RMVF: main clears the flags whichever way it goes.
FlagsLeftMutant == csr
FlagsLeft == {}

\* main, with PIN_RESET_ONLY
Main ==
  /\ mode = "boot"
  /\ mode' = IF csr = {"pin"} THEN "dfu" ELSE "app"
  /\ csr' = FlagsLeft /\ cause' = {}
  /\ UNCHANGED <<configured, dfu, flash, host>>

Serving == mode = "dfu" /\ configured

\* reset_callback: a bus reset of the configured bootloader resets the chip.
BusReset == Serving /\ ChipReset("software") /\ UNCHANGED flash

SetConfig ==
  /\ mode = "dfu"
  /\ configured' = TRUE
  /\ DfuReset
  /\ UNCHANGED <<boot, flash>>

-----------------------------------------------------------------------------
(* DFU_DNLOAD *)

GetSector(addr) ==
  IF addr \in Address THEN CHOOSE s \in Sector : addr \in Cells(s) ELSE 0

\* The code's test, "dfu_address + wLength > MAIN_MEMORY_MAX", denied.
FitsMutant(len) == TRUE
Fits(len) == dfu_address + len <= MainMax

\* dfu_write erases only the sector in which the block starts.
EraseMarkMutant == erased_sectors
EraseMark == erased_sectors \cup {GetSector(dfu_address)}

AfterErase ==
  IF GetSector(dfu_address) \in erased_sectors THEN flash
  ELSE [a \in Address |-> IF a \in Cells(GetSector(dfu_address))
                          THEN Erased ELSE flash[a]]

\* flash_program of the first n cells of a block of file f: programming can
\* only clear bits, so a cell that is not erased keeps a mixture.
Burn(old, new) == IF old \in {Erased, new} THEN new ELSE Other

AfterProgram(f, n) ==
  [a \in Address |->
     IF a \in dfu_address .. dfu_address + n - 1
     THEN Burn(AfterErase[a], <<f, offset + (a - dfu_address)>>)
     ELSE AfterErase[a]]

\* The block ends in the sector in which it starts (or past the memory).
OneSector(len) ==
  GetSector(dfu_address + len - 1) \in {GetSector(dfu_address), 0}

\* A file may be longer than the memory.
HostSends(len) == Serving /\ offset + len <= Image

Dnload(len) ==
  /\ HostSends(len)
  /\ offset' = offset + len
  /\ contiguous' = (contiguous /\ offset = dfu_bytes)
  /\ aligned' = (aligned /\ OneSector(len))
  /\ \/ /\ ~Fits(len)
        /\ dfu_state' = "dfuERROR" /\ dfu_status' = "errADDRESS"
        /\ UNCHANGED <<progress, flash>>
     \/ /\ Fits(len)
        /\ dfu_state' = "dfuDNLOAD-SYNC" /\ dfu_status' = "OK"
        /\ flash' = AfterProgram(file, len)
        /\ erased_sectors' = EraseMark
        /\ dfu_address' = dfu_address + len
        /\ dfu_bytes' = dfu_bytes + len
  /\ UNCHANGED <<boot, configured, file>>

\* The power goes in the middle of dfu_write: while it erases, or after n cells.
DnloadCut(len) ==
  /\ HostSends(len) /\ Fits(len)
  /\ \/ \E n \in 0 .. len - 1 : flash' = AfterProgram(file, n)
     \/ /\ GetSector(dfu_address) \notin erased_sectors
        /\ flash' = [a \in Address |-> IF a \in Cells(GetSector(dfu_address))
                                       THEN Other ELSE flash[a]]
  /\ ChipReset("power")

\* The block of length zero that ends a download.
DnloadEnd ==
  /\ Serving
  /\ dfu_status' = "OK" /\ dfu_state' = "dfuMANIFEST-SYNC"
  /\ UNCHANGED <<boot, configured, progress, flash, host>>

-----------------------------------------------------------------------------
(* The other requests. *)

GetStatus ==
  /\ Serving
  /\ \/ /\ dfu_state = "dfuMANIFEST-SYNC"
        /\ DfuReset
     \/ /\ dfu_state # "dfuMANIFEST-SYNC"
        /\ dfu_state' = IF dfu_state = "dfuDNLOAD-SYNC" THEN "dfuDNLOAD-IDLE"
                        ELSE dfu_state
        /\ UNCHANGED <<dfu_status, progress, host>>
  /\ UNCHANGED <<boot, configured, flash>>

ClrStatus ==
  /\ Serving /\ dfu_state = "dfuERROR"
  /\ DfuReset
  /\ UNCHANGED <<boot, configured, flash>>

Abort ==
  /\ Serving
  /\ DfuReset
  /\ UNCHANGED <<boot, configured, flash>>

Next ==
  \/ PowerCut \/ ResetButton \/ Main \/ BusReset \/ SetConfig
  \/ \E len \in 1 .. TransferSize : Dnload(len) \/ DnloadCut(len)
  \/ DnloadEnd \/ GetStatus \/ ClrStatus \/ Abort

Spec == Init /\ [][Next]_vars

-----------------------------------------------------------------------------
(* Properties *)

\* The counters stay inside the main memory, states and statuses are those the
\* handler assigns.
TypeOK ==
  /\ mode \in {"boot", "app", "dfu"}
  /\ csr \subseteq {"pin", "power", "software"}
  /\ cause \subseteq {"pin", "power", "software"}
  /\ configured \in BOOLEAN
  /\ dfu_state \in {"dfuIDLE", "dfuDNLOAD-SYNC", "dfuDNLOAD-IDLE",
                    "dfuMANIFEST-SYNC", "dfuERROR"}
  /\ dfu_status \in {"OK", "errADDRESS"}
  /\ dfu_bytes \in Nat /\ dfu_address = MainBase + dfu_bytes
  /\ dfu_bytes = 0 \/ dfu_address <= MainMax
  /\ erased_sectors \subseteq Sector
  /\ flash \in [Address -> Content]
  /\ file \in File /\ offset \in Nat
  /\ contiguous \in BOOLEAN /\ aligned \in BOOLEAN

\* No request and no power cut touches the bootloader's own sectors: whatever
\* goes wrong with a download, the reset button still leads to a bootloader.
BootloaderIntact == \A a \in Address : a < MainBase => flash[a] = Other

\* The flash holds exactly the blocks the device has accepted since the download
\* began: no later erase, old content or earlier download, right or wrong, spoils
\* them.  Of a host that goes on after a refused block nothing is promised.
AcceptedKept ==
  contiguous => \A i \in 0 .. dfu_bytes - 1 : flash[MainBase + i] = <<file, i>>

\* The same, for blocks that do not lie across two sectors.
ImageIntact == aligned => AcceptedKept

\* README.md: the bootloader is "Enabled by pressing the reset button", by that
\* and by no other reset.
DfuByButtonOnly ==
  [][mode = "boot" /\ mode' # "boot" => (mode' = "dfu" <=> cause = {"pin"})]_vars
=============================================================================
