------------------------------ MODULE DfuProofs ------------------------------
(* What Dfu promises for every layout of the flash with the bootloader in      *)
(* sectors of its own, every file and every block length.                      *)
EXTENDS Dfu, TLAPS

-----------------------------------------------------------------------------
(* Sectors. *)

\* get_sector finds the sector of every address of the flash ...
LEMMA SectorFound ==
  ASSUME NEW a \in Address
  PROVE  GetSector(a) \in Sector /\ a \in Cells(GetSector(a))
<1>1. \E s \in Sector : a \in Cells(s)
  BY DEF Address
<1>. QED BY <1>1 DEF GetSector

\* ... and there is only one.
LEMMA SectorUnique ==
  ASSUME NEW s \in Sector, NEW a \in Cells(s)
  PROVE  a \in Address /\ GetSector(a) = s
<1>1. a \in Address
  BY DEF Address
<1>2. GetSector(a) \in Sector /\ a \in Cells(GetSector(a))
  BY <1>1, SectorFound
<1>. QED BY <1>1, <1>2, SectorAssumption

\* Addresses are natural numbers.
LEMMA AddressNat == Address \subseteq Nat
BY SectorAssumption DEF Address, Cells

\* The sector of an address of the main memory lies wholly in it.
LEMMA MainSector ==
  ASSUME NEW a \in Address, a >= MainBase
  PROVE  \A c \in Cells(GetSector(a)) : c \in Nat /\ c >= MainBase
<1>. DEFINE s == GetSector(a)
<1>1. s \in Sector /\ a \in Cells(s)
  BY SectorFound
<1>2. SectorFirst[s] \in Nat /\ SectorLast[s] \in Nat
  BY <1>1, SectorAssumption
<1>3. MainBase <= SectorFirst[s]
  BY <1>1, <1>2, MemoryAssumption DEF Cells
<1>. QED BY <1>2, <1>3, MemoryAssumption DEF Cells

\* A block that fits begins at an address of the main memory and ends in it.
LEMMA BlockInMemory ==
  ASSUME TypeOK, NEW len \in 1 .. TransferSize, Fits(len)
  PROVE  /\ dfu_address \in Nat /\ len \in Nat /\ len >= 1
         /\ dfu_address \in Address /\ dfu_address >= MainBase
         /\ dfu_address + len - 1 \in Address
         /\ dfu_address + len <= MainMax
<1>1. /\ dfu_address \in Nat /\ len \in Nat /\ len >= 1 /\ MainMax \in Nat
      /\ MainBase \in Nat /\ dfu_address >= MainBase
      /\ dfu_address + len <= MainMax
  BY MemoryAssumption, HostAssumption DEF TypeOK, Fits
<1>2. /\ dfu_address \in MainBase .. MainMax
      /\ dfu_address + len - 1 \in MainBase .. MainMax
  BY <1>1
<1>. QED BY <1>1, <1>2, MemoryAssumption

-----------------------------------------------------------------------------
(* Type correctness. *)

\* Erasing and programming leave cells with contents.
LEMMA AfterProgramType ==
  ASSUME TypeOK, NEW len \in 1 .. TransferSize, Fits(len), NEW n \in Nat
  PROVE  AfterProgram(file, n) \in [Address -> Content]
<1>1. AfterErase \in [Address -> Content]
  BY DEF TypeOK, AfterErase, Content
<1>2. ASSUME NEW a \in Address, a \in dfu_address .. dfu_address + n - 1
      PROVE  <<file, offset + (a - dfu_address)>> \in Content
  <2>1. offset + (a - dfu_address) \in Nat
    BY <1>2, BlockInMemory DEF TypeOK
  <2>. QED BY <2>1 DEF TypeOK, Content
<1>3. ASSUME NEW a \in Address, a \in dfu_address .. dfu_address + n - 1
      PROVE  Burn(AfterErase[a], <<file, offset + (a - dfu_address)>>) \in Content
  BY <1>2, <1>3 DEF Burn, Content
<1>. QED BY <1>1, <1>3 DEF AfterProgram

LEMMA DfuResetType ==
  ASSUME DfuReset
  PROVE  /\ dfu_state' = "dfuIDLE" /\ dfu_status' = "OK"
         /\ dfu_bytes' \in Nat /\ dfu_address' = MainBase + dfu_bytes'
         /\ dfu_bytes' = 0 /\ erased_sectors' = {}
         /\ file' \in File /\ offset' \in Nat
         /\ contiguous' \in BOOLEAN /\ aligned' \in BOOLEAN
BY MemoryAssumption DEF DfuReset

LEMMA ChipResetType ==
  ASSUME TypeOK, NEW c \in {"pin", "power", "software"}, ChipReset(c),
         flash' \in [Address -> Content]
  PROVE  TypeOK'
<1>1. DfuReset
  BY DEF ChipReset
<1>. QED BY <1>1, DfuResetType DEF TypeOK, ChipReset

LEMMA InitType == Init => TypeOK
<1>. SUFFICES ASSUME Init PROVE TypeOK
  OBVIOUS
<1>1. flash \in [Address -> Content]
  BY DEF Init, Content
<1>2. dfu_bytes = 0 /\ dfu_bytes \in Nat /\ dfu_address = MainBase + dfu_bytes
  BY MemoryAssumption DEF Init
<1>3. csr \subseteq {"pin", "power", "software"}
      /\ cause \subseteq {"pin", "power", "software"}
  BY DEF Init
<1>. QED BY <1>1, <1>2, <1>3 DEF Init, TypeOK

LEMMA DnloadType ==
  ASSUME TypeOK, NEW len \in 1 .. TransferSize, Dnload(len)
  PROVE  TypeOK'
<1>1. /\ mode' = mode /\ csr' = csr /\ cause' = cause /\ configured' = configured
      /\ file' = file /\ offset' = offset + len
      /\ contiguous' \in BOOLEAN /\ aligned' \in BOOLEAN
  BY DEF Dnload, boot, TypeOK
<1>2. offset' \in Nat
  BY <1>1, HostAssumption DEF TypeOK
<1>3. CASE ~Fits(len)
  BY <1>1, <1>2, <1>3 DEF TypeOK, Dnload, progress
<1>4. CASE Fits(len)
  <2>1. /\ dfu_state' = "dfuDNLOAD-SYNC" /\ dfu_status' = "OK"
        /\ flash' = AfterProgram(file, len)
        /\ erased_sectors' = erased_sectors \cup {GetSector(dfu_address)}
        /\ dfu_address' = dfu_address + len /\ dfu_bytes' = dfu_bytes + len
    BY <1>4 DEF Dnload, EraseMark
  <2>2. flash' \in [Address -> Content]
    BY <1>4, <2>1, AfterProgramType, BlockInMemory
  <2>3. GetSector(dfu_address) \in Sector
    BY <1>4, BlockInMemory, SectorFound
  <2>4. /\ dfu_bytes' \in Nat /\ dfu_address' = MainBase + dfu_bytes'
        /\ dfu_address' <= MainMax
    BY <1>4, <2>1, BlockInMemory, MemoryAssumption DEF TypeOK
  <2>. QED BY <1>1, <1>2, <2>1, <2>2, <2>3, <2>4 DEF TypeOK
<1>. QED BY <1>3, <1>4

LEMMA DnloadCutType ==
  ASSUME TypeOK, NEW len \in 1 .. TransferSize, DnloadCut(len)
  PROVE  TypeOK'
<1>1. Fits(len) /\ ChipReset("power")
  BY DEF DnloadCut
<1>2. flash' \in [Address -> Content]
  <2>1. ASSUME NEW n \in 0 .. len - 1, flash' = AfterProgram(file, n)
        PROVE  flash' \in [Address -> Content]
    BY <1>1, <2>1, AfterProgramType, HostAssumption
  <2>2. CASE flash' = [a \in Address |->
                         IF a \in Cells(GetSector(dfu_address))
                         THEN Other ELSE flash[a]]
    BY <2>2 DEF TypeOK, Content
  <2>. QED BY <2>1, <2>2 DEF DnloadCut
<1>. QED BY <1>1, <1>2, ChipResetType

LEMMA NextType ==
  ASSUME TypeOK, [Next]_vars
  PROVE  TypeOK'
<1>1. CASE PowerCut \/ ResetButton \/ BusReset
  BY <1>1, ChipResetType DEF PowerCut, ResetButton, BusReset, TypeOK
<1>2. CASE Main
  BY <1>2 DEF Main, TypeOK, FlagsLeft, dfu, progress, host
<1>3. CASE SetConfig \/ ClrStatus \/ Abort
  BY <1>3, DfuResetType DEF SetConfig, ClrStatus, Abort, TypeOK, boot
<1>4. ASSUME NEW len \in 1 .. TransferSize, Dnload(len) \/ DnloadCut(len)
      PROVE  TypeOK'
  BY <1>4, DnloadType, DnloadCutType
<1>5. CASE DnloadEnd
  BY <1>5 DEF DnloadEnd, TypeOK, boot, progress, host
<1>6. CASE GetStatus
  <2>1. CASE dfu_state = "dfuMANIFEST-SYNC"
    BY <1>6, <2>1, DfuResetType DEF GetStatus, TypeOK, boot
  <2>2. CASE dfu_state # "dfuMANIFEST-SYNC"
    BY <1>6, <2>2 DEF GetStatus, TypeOK, boot, progress, host
  <2>. QED BY <2>1, <2>2
<1>7. CASE UNCHANGED vars
  BY <1>7 DEF vars, TypeOK, boot, dfu, progress, host
<1>. QED BY <1>1, <1>2, <1>3, <1>4, <1>5, <1>6, <1>7 DEF Next

\* The download counters agree and stay inside the main memory.
THEOREM TypeCorrect == Spec => []TypeOK
<1>. QED BY InitType, NextType, PTL DEF Spec

-----------------------------------------------------------------------------
(* The bootloader's sectors.  The address test of DFU_DNLOAD matters: without   *)
(* it get_sector answers 0 for an address past the end, the bootloader's own.   *)

\* Neither the erase nor the programming of a block reaches below MainBase.
LEMMA WriteAboveBase ==
  ASSUME TypeOK, NEW len \in 1 .. TransferSize, Fits(len), NEW n \in Nat,
         NEW a \in Address, a < MainBase
  PROVE  /\ AfterProgram(file, n)[a] = flash[a]
         /\ a \notin Cells(GetSector(dfu_address))
<1>1. a \in Nat
  BY AddressNat
<1>2. dfu_address \in Address /\ dfu_address \in Nat /\ dfu_address >= MainBase
  BY BlockInMemory
<1>3. a \notin Cells(GetSector(dfu_address))
  BY <1>1, <1>2, MainSector, MemoryAssumption
<1>4. AfterErase[a] = flash[a]
  BY <1>3 DEF AfterErase, TypeOK
<1>5. a \notin dfu_address .. dfu_address + n - 1
  BY <1>1, <1>2, MemoryAssumption
<1>. QED BY <1>3, <1>4, <1>5 DEF AfterProgram

LEMMA NextBootloader ==
  ASSUME TypeOK, BootloaderIntact, [Next]_vars
  PROVE  BootloaderIntact'
<1>1. ASSUME NEW len \in 1 .. TransferSize, Dnload(len) PROVE BootloaderIntact'
  <2>1. CASE Fits(len)
    <3>1. flash' = AfterProgram(file, len) /\ len \in Nat
      BY <1>1, <2>1, HostAssumption DEF Dnload
    <3>. QED BY <2>1, <3>1, WriteAboveBase DEF BootloaderIntact
  <2>2. CASE ~Fits(len)
    BY <1>1, <2>2 DEF Dnload, BootloaderIntact
  <2>. QED BY <2>1, <2>2
<1>2. ASSUME NEW len \in 1 .. TransferSize, DnloadCut(len)
      PROVE  BootloaderIntact'
  <2>1. Fits(len)
    BY <1>2 DEF DnloadCut
  <2>2. ASSUME NEW n \in 0 .. len - 1, flash' = AfterProgram(file, n)
        PROVE  BootloaderIntact'
    BY <2>1, <2>2, WriteAboveBase DEF BootloaderIntact
  <2>3. ASSUME flash' = [a \in Address |-> IF a \in Cells(GetSector(dfu_address))
                                           THEN Other ELSE flash[a]]
        PROVE  BootloaderIntact'
    BY <2>3 DEF BootloaderIntact
  <2>. QED BY <1>2, <2>2, <2>3 DEF DnloadCut
<1>3. CASE UNCHANGED flash
  BY <1>3 DEF BootloaderIntact
<1>. QED
  BY <1>1, <1>2, <1>3
  DEF Next, PowerCut, ResetButton, Main, BusReset, SetConfig, DnloadEnd,
      GetStatus, ClrStatus, Abort, vars

\* No download, complete, wrong or interrupted, touches the bootloader.
THEOREM BootloaderSurvives == Spec => []BootloaderIntact
<1>1. Init => BootloaderIntact
  BY DEF Init, BootloaderIntact
<1>. QED BY <1>1, InitType, NextType, NextBootloader, PTL DEF Spec

-----------------------------------------------------------------------------
(* The image.  ImageIntact needs two companions: every sector the image has     *)
(* reached is marked erased, so that no later block erases it; and what is left *)
(* of those sectors is blank, so that a later block can be programmed.          *)

ReachedIsMarked ==
  \A a \in Address :
    MainBase <= a /\ a < dfu_address => GetSector(a) \in erased_sectors

MarkedIsBlank ==
  \A a \in Address :
    dfu_address <= a /\ GetSector(a) \in erased_sectors => flash[a] = Erased

ImageInv ==
  contiguous /\ aligned => ReachedIsMarked /\ MarkedIsBlank /\ ImageIntact

\* A fresh download has accepted nothing and marked nothing.
LEMMA FreshImage ==
  ASSUME DfuReset
  PROVE  ImageInv'
<1>1. /\ dfu_address' = MainBase /\ dfu_bytes' = 0 /\ erased_sectors' = {}
  BY DEF DfuReset
<1>3. ReachedIsMarked'
  BY <1>1, AddressNat, MemoryAssumption DEF ReachedIsMarked
<1>4. MarkedIsBlank'
  BY <1>1 DEF MarkedIsBlank
<1>5. ImageIntact'
  BY <1>1 DEF ImageIntact, AcceptedKept
<1>. QED BY <1>3, <1>4, <1>5 DEF ImageInv

\* A block in one sector: all its cells are in the sector it starts in.
LEMMA BlockSector ==
  ASSUME TypeOK, NEW len \in 1 .. TransferSize, Fits(len), OneSector(len),
         NEW a \in dfu_address .. dfu_address + len - 1
  PROVE  a \in Address /\ a >= MainBase /\ GetSector(a) = GetSector(dfu_address)
<1>. DEFINE s == GetSector(dfu_address)
            e == dfu_address + len - 1
<1>1. /\ dfu_address \in Nat /\ len \in Nat /\ dfu_address \in Address
      /\ dfu_address >= MainBase /\ e \in Address /\ e >= dfu_address
  BY BlockInMemory
<1>2. s \in Sector /\ dfu_address \in Cells(s)
  BY <1>1, SectorFound
<1>3. e \in Cells(GetSector(e)) /\ GetSector(e) \in Sector
  BY <1>1, SectorFound
<1>4. GetSector(e) # 0
  <2>1. e >= MainBase /\ e \in Nat
    BY <1>1, MemoryAssumption
  <2>2. SectorLast[0] < MainBase /\ SectorLast[0] \in Nat
    BY MemoryAssumption, SectorAssumption
  <2>3. e \notin Cells(0)
    BY <2>1, <2>2, MemoryAssumption, SectorAssumption DEF Cells
  <2>. QED BY <1>3, <2>3
<1>5. GetSector(e) = s
  BY <1>4 DEF OneSector
<1>6. a \in Cells(s)
  BY <1>1, <1>2, <1>3, <1>5, SectorAssumption DEF Cells
<1>7. a >= MainBase
  BY <1>1, MemoryAssumption
<1>. QED BY <1>2, <1>6, <1>7, SectorUnique

\* What a block that is accepted does to a cell: its own cells hold the file, a
\* cell in another sector, or one below it in a marked sector, is left alone.
LEMMA BlockWritten ==
  ASSUME TypeOK, ImageInv, contiguous, aligned, offset = dfu_bytes,
         NEW len \in 1 .. TransferSize, Fits(len), OneSector(len)
  PROVE  LET s == GetSector(dfu_address)
             f == AfterProgram(file, len)
         IN  \A a \in Address :
               /\ a \in dfu_address .. dfu_address + len - 1
                    => f[a] = <<file, a - MainBase>>
               /\ a \notin dfu_address .. dfu_address + len - 1
                    => f[a] = IF GetSector(a) = s /\ s \notin erased_sectors
                              THEN Erased ELSE flash[a]
<1>. DEFINE s == GetSector(dfu_address)
            f == AfterProgram(file, len)
<1>1. s \in Sector
  BY BlockInMemory, SectorFound
<1>2. \A a \in Address : a \in Cells(s) <=> GetSector(a) = s
  BY <1>1, SectorFound, SectorUnique
<1>3. \A a \in Address :
        AfterErase[a] = IF GetSector(a) = s /\ s \notin erased_sectors
                        THEN Erased ELSE flash[a]
  BY <1>2 DEF AfterErase, TypeOK
<1>4. offset = dfu_bytes /\ dfu_address = MainBase + dfu_bytes
  BY DEF TypeOK
<1>5. ASSUME NEW a \in Address, a \in dfu_address .. dfu_address + len - 1
      PROVE  f[a] = <<file, a - MainBase>>
  <2>1. GetSector(a) = s
    BY <1>5, BlockSector
  <2>2. a >= dfu_address /\ a \in Nat
    BY <1>5, AddressNat, BlockInMemory
  <2>3. AfterErase[a] = Erased
    BY <1>3, <2>1, <2>2 DEF ImageInv, MarkedIsBlank
  <2>4. f[a] = <<file, offset + (a - dfu_address)>>
    BY <1>5, <2>3 DEF AfterProgram, Burn
  <2>5. offset + (a - dfu_address) = a - MainBase
    BY <1>4, <2>2, MemoryAssumption DEF TypeOK
  <2>. QED BY <2>4, <2>5
<1>6. ASSUME NEW a \in Address, a \notin dfu_address .. dfu_address + len - 1
      PROVE  f[a] = AfterErase[a]
  BY <1>6 DEF AfterProgram
<1>. QED BY <1>3, <1>5, <1>6

LEMMA DnloadImage ==
  ASSUME TypeOK, ImageInv, NEW len \in 1 .. TransferSize, Dnload(len)
  PROVE  ImageInv'
<1>. DEFINE s == GetSector(dfu_address)
<1>. SUFFICES ASSUME contiguous', aligned' PROVE ImageInv'
  BY DEF ImageInv
<1>0. contiguous /\ aligned
  BY DEF Dnload
<1>1. offset = dfu_bytes /\ OneSector(len)
  BY DEF Dnload
<1>2. file' = file
  BY DEF Dnload
<1>3. CASE ~Fits(len)
  BY <1>0, <1>2, <1>3
  DEF Dnload, progress, ImageInv, ReachedIsMarked, MarkedIsBlank,
      ImageIntact, AcceptedKept
<1>4. CASE Fits(len)
  <2>1. /\ flash' = AfterProgram(file, len) /\ erased_sectors' = erased_sectors \cup {s}
        /\ dfu_address' = dfu_address + len /\ dfu_bytes' = dfu_bytes + len
    BY <1>4 DEF Dnload, EraseMark
  <2>2. /\ dfu_address \in Nat /\ len \in Nat /\ dfu_bytes \in Nat
        /\ MainBase \in Nat /\ dfu_address = MainBase + dfu_bytes
    BY <1>4, BlockInMemory, MemoryAssumption DEF TypeOK
  <2>3. \A a \in Address :
          /\ a \in dfu_address .. dfu_address + len - 1
               => flash'[a] = <<file, a - MainBase>>
          /\ a \notin dfu_address .. dfu_address + len - 1
               => flash'[a] = IF GetSector(a) = s /\ s \notin erased_sectors
                              THEN Erased ELSE flash[a]
    BY <1>0, <1>1, <1>4, <2>1, BlockWritten
  <2>5. ReachedIsMarked'
    <3>. SUFFICES ASSUME NEW a \in Address, MainBase <= a, a < dfu_address + len
                  PROVE  GetSector(a) \in erased_sectors \cup {s}
      BY <2>1 DEF ReachedIsMarked
    <3>1. a \in Nat
      BY AddressNat
    <3>2. CASE a < dfu_address
      BY <1>0, <3>2 DEF ImageInv, ReachedIsMarked
    <3>3. CASE a >= dfu_address
      <4>1. a \in dfu_address .. dfu_address + len - 1
        BY <2>2, <3>1, <3>3
      <4>. QED BY <1>1, <1>4, <4>1, BlockSector
    <3>. QED BY <2>2, <3>1, <3>2, <3>3
  <2>6. MarkedIsBlank'
    <3>. SUFFICES ASSUME NEW a \in Address, dfu_address + len <= a,
                         GetSector(a) \in erased_sectors \cup {s}
                  PROVE  flash'[a] = Erased
      BY <2>1 DEF MarkedIsBlank
    <3>1. a \notin dfu_address .. dfu_address + len - 1 /\ dfu_address <= a
      BY <2>2, AddressNat
    <3>. QED BY <1>0, <2>3, <3>1 DEF ImageInv, MarkedIsBlank
  <2>7. ImageIntact'
    <3>8. dfu_bytes' = dfu_bytes + len
      BY <2>1
    <3>9. file' = file
      BY <1>2
    <3>. SUFFICES ASSUME NEW i \in 0 .. dfu_bytes' - 1
                  PROVE  flash'[MainBase + i] = <<file', i>>
      BY Zenon DEF ImageIntact, AcceptedKept
    <3>. DEFINE a == MainBase + i
    <3>0. i \in 0 .. dfu_bytes + len - 1
      BY <2>2, <3>8
    <3>1. a \in MainBase .. MainMax
      BY <1>4, <2>2, <3>0, BlockInMemory, MemoryAssumption
    <3>2. a \in Address /\ i \in Nat /\ a - MainBase = i
      BY <2>2, <3>0, <3>1, MemoryAssumption
    <3>3. CASE i >= dfu_bytes
      <4>1. a \in dfu_address .. dfu_address + len - 1
        BY <2>2, <3>0, <3>2, <3>3
      <4>. QED BY <2>3, <3>2, <3>9, <4>1
    <3>4. CASE i < dfu_bytes
      <4>1. a \notin dfu_address .. dfu_address + len - 1 /\ a < dfu_address
        BY <2>2, <3>2, <3>4
      <4>2. GetSector(a) \in erased_sectors
        BY <1>0, <2>2, <3>1, <3>2, <4>1 DEF ImageInv, ReachedIsMarked
      <4>3. flash[a] = <<file, i>>
        <5>1. i \in 0 .. dfu_bytes - 1
          BY <2>2, <3>2, <3>4
        <5>. QED BY Zenon, <1>0, <5>1 DEF ImageInv, ImageIntact, AcceptedKept
      <4>. QED BY <2>3, <3>2, <3>9, <4>1, <4>2, <4>3
    <3>. QED BY <2>2, <3>2, <3>3, <3>4
  <2>. QED BY <2>5, <2>6, <2>7 DEF ImageInv
<1>. QED BY <1>3, <1>4

LEMMA NextImage ==
  ASSUME TypeOK, ImageInv, [Next]_vars
  PROVE  ImageInv'
<1>1. CASE DfuReset
  BY <1>1, FreshImage
<1>2. ASSUME NEW len \in 1 .. TransferSize, Dnload(len) PROVE ImageInv'
  BY <1>2, DnloadImage
<1>3. CASE UNCHANGED <<progress, flash, host>>
  BY <1>3
  DEF progress, host, ImageInv, ReachedIsMarked, MarkedIsBlank, ImageIntact,
      AcceptedKept
<1>. QED
  BY <1>1, <1>2, <1>3
  DEF Next, PowerCut, ResetButton, BusReset, ChipReset, Main, SetConfig,
      DnloadCut, DnloadEnd, ClrStatus, Abort, GetStatus, vars, dfu

\* For blocks that stay inside a sector, the flash holds all that was accepted.
THEOREM ImageKept == Spec => []ImageIntact
<1>1. Init => ImageInv
  <2>. SUFFICES ASSUME Init PROVE ImageInv
    OBVIOUS
  <2>1. dfu_address = MainBase /\ dfu_bytes = 0 /\ erased_sectors = {}
    BY DEF Init
  <2>2. MarkedIsBlank /\ ImageIntact
    BY <2>1 DEF MarkedIsBlank, ImageIntact, AcceptedKept
  <2>3. ReachedIsMarked
    BY <2>1, AddressNat, MemoryAssumption DEF ReachedIsMarked
  <2>. QED BY <2>2, <2>3 DEF ImageInv
<1>2. ImageInv => ImageIntact
  BY DEF ImageInv, ImageIntact, AcceptedKept
<1>. QED BY <1>1, <1>2, InitType, NextType, NextImage, PTL DEF Spec

-----------------------------------------------------------------------------
(* The boot decision.  The flags of RCC_CSR tell what happened since main last  *)
(* ran, except that the pin flag is there with every reset; so "only the pin    *)
(* flag" means "only the button", provided that main has cleared the others.    *)

FlagsTellCause ==
  /\ csr = IF cause = {} THEN {} ELSE cause \cup {"pin"}
  /\ mode = "boot" => cause # {}

LEMMA NextFlags ==
  ASSUME FlagsTellCause, [Next]_vars
  PROVE  FlagsTellCause'
<1>1. ASSUME NEW c \in {"pin", "power", "software"}, ChipReset(c)
      PROVE  FlagsTellCause'
  <2>1. csr' = csr \cup {c, "pin"} /\ cause' = cause \cup {c}
    BY <1>1 DEF ChipReset
  <2>2. csr' = cause' \cup {"pin"} /\ cause' # {}
    BY <2>1 DEF FlagsTellCause
  <2>. QED BY <2>2 DEF FlagsTellCause
<1>2. CASE Main
  BY <1>2 DEF Main, FlagsLeft, FlagsTellCause
<1>3. CASE UNCHANGED boot
  BY <1>3 DEF boot, FlagsTellCause
<1>. QED
  BY <1>1, <1>2, <1>3
  DEF Next, PowerCut, ResetButton, BusReset, SetConfig, Dnload, DnloadCut,
      DnloadEnd, GetStatus, ClrStatus, Abort, vars

\* The button alone leads to the bootloader: no power-up, no software reset.
THEOREM ButtonOnly == Spec => DfuByButtonOnly
<1>1. Init => FlagsTellCause
  BY DEF Init, FlagsTellCause
<1>2. ASSUME FlagsTellCause, [Next]_vars, mode = "boot", mode' # "boot"
      PROVE  mode' = "dfu" <=> cause = {"pin"}
  <2>1. csr = {"pin"} <=> cause = {"pin"}
    BY <1>2 DEF FlagsTellCause
  <2>2. CASE Main
    BY <2>1, <2>2 DEF Main
  <2>3. CASE mode' = "boot" \/ UNCHANGED boot
    BY <1>2, <2>3 DEF boot
  <2>4. CASE SetConfig
    BY <1>2, <2>4 DEF SetConfig
  <2>. QED
    BY <1>2, <2>2, <2>3, <2>4
    DEF Next, PowerCut, ResetButton, BusReset, ChipReset, Dnload, DnloadCut,
        DnloadEnd, GetStatus, ClrStatus, Abort, vars
<1>3. FlagsTellCause /\ [Next]_vars
        => [mode = "boot" /\ mode' # "boot"
              => (mode' = "dfu" <=> cause = {"pin"})]_vars
  BY <1>2
<1>. QED BY <1>1, <1>3, NextFlags, PTL DEF Spec, DfuByButtonOnly
=============================================================================
