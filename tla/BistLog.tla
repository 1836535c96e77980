------------------------------ MODULE BistLog ------------------------------
(***************************************************************************)
(* The circular telemetry log of yy1 on its external NOR flash             *)
(* (storage/bist_logger.c over storage/ext_flash.c), with power cycles.    *)
(*                                                                         *)
(* A record fills one 256-byte page and a sector of 16 pages is erased as  *)
(* a whole, when the write index enters it.  NOR flash can only clear bits *)
(* between two erasures, so programming a page that is not blank leaves    *)
(* the bitwise AND of both contents.  The magic word, and the sequence     *)
(* number (which is the page's own index), are the same in every record    *)
(* ever written to a page: an overprogrammed page keeps a good header and  *)
(* loses its payload and CRC.                                              *)
(*                                                                         *)
(* The driver polls the chip's busy bit before a command and after it, but *)
(* looks at neither the result of that read, which leaves 0 for not busy   *)
(* when it fails, nor at the result of the write-enable.  The chip ignores *)
(* a command without a write-enable, and one that comes while it is busy.  *)
(* So ESP_OK says that the command was sent: it may have been ignored, or  *)
(* be still under way.                                                     *)
(***************************************************************************)
EXTENDS Integers, FiniteSets

CONSTANTS
  Sectors,      \* sectors in the log (2048 in the code)
  PerSector,    \* BIST_SECTOR_SIZE / BIST_RECORD_SIZE (16 in the code)
  MaxStamp,     \* bound: telemetry snapshots taken for logging
  MaxBoots,     \* bound: power cycles
  Blank,        \* an erased page
  Garbled,      \* a page programmed twice: good header, damaged payload
  Torn          \* a page whose program or erase was cut: it reads as anything

ASSUME LogAssumption ==
  /\ Sectors \in Nat \ {0} /\ PerSector \in Nat \ {0}
  /\ MaxStamp \in Nat /\ MaxBoots \in Nat
  /\ {Blank, Garbled, Torn} \cap Nat = {}
  /\ Blank # Garbled /\ Blank # Torn /\ Garbled # Torn

NPages == Sectors * PerSector          \* BIST_MAX_RECORDS
Pages  == 0 .. NPages - 1
Stamps == 1 .. MaxStamp

VARIABLES
  page,         \* the flash: page[i] is a snapshot's number or a damage
  busy,         \* the pages the chip is at, changed already for what they will be
  write_idx,    \* s_write_idx
  pc,           \* what bist_task is at
  stamp,        \* snapshots taken so far; the last one is the record in hand
  acked,        \* snapshots whose bist_logger_write returned ESP_OK, ever
  programmed,   \* snapshots of this session whose program command the chip obeyed
  unerased,     \* whether the chip ignored the last erase command
  boots,        \* power cycles so far
  resumed,      \* the sector bist_logger_init chose to continue in
  since         \* stamp at boot: this session's snapshots are newer

logHistory == <<acked, programmed, unerased>>
logSession == <<boots, resumed, since>>
logVars == <<page, busy, write_idx, pc, stamp, logHistory, logSession>>

SectorOf(i) == i \div PerSector
Heads       == {i \in Pages : i % PerSector = 0}

\* What a page holds after record rec is programmed over old.
Programmed(old, rec) ==
  CASE old = Blank -> rec
    [] old = Torn  -> Torn
    [] OTHER       -> Garbled

ProgramPage == [page EXCEPT ![write_idx] = Programmed(@, stamp)]
ThisSector  == {i \in Pages : SectorOf(i) = SectorOf(write_idx)}
EraseSector == [i \in Pages |-> IF i \in ThisSector THEN Blank ELSE page[i]]

LogInit ==
  /\ page = [i \in Pages |-> Blank]
  /\ busy = {}
  /\ write_idx = 0
  /\ pc = "off"
  /\ stamp = 0
  /\ acked = {} /\ programmed = {} /\ unerased = FALSE
  /\ boots = 0
  /\ resumed = 0
  /\ since = 0

(* What bist_logger_init may take for the last record, -1 for none: of the *)
(* pages it reads, every PerSector-th, the one with a good magic word and  *)
(* the highest sequence number.  A torn page may show it anything, and a   *)
(* read that fails hides the page, or makes its sequence number zero.      *)
LastRecords == {-1} \cup {i \in Heads : page[i] # Blank}

\* bist_logger_init and bist_logger_start.
LogBoot ==
  /\ pc = "off"
  /\ boots < MaxBoots
  /\ boots' = boots + 1
  /\ \E last \in LastRecords :
       /\ write_idx' = (last + 1) % NPages
       /\ resumed' = SectorOf((last + 1) % NPages)
  /\ since' = stamp
  /\ programmed' = {} /\ unerased' = FALSE
  /\ pc' = "idle"
  /\ UNCHANGED <<page, busy, stamp, acked>>

\* Mutant of WriteBegin: the sector is erased one record late.
WriteBeginLate ==
  /\ pc = "idle"
  /\ stamp < MaxStamp
  /\ stamp' = stamp + 1
  /\ pc' = IF write_idx % PerSector = 1 THEN "erase" ELSE "program"
  /\ UNCHANGED <<page, busy, write_idx, logHistory, logSession>>

\* Mutant of WriteBegin: the address of the next record decides.
WriteBeginEarly ==
  /\ pc = "idle"
  /\ stamp < MaxStamp
  /\ stamp' = stamp + 1
  /\ pc' = IF (write_idx + 1) % NPages \in Heads THEN "erase" ELSE "program"
  /\ UNCHANGED <<page, busy, write_idx, logHistory, logSession>>

\* The period elapses: bist_task takes a snapshot and calls bist_logger_write,
\* which erases first when the index is at the head of a sector.
WriteBegin ==
  /\ pc = "idle"
  /\ stamp < MaxStamp
  /\ stamp' = stamp + 1
  /\ pc' = IF write_idx \in Heads THEN "erase" ELSE "program"
  /\ UNCHANGED <<page, busy, write_idx, logHistory, logSession>>

\* ext_flash_erase_sector up to its command, which the chip obeys or ignores.
\* It ends here with an error if the chip was seen busy for too long, or if
\* sending failed; the record is then given up.
EraseCommand ==
  /\ pc = "erase"
  /\ \/ busy = {} /\ page' = EraseSector /\ busy' = ThisSector /\ unerased' = FALSE
     \/ unerased' = TRUE /\ UNCHANGED <<page, busy>>
  /\ pc' \in {"erasing", "idle"}
  /\ UNCHANGED <<write_idx, stamp, acked, programmed, logSession>>

\* The wait after the command: ESP_OK if the chip is not busy or a read of its
\* status failed, and an error if it was busy for too long.
EraseReturns ==
  /\ pc = "erasing"
  /\ \/ pc' = "program"
     \/ busy # {} /\ pc' = "idle"
  /\ UNCHANGED <<page, busy, write_idx, stamp, logHistory, logSession>>

\* ext_flash_write_page up to its command, in the same way.
ProgramCommand ==
  /\ pc = "program"
  /\ \/ /\ busy = {} /\ page' = ProgramPage /\ busy' = {write_idx}
        /\ programmed' = programmed \cup {stamp}
     \/ UNCHANGED <<page, busy, programmed>>
  /\ pc' \in {"programming", "idle"}
  /\ UNCHANGED <<write_idx, stamp, acked, unerased, logSession>>

\* Mutant of ProgramOk: the index does not wrap around.
ProgramOkUnwrapped ==
  /\ pc = "programming"
  /\ acked' = acked \cup {stamp}
  /\ write_idx' = write_idx + 1
  /\ pc' = "idle"
  /\ UNCHANGED <<page, busy, stamp, programmed, unerased, logSession>>

\* The wait after it returns ESP_OK: the index moves on.
ProgramOk ==
  /\ pc = "programming"
  /\ acked' = acked \cup {stamp}
  /\ write_idx' = (write_idx + 1) % NPages
  /\ pc' = "idle"
  /\ UNCHANGED <<page, busy, stamp, programmed, unerased, logSession>>

\* The wait ends with an error: the next record goes to the same page.
ProgramFails ==
  /\ pc = "programming" /\ busy # {}
  /\ pc' = "idle"
  /\ UNCHANGED <<page, busy, write_idx, stamp, logHistory, logSession>>

ChipDone ==
  /\ busy # {}
  /\ busy' = {}
  /\ UNCHANGED <<page, write_idx, pc, stamp, logHistory, logSession>>

\* Power is lost, also while the chip is at work.  The RAM is lost with it:
\* LogBoot reads neither write_idx nor pc.
PowerLoss ==
  /\ pc # "off"
  /\ page' \in {page, [i \in Pages |-> IF i \in busy THEN Torn ELSE page[i]]}
  /\ busy' = {}
  /\ pc' = "off"
  /\ UNCHANGED <<write_idx, stamp, logHistory, logSession>>

LogNext == \/ LogBoot \/ WriteBegin \/ EraseCommand \/ EraseReturns
           \/ ProgramCommand \/ ProgramOk \/ ProgramFails
           \/ ChipDone \/ PowerLoss

LogSpec == LogInit /\ [][LogNext]_logVars

-----------------------------------------------------------------------------
(* Properties *)

LogTypeOK ==
  /\ page \in [Pages -> Stamps \cup {Blank, Garbled, Torn}]
  /\ busy \subseteq Pages
  /\ write_idx \in Pages
  /\ pc \in {"off", "idle", "erase", "erasing", "program", "programming"}
  /\ stamp \in 0 .. MaxStamp
  /\ acked \subseteq Stamps /\ programmed \subseteq Stamps
  /\ unerased \in BOOLEAN
  /\ boots \in 0 .. MaxBoots
  /\ resumed \in 0 .. Sectors - 1
  /\ since \in 0 .. MaxStamp

Session == {a \in acked : a > since}
Age(a)  == Cardinality({b \in Session : b >= a})

\* The retention of the circular log within a session: however the erasures
\* and programs fail, and whatever ESP_OK stood for in between, those of the last
\* NPages - PerSector acknowledged records that the chip has programmed lie
\* below the write index, each as far as there are records after it, none erased
\* ahead of time or replaced by another record (bist_logger_write).
RecentRecordsInPlace ==
  \A a \in Session \cap programmed :
    Age(a) <= NPages - PerSector =>
      page[(write_idx - Age(a)) % NPages] \in {a, Garbled, Torn}

\* The damage is confined: an acknowledged record is overprogrammed only in the
\* one sector in which bist_logger_init resumed, or in one that the driver took
\* for erased although the chip had ignored the command.
DamageConfined ==
  [][\A i \in Pages :
       page[i] \in acked /\ page'[i] = Garbled
         => SectorOf(i) = resumed \/ unerased]_logVars

=============================================================================
