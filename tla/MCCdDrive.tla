----------------------------- MODULE MCCdDrive -----------------------------
(* Commands for CdDrive, with the lengths of the code scaled down.         *)
EXTENDS CdDrivePath

Command(op, lba, len, how) == [op |-> op, lba |-> lba, len |-> len, how |-> how]

ReadTwo == Command(READ_10, 1, 2, "DMA")
ReadOne == Command(READ_10, 4, 1, "PIO")
ReadToc == Command(READ_TOC, 1, 4, "DMA")
ReadHeader == Command(READ_HEADER, 2, 8, "DMA")
Sense == Command(REQUEST_SENSE, 0, 2, "PIO")
ShortSense == Command(REQUEST_SENSE, 0, 1, "PIO")
NoSense == Command(REQUEST_SENSE, 0, 0, "PIO")
Ready == Command(TEST_UNIT_READY, 0, 0, "PIO")
ModeSelect == Command(MODE_SELECT, 0, 2, "PIO")
Prevent == Command(PREVENT_ALLOW_MEDIUM_REMOVAL, 0, 0, "PIO")
Unknown == Command(168, 0, 0, "PIO")

SomePlans ==
  {<<ReadTwo, ReadOne>>, <<ReadOne, ReadTwo>>, <<ReadToc, ModeSelect, ReadToc>>,
   <<ReadHeader, Sense>>, <<Ready, ShortSense, Sense>>,
   <<Unknown, NoSense, Sense>>, <<Unknown, Prevent, ReadToc>>}

(* Every byte that one of these commands may bring.                        *)
Bytes ==
  {ZeroByte}
  \cup {SenseByte(k, p) : k \in {NO_SENSE, NOT_READY, ILLEGAL_REQUEST}, p \in 0 .. 1}
  \cup {DiscByte(l, 16 + p) : l \in {1, 2, 4}, p \in 0 .. BLOCK - 1}
  \cup {DiscByte(TOC_LBA + 1, p) : p \in 0 .. 3}
  \cup {DiscByte(2, p) : p \in 12 .. 15}
=============================================================================
