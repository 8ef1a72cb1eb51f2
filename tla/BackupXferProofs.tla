-------------------------- MODULE BackupXferProofs --------------------------
(***************************************************************************)
(* Proofs about the backup RAM transfer and the ROM loader, for any length *)
(* of blocks, images and ROMs, any volumes and mounts at any time.         *)
(***************************************************************************)
EXTENDS BackupXfer, TLAPS

Address3 == Volume \X (0 .. LbaValues - 1) \X Word

Jobs == [vd : Volume, lba : Nat, wr : BOOLEAN]

Types ==
  /\ setup \in Setups
  /\ TypeOK
  /\ {bk_loading, bk_saving, sd_ack_d, sd_ack, copy, bk_sdrd_copying, sdbuf_a0,
      sdbuf_rden, sdbuf_wren, bk_sdrd_we_req, bk_sdrd_rd_req, ioctl_download,
      ioctl_wait, romwr_req, ls_we_ack, ls_rd_ack, disturbed} \subseteq BOOLEAN
  /\ port \in {"IDLE", "DONE"}
  /\ host \in Jobs \cup {NOJOB}

(* The contents have their places.                                         *)
Shapes ==
  /\ DOMAIN sdbuf = Word /\ DOMAIN sdram = Address3
  /\ DOMAIN file = Volume /\ \A v \in Volume : DOMAIN file[v] = Block \X Word
  /\ rom \in [0 .. RomWords -> BOOLEAN]

(* An image has as many whole blocks as fit, or none.                      *)
Images ==
  /\ bk_mounted \in [Volume -> BOOLEAN] /\ bk_sd_blk_cnt \in [Volume -> 0 .. MaxBlocks]

(* A load goes through the states of a load, a save through its own.       *)
Kind ==
  /\ bk_state = "IDLE" => ~bk_loading /\ ~bk_saving
  /\ bk_state \in {"START_SD_RD", "SD_RD", "START_SDRAM_WR", "SDRAM_WR"} => bk_loading
  /\ bk_state \in {"START_SDRAM_RD", "SDRAM_RD", "START_SD_WR", "SD_WR"} => bk_saving

(* The copy engine works only while the state machine waits for it.        *)
Engine ==
  /\ copy => bk_state \in {"SDRAM_WR", "SDRAM_RD"}
  /\ bk_sdrd_copying => copy
  /\ sdbuf_rden => bk_sdrd_copying /\ bk_loading
  /\ sdbuf_wren => bk_sdrd_copying /\ bk_saving
  /\ bk_sdrd_rd_req # ls_rd_ack => bk_sdrd_copying /\ bk_saving /\ ~sdbuf_wren

Asking == bk_state \in {"SD_RD", "SD_WR"}

Answered == sd_ack_d /\ ~sd_ack

(* The handshake with the host: a line is up until the acknowledge is      *)
(* seen; the host has one job at most, the one the state machine waits for.*)
Handshake ==
  /\ sd_rd_bk \in [Volume -> BOOLEAN] /\ sd_wr_bk \in [Volume -> BOOLEAN]
  /\ \A v \in Volume :
       /\ sd_rd_bk[v] <=> bk_state = "SD_RD" /\ v = sd_vd /\ ~sd_ack_d
       /\ sd_wr_bk[v] <=> bk_state = "SD_WR" /\ v = sd_vd /\ ~sd_ack_d
  /\ ~Asking => host = NOJOB /\ ~sd_ack_d
  /\ host # NOJOB =>
       host.vd = sd_vd /\ host.lba = sd_lba_bk /\ (host.wr <=> bk_state = "SD_WR")
  /\ sd_ack => host # NOJOB
  /\ host # NOJOB /\ sd_ack_d => sd_ack

(* The loader asks for a word at a time.                                   *)
LoaderAsked == ioctl_wait => ioctl_download /\ romwr_a < RomWords

(* While nothing is disturbed, a request at the port belongs to the one    *)
(* client that is at work, and an access that is done is the one asked for.*)
OneClient ==
  ~disturbed =>
    /\ ioctl_download => bk_state = "IDLE"
    /\ port = "DONE" => ls_we_req # ls_we_ack \/ bk_sdrd_rd_req # ls_rd_ack
    /\ ls_we_req # ls_we_ack =>
         ioctl_wait \/ (bk_loading /\ bk_sdrd_copying /\ ~sdbuf_rden)

RomLoaded ==
  ioctl_download /\ ~disturbed =>
  /\ \A n \in 0 .. romwr_a - 1 : rom[n]
  /\ ioctl_wait /\ (port = "DONE" \/ ls_we_req = ls_we_ack) => rom[romwr_a]

InBlocks == bk_state \notin {"IDLE", "SELECT_VD", "NEXT_VD"}

(* Words of the block the engine has moved.                                *)
Handled == IF bk_sdrd_copying THEN word ELSE IF copy THEN 0 ELSE Words

Same(b, w) == sdram[sd_vd, b, w] = file[sd_vd][b, w]

BlockSame(b) == \A w \in Word : Same(b, w)

(* What a load has done: the blocks before are in the SDRAM, the current    *)
(* one in the buffer, and the words of it that the engine has handled.     *)
Loaded ==
  /\ InBlocks => \A b \in 0 .. sd_lba_bk - 1 : BlockSame(b)
  /\ bk_state \in {"START_SDRAM_WR", "SDRAM_WR"} \/ Answered =>
       \A w \in Word : sdbuf[w] = file[sd_vd][sd_lba_bk, w]
  /\ bk_state = "SDRAM_WR" => \A w \in 0 .. Handled - 1 : Same(sd_lba_bk, w)
  /\ /\ bk_sdrd_copying /\ ~sdbuf_rden
     /\ port = "DONE" \/ ls_we_req = ls_we_ack
     => Same(sd_lba_bk, word)
  /\ bk_state = "NEXT_LBA" => BlockSame(sd_lba_bk)

(* What a save has done, likewise.                                         *)
Saved ==
  /\ InBlocks => \A b \in 0 .. sd_lba_bk - 1 : BlockSame(b)
  /\ bk_state = "SDRAM_RD" =>
       \A w \in 0 .. Handled - 1 : sdbuf[w] = sdram[sd_vd, sd_lba_bk, w]
  /\ /\ bk_sdrd_copying
     /\ sdbuf_wren \/ port = "DONE" \/ bk_sdrd_rd_req = ls_rd_ack
     => ls_dout = sdram[sd_vd, sd_lba_bk, word]
  /\ bk_state = "START_SD_WR" \/ (bk_state = "SD_WR" /\ ~Answered) =>
       \A w \in Word : sdbuf[w] = sdram[sd_vd, sd_lba_bk, w]
  /\ bk_state = "NEXT_LBA" \/ Answered => BlockSame(sd_lba_bk)

HasBlocks == bk_sd_blk_cnt[sd_vd] # 0

Loads == ~disturbed /\ bk_loading /\ HasBlocks => Loaded
Saves == ~disturbed /\ bk_saving /\ HasBlocks => Saved

Whole == Moved => \A b \in 0 .. bk_sd_blk_cnt[sd_vd] - 1 : BlockSame(b)

Control == Types /\ Shapes /\ Images /\ Kind /\ Engine /\ Handshake /\ LoaderAsked

IInv == Control /\ OneClient /\ BlocksInImage /\ RomLoaded /\ Loads /\ Saves /\ Whole

-----------------------------------------------------------------------------
(* The sizes of a situation, which stay.                                   *)
LEMMA Sizes ==
  ASSUME setup \in Setups
  PROVE  /\ Words \in Nat /\ Words >= 1 /\ MaxBlocks \in Nat /\ MaxBlocks >= 1
         /\ RomWords \in Nat /\ LbaValues = MaxBlocks + 1
         /\ setup.mountable \subseteq Volume /\ setup.tails \subseteq BOOLEAN
BY XferAssumption DEF Words, MaxBlocks, RomWords, LbaValues

(* Every step keeps the sizes and the indices made of them.                 *)
LEMMA SizesStay ==
  ASSUME Next
  PROVE  /\ setup' = setup /\ Words' = Words /\ MaxBlocks' = MaxBlocks
         /\ RomWords' = RomWords /\ Word' = Word /\ Block' = Block
         /\ LbaValues' = LbaValues /\ Address3' = Address3
<1>1. setup' = setup
  BY DEF Next, Clock, Port, Loader, Host
<1>2. QED
  BY <1>1 DEF Words, MaxBlocks, RomWords, LbaValues, Word, Block, Address3

(* One toggled request carries those of two: a toggle of either asks, or   *)
(* takes back what the other asked.                                        *)
LEMMA Toggles ==
  ASSUME NEW p \in BOOLEAN, NEW q \in BOOLEAN, NEW ack \in BOOLEAN
  PROVE  /\ Xor(p, q) \in BOOLEAN
         /\ Xor(~p, q) # ack <=> Xor(p, q) = ack
         /\ Xor(p, ~q) # ack <=> Xor(p, q) = ack
         /\ q = Xor(ack, p) <=> Xor(p, q) = ack
         /\ p = Xor(ack, q) <=> Xor(p, q) = ack
         /\ Xor(p, TRUE) # p
BY DEF Xor

(* Counting up in a register of n values.                                  *)
LEMMA CountsUp ==
  ASSUME NEW n \in Nat, n >= 1, NEW i \in 0 .. n - 1
  PROVE  /\ (i + 1) % n \in 0 .. n - 1
         /\ i + 1 < n => (i + 1) % n = i + 1
         /\ i + 1 = n => (i + 1) % n = 0
OBVIOUS

-----------------------------------------------------------------------------
(* The registers of the state machine and of the copy engine.              *)

FsmTypes ==
  /\ bk_state \in States /\ sd_vd \in Volume /\ sd_lba_bk \in 0 .. LbaValues - 1
  /\ bk_loading \in BOOLEAN /\ bk_saving \in BOOLEAN /\ copy \in BOOLEAN
  /\ bk_state # "IDLE" => bk_loading # bk_saving

EngineTypes ==
  /\ word \in Word
  /\ {bk_sdrd_copying, sdbuf_a0, sdbuf_rden, sdbuf_wren, bk_sdrd_we_req,
      bk_sdrd_rd_req} \subseteq BOOLEAN

(* An edge of the clock keeps the state machine's registers in range.       *)
LEMMA FsmTypesStep ==
  ASSUME Types, Images, Kind, Clock
  PROVE  FsmTypes'
<1>1. setup' = setup /\ LbaValues' = LbaValues /\ LbaValues \in Nat /\ LbaValues >= 2
  BY Sizes DEF Types, Clock, LbaValues, MaxBlocks
<1>2. /\ FsmTypes /\ bk_mounted \in [Volume -> BOOLEAN]
      /\ bk_state = "IDLE" => ~bk_loading /\ ~bk_saving
  BY DEF Types, TypeOK, FsmTypes, Images, Kind
<1>3. CASE Copy
  <2>1. UNCHANGED <<bk_loading, bk_saving, sd_vd, sd_lba_bk>>
        /\ bk_state \in {"SDRAM_WR", "SDRAM_RD"}
    BY <1>3 DEF Copy
  <2>2. copy' \in BOOLEAN
    BY <1>2, <1>3 DEF Copy, CopyBegins, CopyReadsBuffer, CopyGotWord, CopyNextWord,
       CopyWaits, CopyDone, copyvars, FsmTypes
  <2>3. bk_state' \in {bk_state, "NEXT_LBA", "START_SDRAM_WR", "START_SD_WR"}
    BY <1>3 DEF Copy, CopyBegins, CopyReadsBuffer, CopyGotWord, CopyNextWord,
       CopyWaits, CopyDone
  <2>4. QED
    BY <1>1, <1>2, <2>1, <2>2, <2>3 DEF FsmTypes, States
<1>4. CASE Idle
  <2>1. ASSUME NEW loading \in BOOLEAN, bk_state = "IDLE", Begin(loading)
        PROVE  FsmTypes'
    <3>1. bk_loading' = loading /\ bk_saving' = (~loading)
      BY <1>2, <2>1 DEF Begin
    <3>2. QED
      BY <1>1, <1>2, <2>1, <3>1 DEF Begin, FsmTypes, States, Volume
  <2>2. CASE Goto("IDLE")
    BY <1>1, <1>2, <2>2 DEF Goto, FsmTypes, States
  <2>3. QED
    BY <1>4, <2>1, <2>2 DEF Idle
<1>5. CASE SelectVd
  BY <1>1, <1>2, <1>5 DEF SelectVd, FsmTypes, States
<1>6. CASE StartSd
  BY <1>1, <1>2, <1>6 DEF StartSd, Goto, FsmTypes, States
<1>7. CASE WaitSd
  BY <1>1, <1>2, <1>7 DEF WaitSd, Goto, FsmTypes, States
<1>8. CASE StartCopy
  BY <1>1, <1>2, <1>8 DEF StartCopy, FsmTypes, States
<1>9. CASE NextLba
  <2>1. (sd_lba_bk + 1) % LbaValues \in 0 .. LbaValues - 1
    BY <1>1, <1>2, CountsUp DEF FsmTypes
  <2>2. QED
    BY <1>1, <1>2, <1>9, <2>1 DEF NextLba, FsmTypes, States
<1>10. CASE NextVd
  <2>1. sd_vd' \in Volume /\ sd_lba_bk' = sd_lba_bk /\ copy' = copy
    BY <1>2, <1>10 DEF NextVd, FsmTypes, Volume
  <2>2. CASE sd_vd = 1
    BY <1>1, <1>2, <1>10, <2>1, <2>2 DEF NextVd, FsmTypes, States
  <2>3. CASE sd_vd # 1
    BY <1>1, <1>2, <1>10, <2>1, <2>3 DEF NextVd, FsmTypes, States
  <2>4. QED
    BY <2>2, <2>3
<1>11. QED
  BY <1>3, <1>4, <1>5, <1>6, <1>7, <1>8, <1>9, <1>10 DEF Clock, Fsm

(* An edge of the clock keeps the copy engine's registers in range.         *)
LEMMA EngineTypesStep ==
  ASSUME Types, Clock
  PROVE  EngineTypes'
<1>1. Word' = Word /\ Word = 0 .. Words - 1 /\ Words \in Nat /\ Words >= 1
  BY Sizes DEF Types, Clock, Word, Words
<1>2. EngineTypes /\ bk_loading \in BOOLEAN
  BY DEF Types, TypeOK, EngineTypes
<1>3. CASE Copy
  <2>1. CASE CopyBegins
    <3>1. word' \in Word
      BY <1>1, <2>1 DEF CopyBegins
    <3>2. {bk_sdrd_copying', sdbuf_a0', sdbuf_rden', sdbuf_wren', bk_sdrd_we_req'} \subseteq BOOLEAN
      BY <1>2, <2>1 DEF CopyBegins, EngineTypes
    <3>3. bk_sdrd_rd_req' \in BOOLEAN
      <4>1. bk_sdrd_rd_req' \in {bk_sdrd_rd_req, ~bk_sdrd_rd_req}
        BY <2>1, Zenon DEF CopyBegins
      <4>2. QED
        BY <1>2, <4>1 DEF EngineTypes
    <3>4. QED
      BY <1>1, <3>1, <3>2, <3>3 DEF EngineTypes
  <2>2. CASE CopyReadsBuffer
    BY <1>1, <1>2, <2>2 DEF CopyReadsBuffer, EngineTypes
  <2>3. CASE CopyGotWord
    BY <1>1, <1>2, <2>3 DEF CopyGotWord, EngineTypes
  <2>4. CASE CopyNextWord
    <3>1. (word + 1) % Words \in Word
      BY <1>1, <1>2, CountsUp DEF EngineTypes
    <3>2. QED
      BY <1>1, <1>2, <2>4, <3>1 DEF CopyNextWord, EngineTypes, Xor
  <2>5. CASE CopyWaits \/ CopyDone
    BY <1>1, <1>2, <2>5 DEF CopyWaits, CopyDone, copyvars, EngineTypes
  <2>6. QED
    BY <1>3, <2>1, <2>2, <2>3, <2>4, <2>5 DEF Copy
<1>4. CASE ~Copy
  BY <1>1, <1>2, <1>4 DEF Clock, EngineTypes
<1>5. QED
  BY <1>3, <1>4

(* Every step keeps every register in range.                                *)
LEMMA TypesStep ==
  ASSUME Control, Next
  PROVE  Types'
<1>0. Types /\ Images /\ Kind /\ Shapes /\ LoaderAsked
  BY DEF Control
<1>1. setup' \in Setups /\ RomWords' = RomWords /\ LbaValues' = LbaValues /\ Word' = Word
  BY <1>0, SizesStay DEF Types
<1>2. FsmTypes' /\ EngineTypes'
  <2>1. CASE Clock
    BY <1>0, <2>1, FsmTypesStep, EngineTypesStep
  <2>2. CASE ~Clock
    <3>1. UNCHANGED <<fsmvars, copyvars>>
      BY <2>2 DEF Next, Port, Loader, Host
    <3>2. FsmTypes /\ EngineTypes
      BY <1>0 DEF Types, TypeOK, FsmTypes, EngineTypes
    <3>3. QED
      BY <1>1, <3>1, <3>2 DEF fsmvars, copyvars, FsmTypes, EngineTypes
  <2>3. QED
    BY <2>1, <2>2
<1>3. sd_ack_d' \in BOOLEAN /\ sd_ack' \in BOOLEAN /\ host' \in Jobs \cup {NOJOB}
  <2>1. sd_lba_bk \in Nat /\ sd_vd \in Volume
    BY <1>0, Sizes DEF Types, TypeOK
  <2>2. ASSUME NEW v \in Volume, HostPolls(v), sd_wr_bk[v] \in BOOLEAN
        PROVE  host' \in Jobs
    BY <2>1, <2>2 DEF HostPolls, Jobs
  <2>3. CASE Clock
    BY <1>0, <2>3 DEF Clock, hostvars, Types
  <2>4. CASE Port \/ Loader
    BY <1>0, <2>4 DEF Port, Loader, hostvars, fsmvars, Types
  <2>5. CASE Host
    <3>1. ASSUME NEW v \in Volume, HostPolls(v)
          PROVE  host' \in Jobs /\ sd_ack' = sd_ack
      BY <1>0, <2>2, <3>1 DEF HostPolls, Control, Handshake
    <3>2. CASE HostAcks \/ HostDone
      BY <1>0, <2>5, <3>2 DEF HostAcks, HostDone, Host, fsmvars, Types
    <3>3. ASSUME NEW v, NEW n, NEW tail, HostMounts(v, n, tail)
          PROVE  UNCHANGED <<sd_ack, host>>
      BY <3>3 DEF HostMounts, hostvars
    <3>4. UNCHANGED sd_ack_d
      BY <2>5 DEF Host, fsmvars
    <3>5. QED
      BY <1>0, <2>5, <3>1, <3>2, <3>3, <3>4 DEF Host, Types
  <2>6. QED
    BY <2>3, <2>4, <2>5 DEF Next
<1>4. /\ ioctl_download' \in BOOLEAN /\ ioctl_wait' \in BOOLEAN /\ romwr_req' \in BOOLEAN
      /\ romwr_a' \in 0 .. RomWords
  <2>1. RomWords \in Nat
    BY <1>0, Sizes DEF Types
  <2>2. CASE Loader
    <3>1. romwr_a' \in 0 .. RomWords
      BY <1>0, <2>1, <2>2 DEF Loader, LoaderBegins, LoaderAsks, LoaderContinues, LoaderEnds,
         Types, TypeOK, LoaderAsked
    <3>2. romwr_req' \in {romwr_req, ~romwr_req}
      BY <2>2 DEF Loader, LoaderBegins, LoaderAsks, LoaderContinues, LoaderEnds
    <3>3. ioctl_wait' \in {ioctl_wait, TRUE, FALSE} /\ ioctl_download' \in {ioctl_download, TRUE, FALSE}
      BY <2>2 DEF Loader, LoaderBegins, LoaderAsks, LoaderContinues, LoaderEnds
    <3>4. QED
      BY <1>0, <1>1, <3>1, <3>2, <3>3 DEF Types
  <2>3. CASE ~Loader
    BY <1>0, <2>1, <2>3 DEF Next, Clock, Port, Host, romvars, Types, TypeOK
  <2>4. QED
    BY <2>2, <2>3
<1>5. /\ ls_we_ack' \in BOOLEAN /\ ls_rd_ack' \in BOOLEAN /\ port' \in {"IDLE", "DONE"}
  BY <1>0 DEF Next, Clock, Port, Loader, Host, PortWrites, PortReads, PortAcks, ls_we_req, Xor,
     portvars, Types
<1>6. disturbed' \in BOOLEAN
  BY <1>0 DEF Next, Clock, Port, Loader, Host, LoaderBegins, LoaderAsks, LoaderContinues,
     LoaderEnds, HostPolls, HostAcks, HostDone, HostMounts, Types
<1>7. QED
  BY <1>1, <1>2, <1>3, <1>4, <1>5, <1>6 DEF Types, TypeOK, FsmTypes, EngineTypes

-----------------------------------------------------------------------------
(* Contents, images and the loader.                                        *)
LEMMA ShapesStep ==
  ASSUME Control, Next
  PROVE  Shapes'
<1>0. Shapes /\ Types
  BY DEF Control
<1>1. /\ RomWords' = RomWords /\ Word' = Word /\ Block' = Block
      /\ Address3' = Address3
  BY SizesStay
<1>2. DOMAIN sdbuf' = Word
  <2>1. UNCHANGED sdbuf \/ CopyNextWord \/ HostDone
    BY DEF Next, Clock, Copy, CopyBegins, CopyReadsBuffer, CopyGotWord, CopyWaits, CopyDone,
       Port, PortWrites, PortReads, PortAcks, Loader, Host, HostPolls, HostAcks, HostMounts,
       datavars
  <2>2. CASE CopyNextWord
    BY <1>0, <2>2 DEF CopyNextWord, Shapes
  <2>3. CASE HostDone
    BY <1>0, <2>3 DEF HostDone, Shapes
  <2>4. QED
    BY <1>0, <2>1, <2>2, <2>3 DEF Shapes
<1>3. DOMAIN sdram' = Address3
  <2>1. UNCHANGED sdram \/ PortWrites
    BY DEF Next, Clock, Port, PortReads, PortAcks, Loader, Host, datavars
  <2>2. QED
    BY <1>0, <2>1 DEF PortWrites, Shapes
<1>4. DOMAIN file' = Volume /\ \A v \in Volume : DOMAIN file'[v] = Block \X Word
  <2>1. \/ UNCHANGED file
        \/ HostDone
        \/ \E v \in Volume : \E n, tail : HostMounts(v, n, tail)
    <3>1. setup.mountable \subseteq Volume
      BY <1>0, Sizes DEF Types
    <3>2. QED
      BY <3>1 DEF Next, Clock, Port, PortWrites, PortReads, PortAcks, Loader, Host, HostPolls,
         HostAcks, datavars
  <2>2. CASE HostDone
    BY <1>0, <2>2 DEF HostDone, Shapes
  <2>3. ASSUME NEW v \in Volume, NEW n, NEW tail, HostMounts(v, n, tail)
        PROVE  DOMAIN file' = Volume /\ \A u \in Volume : DOMAIN file'[u] = Block \X Word
    BY <1>0, <2>3 DEF HostMounts, Shapes
  <2>4. QED
    BY <1>0, <2>1, <2>2, <2>3 DEF Shapes
<1>5. rom' \in [0 .. RomWords -> BOOLEAN]
  <2>1. UNCHANGED rom \/ PortWrites \/ LoaderBegins
    BY DEF Next, Clock, Port, PortReads, PortAcks, Loader, LoaderAsks, LoaderContinues,
       LoaderEnds, Host, datavars
  <2>2. CASE PortWrites
    <3>1. romwr_a \in 0 .. RomWords /\ ioctl_wait \in BOOLEAN
      BY <1>0 DEF Types, TypeOK
    <3>2. (rom[romwr_a] \/ ioctl_wait) \in BOOLEAN
      OBVIOUS
    <3>3. rom' \in {rom, [rom EXCEPT ![romwr_a] = @ \/ ioctl_wait]}
      BY <2>2 DEF PortWrites
    <3>4. QED
      BY <1>0, <3>1, <3>2, <3>3 DEF Shapes
  <2>3. CASE LoaderBegins
    BY <1>0, <2>3 DEF LoaderBegins, Shapes
  <2>4. QED
    BY <1>0, <2>1, <2>2, <2>3 DEF Shapes
<1>6. QED
  BY <1>1, <1>2, <1>3, <1>4, <1>5 DEF Shapes

(* Only a mount changes the images, and it counts their blocks.             *)
LEMMA ImagesStep ==
  ASSUME Control, Next
  PROVE  Images'
<1>0. Images /\ Types
  BY DEF Control
<1>1. MaxBlocks' = MaxBlocks /\ MaxBlocks \in Nat
  BY <1>0, Sizes, SizesStay DEF Types
<1>2. setup.mountable \subseteq Volume /\ setup.tails \subseteq BOOLEAN
  BY <1>0, Sizes DEF Types
<1>3. \/ UNCHANGED imgvars
      \/ \E v \in Volume, n \in 0 .. MaxBlocks, tail \in BOOLEAN : HostMounts(v, n, tail)
  BY <1>2 DEF Next, Clock, Port, Loader, Host, HostPolls, HostAcks, HostDone, imgvars
<1>4. ASSUME NEW v \in Volume, NEW n \in 0 .. MaxBlocks, NEW tail \in BOOLEAN,
             HostMounts(v, n, tail)
      PROVE  Images'
  <2>1. /\ bk_mounted' = [bk_mounted EXCEPT ![v] = n # 0 \/ tail]
        /\ bk_sd_blk_cnt' = [bk_sd_blk_cnt EXCEPT ![v] = n]
    BY <1>4 DEF HostMounts
  <2>2. QED
    BY <1>0, <1>1, <2>1 DEF Images
<1>5. QED
  BY <1>0, <1>1, <1>3, <1>4 DEF Images, imgvars

(* Every step keeps the loader to words of its ROM.                         *)
LEMMA LoaderAskedStep ==
  ASSUME Control, Next
  PROVE  LoaderAsked'
<1>0. LoaderAsked /\ Types
  BY DEF Control
<1>1. RomWords' = RomWords
  BY SizesStay
<1>2. CASE Loader
  <2>1. CASE LoaderBegins
    BY <1>0, <2>1 DEF LoaderBegins, LoaderAsked
  <2>2. CASE LoaderAsks
    BY <1>0, <1>1, <2>2 DEF LoaderAsks, LoaderAsked
  <2>3. CASE LoaderContinues
    BY <2>3 DEF LoaderContinues, LoaderAsked
  <2>4. CASE LoaderEnds
    BY <2>4 DEF LoaderEnds, LoaderAsked
  <2>5. QED
    BY <1>2, <2>1, <2>2, <2>3, <2>4 DEF Loader
<1>3. CASE ~Loader
  BY <1>0, <1>1, <1>3 DEF Next, Clock, Port, Host, romvars, LoaderAsked
<1>4. QED
  BY <1>2, <1>3

-----------------------------------------------------------------------------
(* The state machine and the engine.                                       *)
LEMMA KindStep ==
  ASSUME Control, Next
  PROVE  Kind'
<1>0. Kind /\ Types /\ FsmTypes
  BY DEF Control, Types, TypeOK, FsmTypes
<1>1. CASE Clock
  <2>1. CASE Copy
    BY <1>0, <2>1 DEF Copy, CopyBegins, CopyReadsBuffer, CopyGotWord, CopyNextWord, CopyWaits,
       CopyDone, Kind, FsmTypes
  <2>2. CASE Idle
    BY <1>0, <2>2 DEF Idle, Begin, Goto, Kind, FsmTypes
  <2>3. CASE SelectVd
    BY <1>0, <2>3 DEF SelectVd, Kind, FsmTypes
  <2>4. CASE StartSd \/ WaitSd
    BY <1>0, <2>4 DEF StartSd, WaitSd, Goto, Kind, FsmTypes
  <2>5. CASE StartCopy
    BY <1>0, <2>5 DEF StartCopy, Kind, FsmTypes
  <2>6. CASE NextLba
    BY <1>0, <2>6 DEF NextLba, Kind, FsmTypes
  <2>7. CASE NextVd
    BY <1>0, <2>7 DEF NextVd, Kind, FsmTypes
  <2>8. QED
    BY <1>1, <2>1, <2>2, <2>3, <2>4, <2>5, <2>6, <2>7 DEF Clock, Fsm
<1>2. CASE ~Clock
  BY <1>0, <1>2 DEF Next, Port, Loader, Host, fsmvars, Kind
<1>3. QED
  BY <1>1, <1>2

(* Every step keeps the engine to the states that wait for it.              *)
LEMMA EngineStep ==
  ASSUME Control, Next
  PROVE  Engine'
<1>0. Kind /\ Engine /\ FsmTypes /\ EngineTypes /\ ls_rd_ack \in BOOLEAN
  BY DEF Control, Types, TypeOK, FsmTypes, EngineTypes
<1>1. CASE Copy /\ Clock
  <2>0. /\ UNCHANGED <<bk_loading, bk_saving, ls_rd_ack>> /\ bk_loading # bk_saving
        /\ bk_state \in {"SDRAM_WR", "SDRAM_RD"}
    BY <1>0, <1>1 DEF Copy, Clock, portvars, FsmTypes
  <2>1. CASE CopyBegins
    BY <1>0, <2>0, <2>1 DEF CopyBegins, Engine, EngineTypes, FsmTypes
  <2>2. CASE CopyReadsBuffer
    BY <1>0, <2>0, <2>2 DEF CopyReadsBuffer, Engine, EngineTypes, FsmTypes
  <2>3. CASE CopyGotWord
    BY <1>0, <2>0, <2>3 DEF CopyGotWord, Engine, EngineTypes, FsmTypes
  <2>4. CASE CopyNextWord
    BY <1>0, <2>0, <2>4 DEF CopyNextWord, WordDone, Engine, EngineTypes, FsmTypes, Xor
  <2>5. CASE CopyWaits \/ CopyDone
    BY <1>0, <2>0, <2>5 DEF CopyWaits, CopyDone, copyvars, Engine, EngineTypes, FsmTypes
  <2>6. QED
    BY <1>1, <2>1, <2>2, <2>3, <2>4, <2>5 DEF Copy
<1>2. CASE Fsm /\ Clock /\ ~Copy
  <2>0. UNCHANGED <<bk_sdrd_copying, sdbuf_rden, sdbuf_wren, bk_sdrd_rd_req, ls_rd_ack>>
    BY <1>2 DEF Clock, portvars
  <2>1. ~copy /\ (copy' => bk_state' \in {"SDRAM_WR", "SDRAM_RD"})
    BY <1>0, <1>2 DEF Fsm, Idle, Begin, SelectVd, StartSd, Goto, WaitSd, StartCopy, NextLba,
       NextVd, Engine
  <2>2. QED
    BY <1>0, <2>0, <2>1 DEF Engine
<1>3. CASE ~Clock
  <2>1. UNCHANGED <<fsmvars, copyvars>> /\ ls_rd_ack' \in {ls_rd_ack, bk_sdrd_rd_req}
    BY <1>3 DEF Next, Port, PortWrites, PortReads, PortAcks, Loader, Host, portvars
  <2>2. QED
    BY <1>0, <2>1 DEF fsmvars, copyvars, Engine
<1>4. QED
  BY <1>1, <1>2, <1>3 DEF Clock

-----------------------------------------------------------------------------
(* The handshake with the host.                                            *)

NoLines == [v \in Volume |-> FALSE]

(* Where the state machine asks for no block, no line is up and the host    *)
(* has no job.                                                              *)
LEMMA NotAsking ==
  ASSUME Handshake, ~Asking
  PROVE  host = NOJOB /\ ~sd_ack /\ ~sd_ack_d /\ sd_rd_bk = NoLines /\ sd_wr_bk = NoLines
BY DEF Handshake, Asking, NoLines

(* Every step keeps the handshake with the host.                            *)
LEMMA HandshakeStep ==
  ASSUME Control, Next
  PROVE  Handshake'
<1>0. /\ Handshake /\ FsmTypes /\ host \in Jobs \cup {NOJOB}
      /\ sd_ack \in BOOLEAN /\ sd_ack_d \in BOOLEAN
  BY DEF Control, Types, TypeOK, FsmTypes
<1>1. CASE Clock /\ ~Asking
  <2>1. /\ host' = NOJOB /\ ~sd_ack' /\ ~sd_ack_d'
    BY <1>0, <1>1, NotAsking DEF Clock, hostvars
  <2>2. CASE StartSd
    <3>1. sd_vd' = sd_vd /\ sd_vd \in Volume
      BY <1>0, <2>2 DEF StartSd, Goto, FsmTypes
    <3>2. CASE bk_state' = "SD_RD"
      <4>1. sd_rd_bk' = [NoLines EXCEPT ![sd_vd] = TRUE] /\ sd_wr_bk' = NoLines
        BY <1>0, <1>1, <2>2, <3>2, NotAsking DEF StartSd, Goto, SdRequest
      <4>2. QED
        BY <2>1, <3>1, <3>2, <4>1 DEF Handshake, Asking, NoLines
    <3>3. CASE bk_state' = "SD_WR"
      <4>1. sd_wr_bk' = [NoLines EXCEPT ![sd_vd] = TRUE] /\ sd_rd_bk' = NoLines
        BY <1>0, <1>1, <2>2, <3>3, NotAsking DEF StartSd, Goto, SdRequest
      <4>2. QED
        BY <2>1, <3>1, <3>3, <4>1 DEF Handshake, Asking, NoLines
    <3>4. QED
      BY <2>2, <3>2, <3>3 DEF StartSd, Goto
  <2>3. CASE ~StartSd
    <3>1. NoSd /\ ~Asking'
      BY <1>1, <2>3 DEF Clock, Fsm, Idle, Begin, SelectVd, WaitSd, StartCopy, Goto, NextLba,
         NextVd, Copy, CopyBegins, CopyReadsBuffer, CopyGotWord, CopyNextWord, CopyWaits,
         CopyDone, Asking
    <3>2. sd_rd_bk' = NoLines /\ sd_wr_bk' = NoLines
      BY <1>0, <1>1, <3>1, NotAsking DEF NoSd, AckRises
    <3>3. QED
      BY <2>1, <3>1, <3>2 DEF Handshake, Asking, NoLines
  <2>4. QED
    BY <2>2, <2>3
<1>2. CASE Clock /\ Asking
  <2>1. /\ NoSd /\ UNCHANGED <<sd_vd, sd_lba_bk, host, sd_ack>> /\ sd_ack_d' = sd_ack
        /\ bk_state' = IF ~AckFalls THEN bk_state
                       ELSE IF bk_state = "SD_RD" THEN "START_SDRAM_WR" ELSE "NEXT_LBA"
    BY <1>2 DEF Clock, Copy, Fsm, Idle, SelectVd, StartSd, WaitSd, StartCopy, NextLba, NextVd,
       Goto, Asking, hostvars
  <2>2. CASE AckRises
    <3>1. /\ sd_rd_bk' = NoLines /\ sd_wr_bk' = NoLines
          /\ bk_state' = bk_state /\ sd_ack_d' /\ sd_ack' /\ host' # NOJOB
      BY <1>0, <2>1, <2>2 DEF NoSd, AckRises, AckFalls, NoLines, Handshake
    <3>2. QED
      BY <1>0, <1>2, <2>1, <3>1 DEF Handshake, Asking, NoLines
  <2>3. CASE AckFalls
    <3>1. /\ UNCHANGED <<sd_rd_bk, sd_wr_bk>> /\ host' = NOJOB /\ ~sd_ack_d' /\ ~sd_ack' /\ sd_ack_d
          /\ bk_state' \in {"START_SDRAM_WR", "NEXT_LBA"}
      BY <1>0, <2>1, <2>3 DEF NoSd, AckRises, AckFalls, Handshake
    <3>2. QED
      BY <1>0, <2>1, <3>1 DEF Handshake, Asking
  <2>4. CASE ~AckRises /\ ~AckFalls
    BY <1>0, <2>1, <2>4 DEF NoSd, AckRises, AckFalls, Handshake, Asking
  <2>5. QED
    BY <2>2, <2>3, <2>4
<1>3. CASE Port \/ Loader
  BY <1>0, <1>3 DEF Port, Loader, fsmvars, hostvars, Handshake, Asking
<1>4. CASE Host
  <2>0. UNCHANGED fsmvars
    BY <1>4 DEF Host
  <2>1. ASSUME NEW v \in Volume, HostPolls(v)
        PROVE  Handshake'
    <3>1. /\ host' = [vd |-> v, lba |-> sd_lba_bk, wr |-> sd_wr_bk[v]] /\ sd_ack' = sd_ack
          /\ ~sd_ack /\ (sd_rd_bk[v] \/ sd_wr_bk[v])
      BY <2>1 DEF HostPolls
    <3>2. Asking /\ v = sd_vd /\ ~sd_ack_d /\ (sd_wr_bk[v] <=> bk_state = "SD_WR")
      BY <1>0, <3>1 DEF Handshake, Asking
    <3>3. host'.vd = v /\ host'.lba = sd_lba_bk /\ host'.wr = sd_wr_bk[v]
      BY <3>1
    <3>4. host'.wr <=> bk_state = "SD_WR"
      BY <3>2, <3>3, Zenon
    <3>5. QED
      BY <1>0, <2>0, <3>1, <3>2, <3>3, <3>4 DEF fsmvars, Handshake, Asking
  <2>2. CASE HostAcks
    BY <1>0, <2>0, <2>2 DEF HostAcks, fsmvars, Handshake, Asking
  <2>3. CASE HostDone
    BY <1>0, <2>0, <2>3 DEF HostDone, fsmvars, Handshake, Asking
  <2>4. ASSUME NEW v, NEW n, NEW tail, HostMounts(v, n, tail)
        PROVE  Handshake'
    BY <1>0, <2>0, <2>4 DEF HostMounts, hostvars, fsmvars, Handshake, Asking
  <2>5. QED
    BY <1>4, <2>1, <2>2, <2>3, <2>4 DEF Host
<1>5. QED
  BY <1>1, <1>2, <1>3, <1>4 DEF Next

(* Every step keeps what does not depend on the contents.                   *)
LEMMA ControlStep ==
  ASSUME Control, Next
  PROVE  Control'
BY TypesStep, ShapesStep, ImagesStep, KindStep, EngineStep, HandshakeStep, LoaderAskedStep
   DEF Control

-----------------------------------------------------------------------------
(* One client at a time.                                                   *)

WritePends == ls_we_req # ls_we_ack
ReadPends == bk_sdrd_rd_req # ls_rd_ack

(* What does not disturb: a step of an undisturbed transfer, or one that   *)
(* starts from rest.                                                       *)
LEMMA Calm ==
  ASSUME Types, ~disturbed'
  PROVE  /\ Clock => \/ ~disturbed
                     \/ bk_state = "IDLE" /\ Quiet /\ ~ioctl_download
         /\ Clock /\ ioctl_download => bk_state' = "IDLE" /\ ~disturbed
         /\ Port \/ LoaderAsks \/ LoaderContinues \/ LoaderEnds \/ Host => ~disturbed
         /\ LoaderBegins => bk_state = "IDLE" /\ Quiet
         /\ \A v, n, tail : HostMounts(v, n, tail) => bk_state = "IDLE"
<1>1. ASSUME Clock
      PROVE  /\ ~disturbed \/ (bk_state = "IDLE" /\ Quiet /\ ~ioctl_download)
             /\ ioctl_download => bk_state' = "IDLE" /\ ~disturbed
  <2>1. disturbed' = IF ioctl_download THEN disturbed \/ bk_state' # "IDLE"
                    ELSE disturbed /\ (bk_state # "IDLE" \/ ~Quiet)
    BY <1>1 DEF Clock
  <2>2. CASE ioctl_download
    BY <2>1, <2>2, Zenon
  <2>3. CASE ~ioctl_download
    BY <2>1, <2>3, Zenon
  <2>4. QED
    BY <2>2, <2>3
<1>2. Port \/ LoaderAsks \/ LoaderContinues \/ LoaderEnds => ~disturbed
  BY DEF Port, LoaderAsks, LoaderContinues, LoaderEnds
<1>3. LoaderBegins => bk_state = "IDLE" /\ Quiet
  BY Zenon DEF LoaderBegins
<1>4. ASSUME NEW v, NEW n, NEW tail, HostMounts(v, n, tail)
      PROVE  bk_state = "IDLE" /\ ~disturbed
  BY <1>4, Zenon DEF HostMounts
<1>5. Host => ~disturbed
  BY <1>4 DEF Host, HostPolls, HostAcks, HostDone
<1>6. QED
  BY <1>1, <1>2, <1>3, <1>4, <1>5

(* What a step leaves of the port belongs to one client.                    *)
LEMMA OneClientStep ==
  ASSUME Control, OneClient, Next, ~disturbed'
  PROVE  /\ ioctl_download' => bk_state' = "IDLE"
         /\ port' = "DONE" => WritePends' \/ ReadPends'
         /\ WritePends' => ioctl_wait' \/ (bk_loading' /\ bk_sdrd_copying' /\ ~sdbuf_rden')
<1>0. /\ Types /\ Kind /\ Engine /\ LoaderAsked /\ EngineTypes /\ FsmTypes
      /\ bk_sdrd_we_req \in BOOLEAN /\ romwr_req \in BOOLEAN /\ ls_we_ack \in BOOLEAN
      /\ port \in {"IDLE", "DONE"}
  BY DEF Control, Types, TypeOK, EngineTypes, FsmTypes
<1>1. CASE Copy /\ Clock
  <2>0. /\ UNCHANGED <<bk_loading, bk_saving, romvars, portvars>> /\ bk_loading # bk_saving
        /\ bk_state \in {"SDRAM_WR", "SDRAM_RD"}
    BY <1>0, <1>1 DEF Copy, Clock, FsmTypes
  <2>1. ~disturbed /\ ~ioctl_download /\ ~ioctl_wait
    BY <1>0, <1>1, <2>0, Calm DEF OneClient, LoaderAsked
  <2>2. /\ port = "DONE" => WritePends \/ ReadPends
        /\ WritePends => bk_loading /\ bk_sdrd_copying /\ ~sdbuf_rden
    BY <2>1 DEF OneClient, WritePends, ReadPends
  <2>3. UNCHANGED <<ioctl_download, ioctl_wait, port, ls_we_ack, ls_rd_ack, romwr_req>>
    BY <2>0 DEF romvars, portvars
  <2>4. CASE CopyBegins
    <3>1. port # "DONE" /\ ~WritePends
      BY <1>0, <2>2, <2>4 DEF CopyBegins, Engine, ReadPends
    <3>2. WritePends' <=> WritePends
      BY <2>3, <2>4 DEF CopyBegins, WritePends, ls_we_req
    <3>3. QED
      BY <2>1, <2>3, <3>1, <3>2
  <2>5. CASE CopyReadsBuffer
    <3>1. port # "DONE" /\ ~WritePends
      BY <1>0, <2>0, <2>2, <2>5 DEF CopyReadsBuffer, Engine, ReadPends, FsmTypes
    <3>2. CASE sdbuf_a0
      BY <2>0, <2>1, <2>3, <2>5, <3>1, <3>2 DEF CopyReadsBuffer
    <3>3. CASE ~sdbuf_a0
      <4>1. WritePends' <=> WritePends
        BY <2>3, <2>5, <3>3 DEF CopyReadsBuffer, WritePends, ls_we_req
      <4>2. QED
        BY <2>1, <2>3, <3>1, <4>1
    <3>4. QED
      BY <3>2, <3>3
  <2>6. CASE CopyGotWord \/ CopyWaits \/ CopyDone
    <3>1. UNCHANGED <<bk_sdrd_we_req, bk_sdrd_rd_req, bk_sdrd_copying, sdbuf_rden>>
      BY <2>6 DEF CopyGotWord, CopyWaits, CopyDone, copyvars
    <3>2. (WritePends' <=> WritePends) /\ (ReadPends' <=> ReadPends)
      BY <2>3, <3>1 DEF WritePends, ReadPends, ls_we_req
    <3>3. QED
      BY <2>0, <2>1, <2>2, <2>3, <3>1, <3>2
  <2>7. CASE CopyNextWord
    <3>1. ~WritePends
      <4>1. CASE bk_loading
        <5>1. bk_sdrd_we_req = bk_sdrd_we_ack
          BY <1>0, <2>0, <2>7, <4>1 DEF CopyNextWord, WordDone, FsmTypes
        <5>2. QED
          BY <1>0, <5>1, Toggles DEF bk_sdrd_we_ack, WritePends, ls_we_req
      <4>2. CASE ~bk_loading
        BY <2>2, <4>2
      <4>3. QED
        BY <4>1, <4>2
    <3>2. ~ReadPends
      BY <1>0, <2>0, <2>7 DEF CopyNextWord, WordDone, Engine, ReadPends, FsmTypes
    <3>3. WritePends' <=> WritePends
      BY <2>3, <2>7 DEF CopyNextWord, WritePends, ls_we_req
    <3>4. QED
      BY <2>1, <2>2, <2>3, <3>1, <3>2, <3>3
  <2>8. QED
    BY <1>1, <2>4, <2>5, <2>6, <2>7 DEF Copy
<1>2. CASE Clock /\ ~Copy
  <2>1. /\ UNCHANGED <<bk_sdrd_copying, sdbuf_rden, bk_sdrd_rd_req, bk_sdrd_we_req>>
        /\ UNCHANGED <<port, ls_we_ack, ls_rd_ack, ioctl_download, ioctl_wait, romwr_req>>
        /\ Fsm
    BY <1>2 DEF Clock, portvars, romvars
  <2>2. (WritePends' <=> WritePends) /\ (ReadPends' <=> ReadPends)
    BY <2>1 DEF WritePends, ReadPends, ls_we_req
  <2>3. ~bk_sdrd_copying
    BY <1>0, <2>1 DEF Engine, Fsm, Idle, SelectVd, StartSd, WaitSd, StartCopy, NextLba, NextVd
  <2>4. (port = "DONE" => WritePends \/ ReadPends) /\ (WritePends => ioctl_wait)
    BY <1>0, <1>2, <2>3, Calm DEF OneClient, WritePends, ReadPends, Quiet
  <2>5. ioctl_download => bk_state' = "IDLE"
    BY <1>0, <1>2, Calm
  <2>6. QED
    BY <2>1, <2>2, <2>4, <2>5
<1>3. CASE Port
  <2>1. /\ UNCHANGED <<bk_state, bk_loading, bk_sdrd_copying, sdbuf_rden, bk_sdrd_rd_req,
                       bk_sdrd_we_req, ioctl_download, ioctl_wait, romwr_req>>
        /\ ~disturbed
    BY <1>0, <1>3, Calm DEF Port, fsmvars, copyvars, romvars
  <2>2. ls_we_req' = ls_we_req
    BY <2>1 DEF ls_we_req
  <2>3. CASE PortWrites \/ PortReads
    BY <2>1, <2>2, <2>3 DEF PortWrites, PortReads, OneClient, WritePends, ReadPends
  <2>4. CASE PortAcks
    BY <2>1, <2>2, <2>4 DEF PortAcks, OneClient, WritePends, ReadPends
  <2>5. QED
    BY <1>3, <2>3, <2>4 DEF Port
<1>4. CASE Loader
  <2>1. UNCHANGED <<bk_state, bk_loading, bk_sdrd_copying, sdbuf_rden, bk_sdrd_rd_req,
                   bk_sdrd_we_req, port, ls_we_ack, ls_rd_ack>>
    BY <1>4 DEF Loader, fsmvars, copyvars, portvars
  <2>2. ReadPends' <=> ReadPends
    BY <2>1 DEF ReadPends
  <2>3. CASE LoaderBegins
    <3>1. bk_state = "IDLE" /\ port = "IDLE" /\ ~WritePends
      BY <1>0, <2>3, Calm DEF Quiet, WritePends
    <3>2. WritePends' <=> WritePends
      BY <2>1, <2>3 DEF LoaderBegins, WritePends, ls_we_req
    <3>3. QED
      BY <2>1, <3>1, <3>2
  <2>4. CASE LoaderAsks
    <3>1. ~disturbed /\ bk_state = "IDLE" /\ ~bk_loading /\ ~bk_saving
      BY <1>0, <2>4, Calm DEF OneClient, LoaderAsks, Kind
    <3>2. ~WritePends /\ ~ReadPends
      BY <1>0, <2>4, <3>1 DEF LoaderAsks, OneClient, WritePends, ReadPends, Engine
    <3>3. port # "DONE"
      BY <3>1, <3>2 DEF OneClient, WritePends, ReadPends
    <3>4. QED
      BY <2>1, <2>4, <3>1, <3>3 DEF LoaderAsks
  <2>5. CASE LoaderContinues
    <3>1. ~disturbed
      BY <1>0, <2>5, Calm
    <3>2. romwr_req = romwr_ack
      BY <2>5 DEF LoaderContinues
    <3>3. ~WritePends
      BY <1>0, <3>2, Toggles DEF romwr_ack, WritePends, ls_we_req
    <3>4. WritePends' <=> WritePends
      BY <2>1, <2>5 DEF LoaderContinues, WritePends, ls_we_req
    <3>5. QED
      BY <2>1, <2>2, <2>5, <3>1, <3>3, <3>4 DEF LoaderContinues, OneClient, WritePends, ReadPends
  <2>6. CASE LoaderEnds
    <3>1. ~disturbed
      BY <1>0, <2>6, Calm
    <3>2. WritePends' <=> WritePends
      BY <2>1, <2>6 DEF LoaderEnds, WritePends, ls_we_req
    <3>3. QED
      BY <2>1, <2>2, <2>6, <3>1, <3>2 DEF LoaderEnds, OneClient, WritePends, ReadPends
  <2>7. QED
    BY <1>4, <2>3, <2>4, <2>5, <2>6 DEF Loader
<1>5. CASE Host
  <2>1. UNCHANGED <<fsmvars, copyvars, romvars, portvars>> /\ ~disturbed
    BY <1>0, <1>5, Calm DEF Host
  <2>2. (WritePends' <=> WritePends) /\ (ReadPends' <=> ReadPends)
    BY <2>1 DEF copyvars, romvars, portvars, WritePends, ReadPends, ls_we_req
  <2>3. QED
    BY <2>1, <2>2 DEF fsmvars, copyvars, romvars, portvars, OneClient, WritePends, ReadPends
<1>6. QED
  BY <1>1, <1>2, <1>3, <1>4, <1>5 DEF Next

(* Every step keeps the port to one client.                                 *)
LEMMA OneClientKept ==
  ASSUME Control, OneClient, Next
  PROVE  OneClient'
BY OneClientStep DEF OneClient, WritePends, ReadPends

-----------------------------------------------------------------------------
(* A step within the blocks of an undisturbed transfer.                    *)
LEMMA InTransfer ==
  ASSUME Control, OneClient, Next, InBlocks', ~disturbed'
  PROVE  /\ ~disturbed /\ bk_state # "IDLE" /\ ~ioctl_download /\ ~ioctl_wait
         /\ UNCHANGED <<bk_loading, bk_saving, sd_vd, bk_mounted, bk_sd_blk_cnt>>
         /\ bk_loading # bk_saving /\ bk_state # "NEXT_VD"
         /\ Clock \/ Port \/ (Host /\ ((\E v \in Volume : HostPolls(v)) \/ HostAcks \/ HostDone))
         /\ WritePends => bk_loading /\ bk_sdrd_copying /\ ~sdbuf_rden
         /\ port = "DONE" => WritePends \/ ReadPends
<1>0. Types /\ LoaderAsked /\ FsmTypes
  BY DEF Control, Types, TypeOK, FsmTypes
<1>1. bk_state # "IDLE" /\ bk_state # "NEXT_VD"
  BY DEF Next, Clock, Port, Loader, Host, fsmvars, Copy, Fsm, Idle, Begin, Goto, SelectVd,
     StartSd, WaitSd, StartCopy, NextLba, NextVd, InBlocks
<1>2. ~LoaderBegins /\ \A v, n, tail : ~HostMounts(v, n, tail)
  BY <1>0, <1>1, Calm
<1>3. ~disturbed
  BY <1>0, <1>1, <1>2, Calm DEF Next, Loader
<1>4. ~ioctl_download /\ ~ioctl_wait
  BY <1>0, <1>1, <1>3 DEF OneClient, LoaderAsked
<1>5. ~Loader
  BY <1>2, <1>4 DEF Loader, LoaderAsks, LoaderContinues, LoaderEnds
<1>6. Clock \/ Port \/ (Host /\ ((\E v \in Volume : HostPolls(v)) \/ HostAcks \/ HostDone))
  BY <1>2, <1>5 DEF Next, Host
<1>7. UNCHANGED <<bk_mounted, bk_sd_blk_cnt>>
  BY <1>6 DEF Clock, Port, HostPolls, HostAcks, HostDone, imgvars
<1>8. UNCHANGED <<bk_loading, bk_saving, sd_vd>>
  BY <1>1, <1>6 DEF Clock, Port, Host, fsmvars, Copy, Fsm, Idle, Goto, SelectVd, StartSd,
     WaitSd, StartCopy, NextLba, NextVd
<1>9. /\ WritePends => bk_loading /\ bk_sdrd_copying /\ ~sdbuf_rden
      /\ port = "DONE" => WritePends \/ ReadPends
  BY <1>3, <1>4 DEF OneClient, WritePends, ReadPends
<1>10. bk_loading # bk_saving
  BY <1>0, <1>1 DEF FsmTypes
<1>11. QED
  BY <1>1, <1>3, <1>4, <1>6, <1>7, <1>8, <1>9, <1>10

(* A block is counted up to the last one of the image, and no further.      *)
LEMMA BlocksStep ==
  ASSUME Control, OneClient, BlocksInImage, Next
  PROVE  BlocksInImage'
<1> SUFFICES ASSUME ~disturbed', InBlocks', bk_sd_blk_cnt'[sd_vd'] # 0
             PROVE  bk_mounted'[sd_vd'] /\ sd_lba_bk' < bk_sd_blk_cnt'[sd_vd']
  BY DEF BlocksInImage, InBlocks
<1>0. /\ ~disturbed /\ bk_state \notin {"IDLE", "NEXT_VD"}
      /\ UNCHANGED <<sd_vd, bk_mounted, bk_sd_blk_cnt>> /\ bk_sd_blk_cnt[sd_vd] # 0
      /\ Types /\ Images /\ FsmTypes
  BY InTransfer DEF Control, Types, TypeOK, FsmTypes
<1>1. CASE bk_state = "SELECT_VD"
  <2>1. SelectVd
    BY <1>1 DEF Next, Clock, Port, Loader, Host, fsmvars, Copy, Fsm, Idle, SelectVd,
       StartSd, WaitSd, StartCopy, NextLba, NextVd, InBlocks
  <2>2. bk_mounted[sd_vd] /\ sd_lba_bk' = 0
    BY <2>1 DEF SelectVd, InBlocks
  <2>3. MaxBlocks \in Nat /\ bk_sd_blk_cnt[sd_vd] \in 0 .. MaxBlocks
    BY <1>0, Sizes DEF Types, Images, FsmTypes
  <2>4. QED
    BY <1>0, <2>2, <2>3 DEF Images, FsmTypes
<1>2. CASE bk_state # "SELECT_VD"
  <2>1. bk_mounted[sd_vd] /\ sd_lba_bk < bk_sd_blk_cnt[sd_vd]
    BY <1>0, <1>2 DEF BlocksInImage
  <2>2. CASE NextLba
    <3>1. /\ MaxBlocks \in Nat /\ bk_sd_blk_cnt[sd_vd] \in 0 .. MaxBlocks
          /\ LbaValues = MaxBlocks + 1 /\ sd_lba_bk \in 0 .. LbaValues - 1
      BY <1>0, Sizes DEF Types, Images, FsmTypes
    <3>2. /\ (sd_lba_bk + 1) % LbaValues # bk_sd_blk_cnt[sd_vd]
          /\ sd_lba_bk' = (sd_lba_bk + 1) % LbaValues
      BY <2>2 DEF NextLba, InBlocks
    <3>3. sd_lba_bk' = sd_lba_bk + 1
      <4>1. LbaValues \in Nat /\ LbaValues >= 1 /\ sd_lba_bk + 1 < LbaValues
        BY <2>1, <3>1
      <4>2. (sd_lba_bk + 1) % LbaValues = sd_lba_bk + 1
        BY <3>1, <4>1, CountsUp
      <4>3. QED
        BY <3>2, <4>2
    <3>4. QED
      BY <1>0, <2>1, <3>1, <3>2, <3>3
  <2>3. CASE ~NextLba
    <3>1. sd_lba_bk' = sd_lba_bk
      BY <1>0, <1>2, <2>3 DEF Next, Clock, Port, Loader, Host, fsmvars, Copy, Fsm, Idle,
         SelectVd, StartSd, WaitSd, StartCopy, Goto, NextVd
    <3>2. QED
      BY <1>0, <2>1, <3>1
  <2>4. QED
    BY <2>2, <2>3
<1>3. QED
  BY <1>1, <1>2

(* The ROM loader.                                                         *)
LEMMA RomStep ==
  ASSUME Control, OneClient, RomLoaded, Next
  PROVE  RomLoaded'
<1> SUFFICES ASSUME ioctl_download', ~disturbed'
             PROVE  /\ \A n \in 0 .. romwr_a' - 1 : rom'[n]
                    /\ ioctl_wait' /\ (port' = "DONE" \/ ~WritePends') => rom'[romwr_a']
  BY DEF RomLoaded, WritePends
<1>0. /\ Types /\ Kind /\ Engine /\ Shapes /\ LoaderAsked
      /\ romwr_a \in 0 .. RomWords /\ RomWords \in Nat /\ romwr_req \in BOOLEAN
      /\ bk_sdrd_we_req \in BOOLEAN /\ ls_we_ack \in BOOLEAN
  BY Sizes DEF Control, Types, TypeOK
<1>1. CASE Clock
  <2>1. /\ UNCHANGED <<ioctl_download, ioctl_wait, romwr_a, romwr_req, port, ls_we_ack, rom>>
    BY <1>1 DEF Clock, romvars, portvars
  <2>2. bk_state' = "IDLE" /\ ~disturbed /\ bk_state = "IDLE"
    BY <1>0, <1>1, <2>1, Calm DEF OneClient
  <2>3. bk_sdrd_we_req' = bk_sdrd_we_req
    BY <1>1, <2>2 DEF Clock, Copy
  <2>4. WritePends' <=> WritePends
    BY <2>1, <2>3 DEF WritePends, ls_we_req
  <2>5. QED
    BY <2>1, <2>2, <2>4 DEF RomLoaded, WritePends
<1>2. CASE Port
  <2>1. /\ UNCHANGED <<ioctl_download, ioctl_wait, romwr_a, romwr_req, bk_sdrd_we_req>>
        /\ ~disturbed
    BY <1>0, <1>2, Calm DEF Port, copyvars, romvars
  <2>2. ls_we_req' = ls_we_req
    BY <2>1 DEF ls_we_req
  <2>3. bk_state = "IDLE" /\ ~bk_loading /\ ~bk_saving /\ ~ReadPends
    BY <1>0, <2>1 DEF OneClient, Kind, Engine, ReadPends
  <2>4. CASE PortWrites
    <3>1. ioctl_wait /\ ioctl_download
      BY <2>1, <2>3, <2>4 DEF PortWrites, OneClient
    <3>2. rom' = [rom EXCEPT ![romwr_a] = @ \/ ioctl_wait]
      BY <2>4, <3>1 DEF PortWrites
    <3>3. rom'[romwr_a] = (rom[romwr_a] \/ ioctl_wait)
      BY <1>0, <3>2, Zenon DEF Shapes
    <3>4. \A n \in 0 .. romwr_a - 1 : rom'[n] = rom[n]
      BY <1>0, <3>2 DEF Shapes
    <3>5. rom'[romwr_a]
      BY <3>1, <3>3, Zenon
    <3>6. QED
      BY <2>1, <3>1, <3>4, <3>5 DEF RomLoaded
  <2>5. CASE PortReads
    BY <2>3, <2>5 DEF PortReads, ReadPends
  <2>6. CASE PortAcks
    BY <2>1, <2>2, <2>6 DEF PortAcks, RomLoaded, WritePends, datavars
  <2>7. QED
    BY <1>2, <2>4, <2>5, <2>6 DEF Port
<1>3. CASE Loader
  <2>1. UNCHANGED <<bk_sdrd_we_req, port, ls_we_ack>>
    BY <1>3 DEF Loader, copyvars, portvars
  <2>2. CASE LoaderBegins
    BY <1>0, <2>2 DEF LoaderBegins, LoaderAsked
  <2>3. CASE LoaderAsks
    <3>1. ~disturbed /\ bk_state = "IDLE" /\ ~bk_loading /\ ~bk_saving
      BY <1>0, <2>3, Calm DEF OneClient, LoaderAsks, Kind
    <3>2. ~WritePends /\ ~ReadPends
      BY <1>0, <2>3, <3>1 DEF LoaderAsks, OneClient, WritePends, ReadPends, Engine
    <3>3. port # "DONE"
      BY <3>1, <3>2 DEF OneClient, WritePends, ReadPends
    <3>4. WritePends'
      <4>1. ls_we_req' = Xor(~romwr_req, bk_sdrd_we_req) /\ ls_we_ack' = ls_we_ack
        BY <2>1, <2>3 DEF LoaderAsks, ls_we_req
      <4>2. QED
        BY <1>0, <3>2, <4>1, Toggles DEF WritePends, ls_we_req
    <3>5. QED
      BY <2>1, <2>3, <3>1, <3>3, <3>4 DEF LoaderAsks, RomLoaded
  <2>4. CASE LoaderContinues
    <3>1. ~disturbed
      BY <1>0, <2>4, Calm
    <3>2. romwr_req = romwr_ack
      BY <2>4 DEF LoaderContinues
    <3>3. ~WritePends
      BY <1>0, <3>2, Toggles DEF romwr_ack, WritePends, ls_we_req
    <3>4. ioctl_download /\ rom[romwr_a] /\ \A n \in 0 .. romwr_a - 1 : rom[n]
      BY <2>4, <3>1, <3>3 DEF LoaderContinues, RomLoaded, WritePends
    <3>5. romwr_a' = romwr_a + 1 /\ ~ioctl_wait' /\ rom' = rom
      BY <2>4 DEF LoaderContinues
    <3>6. QED
      BY <1>0, <3>4, <3>5
  <2>5. CASE LoaderEnds
    BY <2>5 DEF LoaderEnds
  <2>6. QED
    BY <1>3, <2>2, <2>3, <2>4, <2>5 DEF Loader
<1>4. CASE Host
  <2>1. UNCHANGED <<copyvars, romvars, portvars, rom>> /\ ~disturbed
    BY <1>0, <1>4, Calm DEF Host
  <2>2. WritePends' <=> WritePends
    BY <2>1 DEF copyvars, romvars, portvars, WritePends, ls_we_req
  <2>3. QED
    BY <2>1, <2>2 DEF romvars, portvars, RomLoaded, WritePends
<1>5. QED
  BY <1>1, <1>2, <1>3, <1>4 DEF Next

-----------------------------------------------------------------------------
(* What a transfer has moved.                                              *)

(* Between transfers, and where nothing has been moved of a volume, there  *)
(* is nothing to say.                                                      *)
LEMMA Nothing ==
  ASSUME Control', ~InBlocks'
  PROVE  Loaded' /\ Saved'
<1>1. Handshake' /\ Engine'
  BY DEF Control
<1>2. ~sd_ack_d' /\ ~copy' /\ ~bk_sdrd_copying'
  BY <1>1 DEF Handshake, Asking, Engine, InBlocks
<1>3. QED
  BY <1>2 DEF Loaded, Saved, Answered, InBlocks

(* A block stays the same while SDRAM, image and volume do.                 *)
LEMMA SameStays ==
  ASSUME Next, UNCHANGED <<sdram, file, sd_vd>>
  PROVE  \A b : BlockSame(b)' <=> BlockSame(b)
<1>1. Word' = Word
  BY SizesStay
<1>2. QED
  BY <1>1 DEF BlockSame, Same

(* The state machine outside SDRAM_WR and SDRAM_RD moves nothing.          *)
LEMMA FsmMoves ==
  ASSUME Control, Loads, Saves, Next, Clock, ~Copy, ~disturbed, InBlocks',
         bk_state \notin {"IDLE", "NEXT_VD"},
         UNCHANGED <<bk_loading, bk_saving, sd_vd>>, bk_loading # bk_saving, HasBlocks
  PROVE  (bk_loading => Loaded') /\ (bk_saving => Saved')
<1>0. /\ Types /\ Kind /\ Engine /\ Handshake /\ FsmTypes
  BY DEF Control, Types, TypeOK, FsmTypes
<1>1. /\ UNCHANGED <<sdram, file, sdbuf, bk_sdrd_copying, sd_ack>> /\ sd_ack_d' = sd_ack
      /\ Fsm /\ Word' = Word /\ Words' = Words
  BY SizesStay DEF Clock, hostvars
<1>2. \A b : BlockSame(b)' <=> BlockSame(b)
  BY <1>1, SameStays
<1>3. ~bk_sdrd_copying /\ ~bk_sdrd_copying' /\ ~Answered'
  BY <1>0, <1>1 DEF Engine, Fsm, Idle, SelectVd, StartSd, WaitSd, StartCopy, NextLba, NextVd,
     Answered
<1>4. CASE SelectVd
  <2>1. sd_lba_bk' = 0 /\ bk_state' \in {"START_SD_RD", "START_SDRAM_RD"}
    BY <1>4 DEF SelectVd, InBlocks
  <2>2. 0 .. sd_lba_bk' - 1 = {}
    BY <2>1
  <2>3. Loaded'
    BY <1>3, <2>1, <2>2 DEF Loaded
  <2>4. Saved'
    BY <1>3, <2>1, <2>2 DEF Saved
  <2>5. QED
    BY <2>3, <2>4
<1>5. CASE StartSd
  <2>1. /\ sd_lba_bk' = sd_lba_bk /\ InBlocks
        /\ \/ bk_state = "START_SD_RD" /\ bk_state' = "SD_RD"
           \/ bk_state = "START_SD_WR" /\ bk_state' = "SD_WR"
    BY <1>5 DEF StartSd, Goto, InBlocks
  <2>2. (bk_loading => Loaded) /\ (bk_saving => Saved)
    BY DEF Loads, Saves
  <2>3. bk_loading => Loaded'
    BY <1>2, <1>3, <2>1, <2>2 DEF Loaded
  <2>4. bk_saving => Saved'
    BY <1>1, <1>2, <1>3, <2>1, <2>2 DEF Saved
  <2>5. QED
    BY <2>3, <2>4
<1>6. CASE WaitSd
  <2>1. /\ sd_lba_bk' = sd_lba_bk /\ InBlocks /\ (AckFalls <=> Answered)
        /\ \/ bk_state \in {"SD_RD", "SD_WR"} /\ bk_state' = bk_state /\ ~Answered
           \/ bk_state = "SD_RD" /\ bk_state' = "START_SDRAM_WR" /\ Answered
           \/ bk_state = "SD_WR" /\ bk_state' = "NEXT_LBA" /\ Answered
    BY <1>6 DEF WaitSd, Goto, InBlocks, AckFalls, Answered
  <2>2. (bk_loading => Loaded) /\ (bk_saving => Saved)
    BY DEF Loads, Saves
  <2>3. bk_loading => Loaded'
    <3>1. CASE bk_loading
      <4>1. bk_state = "SD_RD"
        BY <1>0, <2>1, <3>1 DEF Kind
      <4>2. QED
        BY <1>1, <1>2, <1>3, <2>1, <2>2, <3>1, <4>1 DEF Loaded
    <3>2. QED
      BY <3>1
  <2>4. bk_saving => Saved'
    <3>1. CASE bk_saving
      <4>1. bk_state = "SD_WR"
        BY <1>0, <2>1, <3>1 DEF Kind
      <4>2. QED
        BY <1>1, <1>2, <1>3, <2>1, <2>2, <3>1, <4>1 DEF Saved
    <3>2. QED
      BY <3>1
  <2>5. QED
    BY <2>3, <2>4
<1>7. CASE StartCopy
  <2>1. /\ sd_lba_bk' = sd_lba_bk /\ InBlocks /\ copy'
        /\ \/ bk_state = "START_SDRAM_WR" /\ bk_state' = "SDRAM_WR"
           \/ bk_state = "START_SDRAM_RD" /\ bk_state' = "SDRAM_RD"
    BY <1>7 DEF StartCopy, InBlocks
  <2>2. (bk_loading => Loaded) /\ (bk_saving => Saved)
    BY DEF Loads, Saves
  <2>a. 0 .. Handled' - 1 = {}
    BY <1>3, <2>1 DEF Handled
  <2>3. bk_loading => Loaded'
    BY <1>1, <1>2, <1>3, <2>1, <2>2, <2>a DEF Loaded
  <2>4. bk_saving => Saved'
    BY <1>1, <1>2, <1>3, <2>1, <2>2, <2>a DEF Saved
  <2>5. QED
    BY <2>3, <2>4
<1>8. CASE NextLba
  <2>1. /\ bk_state = "NEXT_LBA" /\ InBlocks /\ bk_state' \in {"START_SD_RD", "START_SDRAM_RD"}
        /\ sd_lba_bk' = (sd_lba_bk + 1) % LbaValues
    BY <1>8 DEF NextLba, InBlocks
  <2>2. BlockSame(sd_lba_bk) /\ \A b \in 0 .. sd_lba_bk - 1 : BlockSame(b)
    BY <1>0, <2>1 DEF Loads, Saves, Loaded, Saved, FsmTypes
  <2>3. LbaValues \in Nat /\ LbaValues >= 1 /\ sd_lba_bk \in 0 .. LbaValues - 1
    BY <1>0, Sizes DEF Types, FsmTypes
  <2>4. PICK n \in 0 .. sd_lba_bk + 1 : n = (sd_lba_bk + 1) % LbaValues
    BY <2>3
  <2>5. ASSUME NEW b \in 0 .. n - 1
        PROVE  BlockSame(b)'
    <3>1. b \in 0 .. sd_lba_bk - 1 \/ b = sd_lba_bk
      BY <2>3, <2>4
    <3>2. BlockSame(b)
      BY <2>2, <3>1
    <3>3. QED
      BY <1>2, <3>2
  <2>6. \A b \in 0 .. sd_lba_bk' - 1 : BlockSame(b)'
    BY <2>1, <2>4, <2>5, Zenon
  <2>7. QED
    BY <1>3, <2>1, <2>6 DEF Loaded, Saved
<1>9. QED
  BY <1>1, <1>4, <1>5, <1>6, <1>7, <1>8 DEF Fsm, Idle, NextVd

(* One more word, or the last one, is handled when the engine goes on.     *)
LEMMA HandledGrows ==
  ASSUME Control, Next, Clock, CopyNextWord
  PROVE  /\ word \in Word /\ Handled = word
         /\ ~sdbuf_a0 => Handled' = Handled
         /\ sdbuf_a0 => Handled' = word + 1
<1>1. Engine /\ Types /\ word \in Word /\ Words' = Words /\ Words \in Nat /\ Words >= 1
  BY Sizes, SizesStay DEF Control, Types, TypeOK
<1>2. bk_sdrd_copying /\ Handled = word
  BY DEF CopyNextWord, Handled
<1>3. CASE ~sdbuf_a0
  BY <1>1, <1>2, <1>3 DEF CopyNextWord, Handled
<1>4. CASE sdbuf_a0 /\ word = Words - 1
  <2>1. ~bk_sdrd_copying' /\ ~copy'
    BY <1>4 DEF CopyNextWord
  <2>2. Handled' = Words
    BY <1>1, <2>1 DEF Handled
  <2>3. QED
    BY <1>1, <1>2, <1>4, <2>2
<1>5. CASE sdbuf_a0 /\ word # Words - 1
  <2>1. bk_sdrd_copying' /\ word' = (word + 1) % Words
    BY <1>2, <1>5 DEF CopyNextWord
  <2>2. (word + 1) % Words = word + 1
    <3>1. word \in 0 .. Words - 1 /\ word + 1 < Words
      BY <1>1, <1>5 DEF Word
    <3>2. QED
      BY <1>1, <3>1, CountsUp
  <2>3. Handled' = word + 1
    BY <2>1, <2>2 DEF Handled
  <2>4. QED
    BY <1>1, <1>2, <1>5, <2>3
<1>6. QED
  BY <1>3, <1>4, <1>5

(* A load: the engine asks for a word to be written when the halves of it  *)
(* are read, and goes on when the port has written it.                     *)
LEMMA LoadCopies ==
  ASSUME Control, OneClient, Loaded, Next, Clock, Copy, bk_loading, InBlocks', ~disturbed'
  PROVE  Loaded'
<1>0. /\ Types /\ Kind /\ Engine /\ Handshake /\ FsmTypes /\ EngineTypes
      /\ bk_sdrd_we_req \in BOOLEAN /\ romwr_req \in BOOLEAN /\ ls_we_ack \in BOOLEAN
  BY DEF Control, Types, TypeOK, FsmTypes, EngineTypes
<1>1. /\ bk_state = "SDRAM_WR" /\ ~bk_saving /\ ~sdbuf_wren /\ ~ReadPends
      /\ UNCHANGED <<sd_vd, sd_lba_bk, sdram, file, port, ls_we_ack, romwr_req>>
      /\ InBlocks
  BY <1>0 DEF Copy, Clock, portvars, romvars, Kind, FsmTypes, Engine, ReadPends, InBlocks
<1>2. sdbuf' = sdbuf /\ Word' = Word /\ Words' = Words
  BY <1>1, SizesStay DEF Copy, CopyBegins, CopyReadsBuffer, CopyGotWord, CopyNextWord,
     CopyWaits, CopyDone
<1>3. ~Answered'
  BY <1>0, <1>1, NotAsking DEF Clock, Asking, Answered
<1>4. /\ \A b : BlockSame(b)' <=> BlockSame(b)
      /\ \A w : Same(sd_lba_bk, w)' <=> Same(sd_lba_bk, w)
  BY <1>1, SameStays DEF Same
<1>5. /\ \A b \in 0 .. sd_lba_bk - 1 : BlockSame(b)
      /\ \A w \in Word : sdbuf[w] = file[sd_vd][sd_lba_bk, w]
      /\ \A w \in 0 .. Handled - 1 : Same(sd_lba_bk, w)
      /\ bk_sdrd_copying /\ ~sdbuf_rden /\ (port = "DONE" \/ ~WritePends) => Same(sd_lba_bk, word)
  BY <1>1 DEF Loaded, WritePends
<1>6. /\ \A b \in 0 .. sd_lba_bk' - 1 : BlockSame(b)'
      /\ \A w \in Word' : sdbuf'[w] = file'[sd_vd'][sd_lba_bk', w]
  BY <1>1, <1>2, <1>4, <1>5
<1>7. port = "DONE" => WritePends /\ bk_sdrd_copying /\ ~sdbuf_rden
  <2>1. ~disturbed /\ ~ioctl_wait
    BY InTransfer
  <2>2. QED
    BY <1>1, <2>1 DEF OneClient, WritePends, ReadPends
<1>8. CASE bk_state' = "SDRAM_WR" /\ (\A w \in 0 .. Handled' - 1 : Same(sd_lba_bk, w))
           /\ (bk_sdrd_copying' /\ ~sdbuf_rden' /\ (port = "DONE" \/ ~WritePends')
               => Same(sd_lba_bk, word'))
  BY <1>1, <1>3, <1>4, <1>6, <1>8 DEF Loaded, WritePends
<1>9. CASE CopyBegins
  <2>1. bk_sdrd_copying' /\ word' = 0 /\ sdbuf_rden' /\ bk_state' = bk_state
    BY <1>9 DEF CopyBegins
  <2>2. Handled' = 0
    BY <2>1 DEF Handled
  <2>3. 0 .. Handled' - 1 = {}
    BY <2>2
  <2>4. QED
    BY <1>1, <1>8, <2>1, <2>3
<1>10. CASE CopyReadsBuffer
  <2>1. /\ UNCHANGED <<bk_sdrd_copying, copy, word, bk_state>>
        /\ sdbuf_rden /\ bk_sdrd_copying
    BY <1>10 DEF CopyReadsBuffer
  <2>2. Handled' = Handled
    BY <1>2, <2>1 DEF Handled
  <2>3. port # "DONE"
    BY <1>7, <2>1
  <2>4. sdbuf_rden' \/ WritePends'
    <3>1. CASE sdbuf_a0
      <4>1. ls_we_req' = Xor(romwr_req, ~bk_sdrd_we_req)
        BY <1>1, <1>10, <3>1 DEF CopyReadsBuffer, ls_we_req
      <4>2. ~WritePends
        <5>1. ~disturbed /\ ~ioctl_wait
          BY InTransfer
        <5>2. QED
          BY <2>1, <5>1 DEF OneClient, WritePends
      <4>3. QED
        BY <1>0, <1>1, <4>1, <4>2, Toggles DEF WritePends, ls_we_req
    <3>2. CASE ~sdbuf_a0
      BY <1>10, <2>1, <3>2 DEF CopyReadsBuffer
    <3>3. QED
      BY <3>1, <3>2
  <2>5. QED
    BY <1>1, <1>5, <1>8, <2>1, <2>2, <2>3, <2>4
<1>11. CASE CopyNextWord
  <2>1. ~sdbuf_rden /\ bk_sdrd_we_req = bk_sdrd_we_ack /\ bk_sdrd_copying /\ bk_state' = bk_state
        /\ bk_sdrd_we_req' = bk_sdrd_we_req
    BY <1>1, <1>11 DEF CopyNextWord, WordDone
  <2>2. ~WritePends
    BY <1>0, <2>1, Toggles DEF bk_sdrd_we_ack, WritePends, ls_we_req
  <2>3. Same(sd_lba_bk, word)
    BY <1>5, <2>1, <2>2
  <2>4. \A w \in 0 .. Handled' - 1 : Same(sd_lba_bk, w)
    <3>1. PICK n \in Nat : n = Handled' /\ (n = Handled \/ n = word + 1) /\ Handled = word
      <4>1. word \in Nat
        BY <1>0, Sizes DEF EngineTypes, Types, Word
      <4>2. QED
        BY <1>11, <4>1, HandledGrows
    <3>2. ASSUME NEW w \in 0 .. n - 1
          PROVE  Same(sd_lba_bk, w)
      <4>1. word \in Nat
        BY <1>0, Sizes DEF EngineTypes, Types, Word
      <4>2. CASE n = Handled
        BY <1>5, <3>2, <4>2
      <4>3. CASE n = word + 1
        <5>1. w \in 0 .. word - 1 \/ w = word
          BY <4>1, <4>3
        <5>2. QED
          BY <1>5, <2>3, <3>1, <5>1
      <4>4. QED
        BY <3>1, <4>2, <4>3
    <3>3. QED
      BY <3>1, <3>2, Zenon
  <2>5. ~sdbuf_rden' => ~bk_sdrd_copying' \/ word' = word
    BY <1>11 DEF CopyNextWord
  <2>6. QED
    BY <1>1, <1>8, <2>1, <2>3, <2>4, <2>5
<1>12. CASE CopyWaits
  <2>1. UNCHANGED <<bk_sdrd_copying, copy, word, bk_state, sdbuf_rden, bk_sdrd_we_req>>
    BY <1>12 DEF CopyWaits, copyvars
  <2>2. Handled' = Handled /\ (WritePends' <=> WritePends)
    BY <1>1, <1>2, <2>1 DEF Handled, WritePends, ls_we_req
  <2>3. QED
    BY <1>1, <1>5, <1>8, <2>1, <2>2
<1>13. CASE CopyDone
  <2>1. bk_state' = "NEXT_LBA" /\ ~bk_sdrd_copying'
    BY <1>1, <1>13 DEF CopyDone, copyvars
  <2>2. BlockSame(sd_lba_bk)'
    <3>1. 0 .. Handled - 1 = Word
      BY <1>13 DEF CopyDone, Handled, Word
    <3>2. \A w \in Word : Same(sd_lba_bk, w)
      BY <1>5, <3>1, Zenon
    <3>3. BlockSame(sd_lba_bk)
      BY <3>2 DEF BlockSame
    <3>4. QED
      BY <1>1, <1>4, <3>3
  <2>3. QED
    BY <1>1, <1>3, <1>6, <2>1, <2>2 DEF Loaded
<1>14. QED
  BY <1>1, <1>9, <1>10, <1>11, <1>12, <1>13 DEF Copy, CopyGotWord

(* The port writes one word of the SDRAM, from the buffer.                 *)
LEMMA WritesWord ==
  ASSUME Control, Next, PortWrites, ~ioctl_download
  PROVE  \A b \in 0 .. LbaValues - 1, w \in Word :
           sdram'[sd_vd, b, w] = IF b = sd_lba_bk /\ w = word THEN sdbuf[word]
                                 ELSE sdram[sd_vd, b, w]
<1>1. Shapes /\ sd_vd \in Volume /\ sd_lba_bk \in 0 .. LbaValues - 1 /\ word \in Word
  BY DEF Control, Types, TypeOK
<1>2. sdram' = [sdram EXCEPT ![<<sd_vd, sd_lba_bk, word>>] = sdbuf[word]]
  BY DEF PortWrites, Address
<1>3. QED
  BY <1>1, <1>2 DEF Shapes, Address3

(* The host fills the buffer with the block a load asked for, or writes    *)
(* the buffer to the block a save asked for.                               *)
LEMMA HostServes ==
  ASSUME Control, BlocksInImage, Next, Host, HostDone, ~disturbed, HasBlocks
  PROVE  /\ bk_state \in {"SD_RD", "SD_WR"} /\ sd_lba_bk \in Block
         /\ bk_loading => sdbuf' = [w \in Word |-> file[sd_vd][sd_lba_bk, w]] /\ file' = file
         /\ bk_saving =>
              /\ sdbuf' = sdbuf
              /\ \A w \in Word : file'[sd_vd][sd_lba_bk, w] = sdbuf[w]
              /\ \A b \in 0 .. sd_lba_bk - 1, w \in Word :
                   file'[sd_vd][b, w] = file[sd_vd][b, w]
<1>1. /\ Shapes /\ Kind /\ Handshake /\ Images /\ FsmTypes /\ sd_ack
      /\ MaxBlocks \in Nat
  BY Sizes DEF HostDone, Control, Types, TypeOK, FsmTypes
<1>2. Asking /\ host # NOJOB
  BY <1>1 DEF Handshake
<1>3. bk_mounted[sd_vd] /\ sd_lba_bk < bk_sd_blk_cnt[sd_vd]
  BY <1>2 DEF BlocksInImage, HasBlocks, Asking
<1>4. sd_lba_bk \in Block
  BY <1>1, <1>3 DEF Images, Block, FsmTypes
<1>5. host.vd = sd_vd /\ host.lba = sd_lba_bk /\ (host.wr <=> bk_state = "SD_WR")
  BY <1>1, <1>2 DEF Handshake
<1>6. (bk_loading => ~host.wr) /\ (bk_saving => host.wr)
  BY <1>1, <1>2, <1>5 DEF Asking, Kind, FsmTypes
<1>7. ASSUME bk_loading
      PROVE  sdbuf' = [w \in Word |-> file[sd_vd][sd_lba_bk, w]] /\ file' = file
  <2>1. ~host.wr
    BY <1>6, <1>7
  <2>2. file' = file /\ sdbuf' = [w \in Word |-> IF host.lba \in Block
                                      THEN file[host.vd][host.lba, w] ELSE NOJOB]
    BY <2>1 DEF HostDone
  <2>3. QED
    BY <1>4, <1>5, <2>2
<1>8. ASSUME bk_saving
      PROVE  /\ sdbuf' = sdbuf
             /\ \A w \in Word : file'[sd_vd][sd_lba_bk, w] = sdbuf[w]
             /\ \A b \in 0 .. sd_lba_bk - 1, w \in Word :
                   file'[sd_vd][b, w] = file[sd_vd][b, w]
  <2>1. host.wr
    BY <1>6, <1>8
  <2>2. /\ sdbuf' = sdbuf
        /\ file' = [file EXCEPT ![host.vd] =
             [p \in DOMAIN @ |-> IF p[1] = host.lba THEN sdbuf[p[2]] ELSE @[p]]]
    BY <2>1 DEF HostDone
  <2>3. sd_vd \in DOMAIN file /\ DOMAIN file[sd_vd] = Block \X Word
    BY <1>1 DEF Shapes, FsmTypes
  <2>4. file'[sd_vd] = [p \in Block \X Word |->
                          IF p[1] = sd_lba_bk THEN sdbuf[p[2]] ELSE file[sd_vd][p]]
    BY <1>5, <2>2, <2>3
  <2>5. ASSUME NEW b \in Block, NEW w \in Word
        PROVE  file'[sd_vd][b, w] = IF b = sd_lba_bk THEN sdbuf[w] ELSE file[sd_vd][b, w]
    BY <2>4
  <2>6. \A b \in 0 .. sd_lba_bk - 1 : b \in Block /\ b # sd_lba_bk
    BY <1>1, <1>4 DEF Block
  <2>7. QED
    BY <1>4, <2>2, <2>5, <2>6
<1>9. QED
  BY <1>2, <1>4, <1>7, <1>8 DEF Asking

(* A load: the port writes the word the engine stands at; the host fills   *)
(* the buffer.                                                             *)
LEMMA LoadServed ==
  ASSUME Control, OneClient, BlocksInImage, Loaded, Next, Port \/ Host,
         bk_loading, HasBlocks, InBlocks', ~disturbed'
  PROVE  Loaded'
<1>0. /\ Types /\ Kind /\ Engine /\ Handshake /\ FsmTypes /\ EngineTypes /\ Shapes
      /\ LbaValues \in Nat /\ LbaValues >= 1 /\ Words \in Nat
  <2>1. /\ Types /\ Kind /\ Engine /\ Handshake /\ Shapes
        /\ setup \in Setups /\ TypeOK
    BY DEF Control, Types
  <2>2. LbaValues \in Nat /\ LbaValues >= 1 /\ Words \in Nat
    BY <2>1, Sizes
  <2>3. FsmTypes /\ EngineTypes
    BY <2>1 DEF Types, TypeOK, FsmTypes, EngineTypes
  <2>4. QED
    BY <2>1, <2>2, <2>3
<1>1. /\ ~disturbed /\ ~ioctl_download /\ ~ioctl_wait /\ ~bk_saving /\ ~ReadPends
      /\ WritePends => bk_loading /\ bk_sdrd_copying /\ ~sdbuf_rden
      /\ port = "DONE" => WritePends
  BY <1>0, InTransfer DEF Engine, ReadPends
<1>2. /\ UNCHANGED <<bk_state, sd_vd, sd_lba_bk, sd_ack_d, copy, bk_sdrd_copying, word,
                     sdbuf_rden, bk_sdrd_we_req, romwr_req>>
      /\ Word' = Word /\ Words' = Words /\ InBlocks
  BY SizesStay DEF Port, Host, fsmvars, copyvars, romvars, InBlocks
<1>3. Handled' = Handled
  BY <1>2 DEF Handled
<1>4. /\ \A b \in 0 .. sd_lba_bk - 1 : BlockSame(b)
      /\ bk_state \in {"START_SDRAM_WR", "SDRAM_WR"} \/ Answered =>
           \A w \in Word : sdbuf[w] = file[sd_vd][sd_lba_bk, w]
      /\ bk_state = "SDRAM_WR" => \A w \in 0 .. Handled - 1 : Same(sd_lba_bk, w)
      /\ bk_sdrd_copying /\ ~sdbuf_rden /\ (port = "DONE" \/ ~WritePends)
           => Same(sd_lba_bk, word)
      /\ bk_state = "NEXT_LBA" => BlockSame(sd_lba_bk)
  BY <1>2 DEF Loaded, WritePends
<1>5. CASE Port /\ PortWrites
  <2>1. bk_sdrd_copying /\ ~sdbuf_rden /\ bk_state = "SDRAM_WR"
    BY <1>0, <1>1, <1>5 DEF PortWrites, WritePends, Engine, Kind, FsmTypes
  <2>2. UNCHANGED <<sdbuf, file, sd_ack>>
    BY <1>5 DEF Port, PortWrites, hostvars
  <2>3. ~Answered'
    BY <1>0, <1>2, <2>1, <2>2, NotAsking DEF Asking, Answered
  <2>4. sdbuf[word] = file[sd_vd][sd_lba_bk, word]
    BY <1>0, <1>4, <2>1 DEF EngineTypes
  <2>5. \A b \in 0 .. LbaValues - 1, w \in Word :
          Same(b, w) \/ (b = sd_lba_bk /\ w = word) => Same(b, w)'
    BY <1>1, <1>2, <1>5, <2>2, <2>4, WritesWord DEF Same
  <2>6. sd_lba_bk \in 0 .. LbaValues - 1 /\ word \in Word
    BY <1>0 DEF FsmTypes, EngineTypes
  <2>7. \A b \in 0 .. sd_lba_bk - 1 : BlockSame(b)'
    <3>1. ASSUME NEW b \in 0 .. sd_lba_bk - 1
          PROVE  BlockSame(b)'
      <4>1. b \in 0 .. LbaValues - 1
        BY <1>0, <2>6
      <4>2. \A w \in Word : Same(b, w)
        BY <1>4 DEF BlockSame
      <4>3. \A w \in Word : Same(b, w)'
        BY <2>5, <4>1, <4>2
      <4>4. QED
        BY <1>2, <4>3 DEF BlockSame
    <3>2. QED
      BY <3>1
  <2>8. \A w \in 0 .. Handled - 1 : Same(sd_lba_bk, w)'
    <3>1. ASSUME NEW w \in 0 .. Handled - 1
          PROVE  Same(sd_lba_bk, w)'
      <4>1. Handled = word
        BY <2>1 DEF Handled
      <4>2. w \in Word
        BY <1>0, <2>6, <4>1 DEF Word
      <4>3. Same(sd_lba_bk, w)
        BY <1>4, <2>1
      <4>4. QED
        BY <1>2, <2>5, <2>6, <4>2, <4>3 DEF Same
    <3>2. QED
      BY <3>1
  <2>9. Same(sd_lba_bk, word)'
    BY <1>2, <2>5, <2>6 DEF Same
  <2>10. QED
    BY <1>2, <1>3, <1>4, <2>1, <2>2, <2>3, <2>7, <2>8, <2>9 DEF Loaded
<1>6. CASE Port /\ PortReads
  BY <1>1, <1>6 DEF PortReads, ReadPends
<1>7. CASE Port /\ PortAcks
  <2>1. UNCHANGED <<sdbuf, sdram, file, sd_ack>> /\ port = "DONE"
    BY <1>7 DEF Port, PortAcks, datavars, hostvars
  <2>2. (Answered' <=> Answered) /\ \A w : Same(sd_lba_bk, w)' <=> Same(sd_lba_bk, w)
    BY <1>2, <2>1 DEF Answered, Same
  <2>3. \A b : BlockSame(b)' <=> BlockSame(b)
    BY <1>2, <2>1, SameStays
  <2>4. QED
    BY <1>1, <1>2, <1>3, <1>4, <2>1, <2>2, <2>3 DEF Loaded
<1>8. CASE Host /\ ~HostDone
  <2>1. UNCHANGED <<sdbuf, sdram, file, port, ls_we_ack>>
        /\ (sd_ack' = sd_ack \/ (sd_ack' /\ ~sd_ack_d))
    <3>1. \A v, n, tail : ~HostMounts(v, n, tail)
      BY <1>0, InTransfer, Calm
    <3>2. QED
      BY <1>8, <3>1 DEF Host, HostPolls, HostAcks, portvars
  <2>2. (Answered' => Answered) /\ \A w : Same(sd_lba_bk, w)' <=> Same(sd_lba_bk, w)
    BY <1>2, <2>1 DEF Answered, Same
  <2>3. (\A b : BlockSame(b)' <=> BlockSame(b)) /\ (WritePends' <=> WritePends)
    BY <1>2, <2>1, SameStays DEF WritePends, ls_we_req
  <2>4. QED
    BY <1>1, <1>2, <1>3, <1>4, <2>1, <2>2, <2>3 DEF Loaded, WritePends
<1>9. CASE Host /\ HostDone
  <2>1. UNCHANGED <<sdram, file>> /\ sdbuf' = [w \in Word |-> file[sd_vd][sd_lba_bk, w]]
        /\ bk_state \in {"SD_RD", "SD_WR"}
    BY <1>1, <1>9, HostServes DEF Host
  <2>2. \A b : BlockSame(b)' <=> BlockSame(b)
    BY <1>2, <2>1, SameStays
  <2>3. ~bk_sdrd_copying'
    BY <1>0, <1>2, <2>1 DEF Engine
  <2>4. QED
    BY <1>2, <1>4, <2>1, <2>2, <2>3 DEF Loaded
<1>10. QED
  BY <1>5, <1>6, <1>7, <1>8, <1>9 DEF Port

(* A save: the engine takes a word to the buffer when the port has read it *)
(* and asks for the next one.                                              *)
LEMMA SaveCopies ==
  ASSUME Control, OneClient, Saved, Next, Clock, Copy, bk_saving, InBlocks', ~disturbed'
  PROVE  Saved'
<1>0. /\ Types /\ Kind /\ Engine /\ Handshake /\ FsmTypes /\ EngineTypes /\ Shapes
      /\ ls_rd_ack \in BOOLEAN
  BY DEF Control, Types, TypeOK, FsmTypes, EngineTypes
<1>1. /\ bk_state = "SDRAM_RD" /\ ~bk_loading /\ ~sdbuf_rden
      /\ UNCHANGED <<sd_vd, sd_lba_bk, sdram, file, port, ls_rd_ack, ls_dout>>
      /\ InBlocks
  BY <1>0 DEF Copy, Clock, portvars, Kind, FsmTypes, Engine, InBlocks
<1>2. Word' = Word /\ Words' = Words
  BY SizesStay
<1>3. ~Answered'
  BY <1>0, <1>1, NotAsking DEF Clock, Asking, Answered
<1>4. \A b : BlockSame(b)' <=> BlockSame(b)
  BY <1>1, SameStays
<1>5. /\ \A b \in 0 .. sd_lba_bk - 1 : BlockSame(b)
      /\ \A w \in 0 .. Handled - 1 : sdbuf[w] = sdram[sd_vd, sd_lba_bk, w]
      /\ bk_sdrd_copying /\ (sdbuf_wren \/ port = "DONE" \/ ~ReadPends)
           => ls_dout = sdram[sd_vd, sd_lba_bk, word]
  BY <1>1 DEF Saved, ReadPends
<1>6. \A b \in 0 .. sd_lba_bk' - 1 : BlockSame(b)'
  BY <1>1, <1>4, <1>5
<1>7. port = "DONE" => ReadPends /\ bk_sdrd_copying /\ ~sdbuf_wren
  <2>1. ~disturbed /\ ~ioctl_wait
    BY InTransfer
  <2>2. QED
    BY <1>0, <1>1, <2>1 DEF OneClient, ReadPends, Engine
<1>8. CASE bk_state' = "SDRAM_RD"
           /\ (\A w \in 0 .. Handled' - 1 : sdbuf'[w] = sdram[sd_vd, sd_lba_bk, w])
           /\ (bk_sdrd_copying' /\ (sdbuf_wren' \/ port = "DONE" \/ ~ReadPends')
               => ls_dout = sdram[sd_vd, sd_lba_bk, word'])
  BY <1>1, <1>3, <1>4, <1>6, <1>8 DEF Saved, ReadPends
<1>9. CASE CopyBegins
  <2>1. /\ bk_sdrd_copying' /\ word' = 0 /\ bk_state' = bk_state /\ sdbuf_wren' = sdbuf_wren
        /\ bk_sdrd_rd_req' = ~bk_sdrd_rd_req /\ ~bk_sdrd_copying
    BY <1>1, <1>9 DEF CopyBegins
  <2>2. Handled' = 0
    BY <2>1 DEF Handled
  <2>3. 0 .. Handled' - 1 = {}
    BY <2>2
  <2>4. ~sdbuf_wren' /\ ReadPends' /\ port # "DONE"
    BY <1>0, <1>1, <1>7, <2>1 DEF Engine, EngineTypes, ReadPends
  <2>5. QED
    BY <1>1, <1>8, <2>1, <2>3, <2>4
<1>10. CASE CopyGotWord
  <2>1. UNCHANGED <<bk_sdrd_copying, copy, word, bk_state, sdbuf>> /\ ~ReadPends
        /\ bk_sdrd_copying
    BY <1>10 DEF CopyGotWord, ReadPends
  <2>2. Handled' = Handled
    BY <1>2, <2>1 DEF Handled
  <2>3. QED
    BY <1>1, <1>5, <1>8, <2>1, <2>2
<1>11. CASE CopyNextWord
  <2>1. sdbuf_wren /\ bk_sdrd_copying /\ bk_state' = bk_state
    BY <1>1, <1>11 DEF CopyNextWord, WordDone
  <2>2. ls_dout = sdram[sd_vd, sd_lba_bk, word] /\ ~ReadPends /\ port # "DONE"
    BY <1>0, <1>5, <1>7, <2>1 DEF Engine, ReadPends
  <2>3. word \in Word /\ Handled = word /\ Words \in Nat
    BY <1>0, <1>11, Sizes, HandledGrows DEF Types
  <2>4. CASE ~sdbuf_a0
    <3>1. UNCHANGED <<word, sdbuf, bk_sdrd_copying, sdbuf_wren, bk_sdrd_rd_req>>
      BY <1>11, <2>4 DEF CopyNextWord
    <3>2. Handled' = Handled
      BY <1>11, <2>4, HandledGrows
    <3>3. QED
      BY <1>1, <1>5, <1>8, <2>1, <2>2, <3>1, <3>2
  <2>5. CASE sdbuf_a0
    <3>1. sdbuf' = [sdbuf EXCEPT ![word] = ls_dout] /\ ~sdbuf_wren'
      BY <1>11, <2>1, <2>5 DEF CopyNextWord
    <3>2. \A w \in 0 .. Handled' - 1 : sdbuf'[w] = sdram[sd_vd, sd_lba_bk, w]
      <4>1. PICK n \in Nat : n = Handled' /\ n = word + 1
        BY <1>11, <2>3, <2>5, HandledGrows DEF Word
      <4>2. ASSUME NEW w \in 0 .. n - 1
            PROVE  sdbuf'[w] = sdram[sd_vd, sd_lba_bk, w]
        <5>1. w \in 0 .. word - 1 \/ w = word
          BY <2>3, <4>1 DEF Word
        <5>2. CASE w = word
          BY <1>0, <2>2, <2>3, <3>1, <5>2 DEF Shapes
        <5>3. CASE w \in 0 .. word - 1
          <6>1. w # word /\ w \in Word
            BY <2>3, <5>3 DEF Word
          <6>2. sdbuf'[w] = sdbuf[w]
            BY <1>0, <3>1, <6>1 DEF Shapes
          <6>3. QED
            BY <1>5, <2>3, <5>3, <6>2
        <5>4. QED
          BY <5>1, <5>2, <5>3
      <4>3. QED
        BY <4>1, <4>2, Zenon
    <3>3. bk_sdrd_copying' => ReadPends'
      <4>1. bk_sdrd_copying' => bk_sdrd_rd_req' = Xor(bk_sdrd_rd_req, TRUE)
        BY <1>1, <1>11, <2>5 DEF CopyNextWord
      <4>2. QED
        BY <1>0, <1>1, <2>2, <4>1, Toggles DEF ReadPends, EngineTypes
    <3>4. QED
      BY <1>1, <1>8, <2>1, <2>2, <3>1, <3>2, <3>3
  <2>6. QED
    BY <2>4, <2>5
<1>12. CASE CopyWaits
  <2>1. UNCHANGED <<bk_sdrd_copying, copy, word, bk_state, sdbuf_wren, bk_sdrd_rd_req, sdbuf>>
    BY <1>12 DEF CopyWaits, copyvars
  <2>2. Handled' = Handled /\ (ReadPends' <=> ReadPends)
    BY <1>1, <1>2, <2>1 DEF Handled, ReadPends
  <2>3. QED
    BY <1>1, <1>5, <1>8, <2>1, <2>2
<1>13. CASE CopyDone
  <2>1. bk_state' = "START_SD_WR" /\ ~bk_sdrd_copying' /\ sdbuf' = sdbuf
    BY <1>1, <1>13 DEF CopyDone, copyvars
  <2>2. \A w \in Word : sdbuf[w] = sdram[sd_vd, sd_lba_bk, w]
    <3>1. 0 .. Handled - 1 = Word
      BY <1>13 DEF CopyDone, Handled, Word
    <3>2. QED
      BY <1>5, <3>1, Zenon
  <2>3. QED
    BY <1>1, <1>2, <1>3, <1>6, <2>1, <2>2 DEF Saved
<1>14. QED
  BY <1>1, <1>9, <1>10, <1>11, <1>12, <1>13 DEF Copy, CopyReadsBuffer

(* A save: the port reads the word the engine stands at; the host writes   *)
(* the buffer to the image.                                                *)
LEMMA SaveServed ==
  ASSUME Control, OneClient, BlocksInImage, Saved, Next, Port \/ Host,
         bk_saving, HasBlocks, InBlocks', ~disturbed'
  PROVE  Saved'
<1>0. /\ Types /\ Kind /\ Engine /\ Handshake /\ FsmTypes /\ EngineTypes /\ Shapes
  BY DEF Control, Types, TypeOK, FsmTypes, EngineTypes
<1>1. /\ ~disturbed /\ ~ioctl_download /\ ~ioctl_wait /\ ~bk_loading /\ ~WritePends
      /\ port = "DONE" => ReadPends
      /\ \A v, n, tail : ~HostMounts(v, n, tail)
  BY <1>0, InTransfer, Calm
<1>2. /\ UNCHANGED <<bk_state, sd_vd, sd_lba_bk, sd_ack_d, copy, bk_sdrd_copying, word,
                     sdbuf_wren, bk_sdrd_rd_req>>
      /\ Word' = Word /\ Words' = Words /\ InBlocks
  BY SizesStay DEF Port, Host, fsmvars, copyvars, InBlocks
<1>3. Handled' = Handled
  BY <1>2 DEF Handled
<1>4. /\ \A b \in 0 .. sd_lba_bk - 1 : BlockSame(b)
      /\ bk_state = "SDRAM_RD" =>
           \A w \in 0 .. Handled - 1 : sdbuf[w] = sdram[sd_vd, sd_lba_bk, w]
      /\ bk_sdrd_copying /\ (sdbuf_wren \/ port = "DONE" \/ ~ReadPends)
           => ls_dout = sdram[sd_vd, sd_lba_bk, word]
      /\ bk_state = "START_SD_WR" \/ (bk_state = "SD_WR" /\ ~Answered) =>
           \A w \in Word : sdbuf[w] = sdram[sd_vd, sd_lba_bk, w]
      /\ bk_state = "NEXT_LBA" \/ Answered => BlockSame(sd_lba_bk)
  BY <1>2 DEF Saved, ReadPends
<1>5. CASE Port
  <2>1. UNCHANGED <<sdbuf, sdram, file, sd_ack>>
    BY <1>1, <1>5 DEF Port, PortWrites, PortReads, PortAcks, WritePends, datavars, hostvars
  <2>2. Answered' <=> Answered
    BY <1>2, <2>1 DEF Answered
  <2>3. \A b : BlockSame(b)' <=> BlockSame(b)
    BY <1>2, <2>1, SameStays
  <2>4. CASE PortReads
    <3>1. ls_dout' = sdram[sd_vd, sd_lba_bk, word]
      BY <1>1, <2>4 DEF PortReads, Address
    <3>2. QED
      BY <1>2, <1>3, <1>4, <2>1, <2>2, <2>3, <3>1 DEF Saved
  <2>5. CASE PortAcks
    <3>1. ls_dout' = ls_dout /\ port = "DONE"
      BY <2>5 DEF PortAcks
    <3>2. QED
      BY <1>2, <1>3, <1>4, <2>1, <2>2, <2>3, <3>1 DEF Saved
  <2>6. QED
    BY <1>1, <1>5, <2>4, <2>5 DEF Port, PortWrites, WritePends
<1>6. CASE Host /\ ~HostDone
  <2>1. UNCHANGED <<sdbuf, sdram, file, port, ls_rd_ack, ls_dout>>
        /\ (sd_ack' = sd_ack \/ (sd_ack' /\ ~sd_ack_d))
    BY <1>1, <1>6 DEF Host, HostPolls, HostAcks, portvars
  <2>2. Answered' <=> Answered
    BY <1>2, <2>1 DEF Answered
  <2>3. (\A b : BlockSame(b)' <=> BlockSame(b)) /\ (ReadPends' <=> ReadPends)
    BY <1>2, <2>1, SameStays DEF ReadPends
  <2>4. QED
    BY <1>2, <1>3, <1>4, <2>1, <2>2, <2>3 DEF Saved, ReadPends
<1>7. CASE Host /\ HostDone
  <2>1. /\ sdram' = sdram /\ sdbuf' = sdbuf /\ sd_ack /\ sd_ack_d /\ ~sd_ack'
        /\ bk_state = "SD_WR" /\ sd_lba_bk \in Block
        /\ \A w \in Word : file'[sd_vd][sd_lba_bk, w] = sdbuf[w]
        /\ \A b \in 0 .. sd_lba_bk - 1, w \in Word :
             file'[sd_vd][b, w] = file[sd_vd][b, w]
    <3>1. bk_state # "SD_RD"
      BY <1>0, <1>1 DEF Kind
    <3>2. QED
      BY <1>1, <1>7, <3>1, HostServes DEF Host, HostDone
  <2>2. Answered' /\ ~Answered
    BY <1>2, <2>1 DEF Answered
  <2>3. \A b \in 0 .. sd_lba_bk - 1 : BlockSame(b)'
    BY <1>2, <1>4, <2>1 DEF BlockSame, Same
  <2>4. \A w \in Word : sdram[sd_vd, sd_lba_bk, w] = file'[sd_vd][sd_lba_bk, w]
    BY <1>4, <2>1, <2>2
  <2>5. BlockSame(sd_lba_bk)'
    BY <1>2, <2>1, <2>4 DEF BlockSame, Same
  <2>6. ~bk_sdrd_copying'
    BY <1>0, <1>2, <2>1 DEF Engine
  <2>7. QED
    BY <1>2, <2>1, <2>2, <2>3, <2>5, <2>6 DEF Saved
<1>8. QED
  BY <1>5, <1>6, <1>7

(* Every step keeps what a load has done.                                   *)
LEMMA LoadsStep ==
  ASSUME Control, OneClient, BlocksInImage, Loads, Saves, Next
  PROVE  Loads'
<1> SUFFICES ASSUME ~disturbed', bk_loading', HasBlocks'
             PROVE  Loaded'
  BY DEF Loads
<1>1. CASE ~InBlocks'
  BY <1>1, ControlStep, Nothing
<1>2. CASE InBlocks'
  <2>1. /\ ~disturbed /\ bk_loading /\ bk_state \notin {"IDLE", "NEXT_VD"}
        /\ UNCHANGED <<bk_loading, bk_saving, sd_vd>> /\ bk_loading # bk_saving
        /\ HasBlocks /\ (Clock \/ Port \/ Host)
    BY <1>2, InTransfer DEF HasBlocks
  <2>2. Loaded
    BY <2>1 DEF Loads
  <2>3. CASE Clock /\ Copy
    BY <1>2, <2>1, <2>2, <2>3, LoadCopies
  <2>4. CASE Clock /\ ~Copy
    BY <1>2, <2>1, <2>4, FsmMoves
  <2>5. CASE Port \/ Host
    BY <1>2, <2>1, <2>2, <2>5, LoadServed
  <2>6. QED
    BY <2>1, <2>3, <2>4, <2>5
<1>3. QED
  BY <1>1, <1>2

(* Every step keeps what a save has done.                                   *)
LEMMA SavesStep ==
  ASSUME Control, OneClient, BlocksInImage, Loads, Saves, Next
  PROVE  Saves'
<1> SUFFICES ASSUME ~disturbed', bk_saving', HasBlocks'
             PROVE  Saved'
  BY DEF Saves
<1>1. CASE ~InBlocks'
  BY <1>1, ControlStep, Nothing
<1>2. CASE InBlocks'
  <2>1. /\ ~disturbed /\ bk_saving /\ bk_state \notin {"IDLE", "NEXT_VD"}
        /\ UNCHANGED <<bk_loading, bk_saving, sd_vd>> /\ bk_loading # bk_saving
        /\ HasBlocks /\ (Clock \/ Port \/ Host)
    BY <1>2, InTransfer DEF HasBlocks
  <2>2. Saved
    BY <2>1 DEF Saves
  <2>3. CASE Clock /\ Copy
    BY <1>2, <2>1, <2>2, <2>3, SaveCopies
  <2>4. CASE Clock /\ ~Copy
    BY <1>2, <2>1, <2>4, FsmMoves
  <2>5. CASE Port \/ Host
    BY <1>2, <2>1, <2>2, <2>5, SaveServed
  <2>6. QED
    BY <2>1, <2>3, <2>4, <2>5
<1>3. QED
  BY <1>1, <1>2

(* A volume is done when the last block of its image is, and nothing moves *)
(* it before the next volume is selected.                                  *)
LEMMA WholeStep ==
  ASSUME Control, OneClient, Loads, Saves, Whole, Next
  PROVE  Whole'
<1> SUFFICES ASSUME Moved', bk_sd_blk_cnt'[sd_vd'] # 0
             PROVE  \A b \in 0 .. bk_sd_blk_cnt'[sd_vd'] - 1 : BlockSame(b)'
  BY DEF Whole
<1>0. /\ Types /\ Handshake /\ Engine /\ FsmTypes /\ LoaderAsked
      /\ bk_state' = "NEXT_VD" /\ bk_mounted'[sd_vd'] /\ ~disturbed'
  BY DEF Control, Types, TypeOK, FsmTypes, Moved
<1>1. CASE bk_state = "NEXT_VD"
  <2>1. ~Clock
    BY <1>0, <1>1 DEF Clock, Copy, Fsm, Idle, SelectVd, StartSd, WaitSd, StartCopy, NextLba,
       NextVd
  <2>2. ~disturbed /\ ~LoaderBegins /\ \A v, n, tail : ~HostMounts(v, n, tail)
    BY <1>0, <1>1, <2>1, Calm DEF Next, Loader
  <2>3. ~ioctl_download /\ ~ioctl_wait /\ ~bk_sdrd_copying
    BY <1>0, <1>1, <2>2 DEF OneClient, LoaderAsked, Engine
  <2>4. ~PortWrites
    BY <2>2, <2>3 DEF PortWrites, OneClient
  <2>5. ~HostDone
    BY <1>0, <1>1 DEF HostDone, Handshake, Asking
  <2>6. UNCHANGED <<sd_vd, bk_mounted, bk_sd_blk_cnt, sdram, file>>
    BY <2>1, <2>2, <2>4, <2>5 DEF Next, Port, PortReads, PortAcks, Loader, Host, HostPolls,
       HostAcks, fsmvars, imgvars, datavars
  <2>7. \A b \in 0 .. bk_sd_blk_cnt[sd_vd] - 1 : BlockSame(b)
    BY <1>0, <1>1, <2>2, <2>6 DEF Whole, Moved
  <2>8. \A b : BlockSame(b)' <=> BlockSame(b)
    BY <2>6, SameStays
  <2>9. QED
    BY <2>6, <2>7, <2>8
<1>2. CASE bk_state # "NEXT_VD"
  <2>1. Clock /\ (SelectVd \/ NextLba)
    BY <1>0, <1>2 DEF Next, Port, Loader, Host, fsmvars, Clock, Copy, CopyBegins,
       CopyReadsBuffer, CopyGotWord, CopyNextWord, CopyWaits, CopyDone, Fsm, Idle, Begin, Goto,
       SelectVd, StartSd, WaitSd, StartCopy, NextLba, NextVd
  <2>2. UNCHANGED <<sd_vd, bk_mounted, bk_sd_blk_cnt, sdram, file>>
    BY <2>1 DEF Clock, SelectVd, NextLba, imgvars
  <2>3. bk_state = "NEXT_LBA" /\ sd_lba_bk + 1 = bk_sd_blk_cnt[sd_vd] /\ ~disturbed
    <3>1. ~SelectVd
      BY <1>0, <2>2 DEF SelectVd
    <3>2. NextLba
      BY <2>1, <3>1
    <3>3. /\ bk_state = "NEXT_LBA" /\ ~disturbed
          /\ (sd_lba_bk + 1) % LbaValues = bk_sd_blk_cnt[sd_vd]
      BY <1>0, <2>1, <3>2, Calm DEF NextLba
    <3>4. /\ LbaValues \in Nat /\ LbaValues >= 1 /\ sd_lba_bk \in 0 .. LbaValues - 1
          /\ bk_sd_blk_cnt[sd_vd] # 0
      BY <1>0, <2>2, Sizes DEF Types, FsmTypes
    <3>5. sd_lba_bk + 1 < LbaValues \/ sd_lba_bk + 1 = LbaValues
      BY <3>4
    <3>6. (sd_lba_bk + 1) % LbaValues = sd_lba_bk + 1
      BY <3>3, <3>4, <3>5, CountsUp
    <3>7. QED
      BY <3>3, <3>6
  <2>4. BlockSame(sd_lba_bk) /\ \A b \in 0 .. sd_lba_bk - 1 : BlockSame(b)
    BY <1>0, <2>2, <2>3 DEF Loads, Saves, HasBlocks, Loaded, Saved, FsmTypes, InBlocks
  <2>5. \A b \in 0 .. bk_sd_blk_cnt[sd_vd] - 1 : BlockSame(b)
    <3>1. sd_lba_bk \in Nat
      BY <1>0, Sizes DEF FsmTypes, Types
    <3>2. \A b \in 0 .. bk_sd_blk_cnt[sd_vd] - 1 : b \in 0 .. sd_lba_bk - 1 \/ b = sd_lba_bk
      BY <2>3, <3>1
    <3>3. QED
      BY <2>4, <3>2
  <2>6. \A b : BlockSame(b)' <=> BlockSame(b)
    BY <2>2, SameStays
  <2>7. QED
    BY <2>2, <2>5, <2>6
<1>3. QED
  BY <1>1, <1>2

-----------------------------------------------------------------------------
(* The invariant, and what it says of every behaviour.                     *)

(* At rest, nothing has been asked for and nothing is mounted.             *)
LEMMA InitInv ==
  ASSUME Init
  PROVE  IInv
<1>0. /\ setup \in Setups /\ Words \in Nat /\ Words >= 1 /\ MaxBlocks \in Nat
      /\ MaxBlocks >= 1 /\ RomWords \in Nat /\ LbaValues = MaxBlocks + 1
  BY Sizes DEF Init
<1>1. Types
  <2>1. TypeOK
    <3>1. /\ bk_state = "IDLE" /\ sd_vd = 0 /\ sd_lba_bk = 0 /\ word = 0 /\ romwr_a = 0
      BY DEF Init
    <3>2. 0 \in 0 .. LbaValues - 1 /\ 0 \in 0 .. Words - 1 /\ 0 \in 0 .. RomWords
      BY <1>0
    <3>3. QED
      BY <3>1, <3>2 DEF TypeOK, States, Volume, Word
  <2>2. QED
    BY <1>0, <2>1 DEF Init, Types
<1>2. Shapes
  BY <1>0 DEF Init, Shapes, Address3
<1>3. Images
  <2>1. bk_mounted = [v \in Volume |-> FALSE] /\ bk_sd_blk_cnt = [v \in Volume |-> 0]
    BY DEF Init
  <2>2. QED
    BY <1>0, <2>1 DEF Images
<1>4. Kind /\ Engine /\ LoaderAsked
  BY DEF Init, Kind, Engine, LoaderAsked
<1>5. Handshake
  <2>1. /\ sd_rd_bk = [v \in Volume |-> FALSE] /\ sd_wr_bk = [v \in Volume |-> FALSE]
        /\ bk_state = "IDLE" /\ host = NOJOB /\ ~sd_ack_d /\ ~sd_ack
    BY DEF Init
  <2>2. QED
    BY <2>1 DEF Handshake, Asking
<1>6. OneClient /\ BlocksInImage
  BY DEF Init, OneClient, BlocksInImage, ls_we_req, Xor
<1>7. RomLoaded /\ Loads /\ Saves /\ Whole
  BY DEF Init, RomLoaded, Loads, Saves, Whole, Moved
<1>8. QED
  BY <1>1, <1>2, <1>3, <1>4, <1>5, <1>6, <1>7 DEF IInv, Control

(* Every step keeps the invariant.                                         *)
LEMMA Inductive ==
  ASSUME IInv, [Next]_vars
  PROVE  IInv'
<1>1. CASE Next
  <2>1. Control' /\ OneClient' /\ BlocksInImage'
    BY <1>1, ControlStep, OneClientKept, BlocksStep DEF IInv
  <2>2. RomLoaded' /\ Loads' /\ Saves' /\ Whole'
    BY <1>1, RomStep, LoadsStep, SavesStep, WholeStep DEF IInv
  <2>3. QED
    BY <2>1, <2>2 DEF IInv
<1>2. CASE UNCHANGED vars
  <2>1. /\ UNCHANGED <<setup, bk_state, bk_loading, bk_saving, sd_vd, sd_lba_bk, sd_rd_bk,
                       sd_wr_bk, sd_ack_d, bk_mounted_d, copy, bk_sdrd_copying, word, sdbuf_a0>>
        /\ UNCHANGED <<sdbuf_rden, sdbuf_wren, bk_sdrd_we_req, bk_sdrd_rd_req, bk_mounted,
                       bk_sd_blk_cnt, ioctl_download, ioctl_wait, romwr_a, romwr_req,
                       ls_we_ack, ls_rd_ack, port, ls_dout>>
        /\ UNCHANGED <<sd_ack, host, sdbuf, sdram, file, rom, disturbed>>
    BY <1>2 DEF vars, fsmvars, copyvars, imgvars, romvars, portvars, hostvars, datavars
  <2>2. /\ UNCHANGED <<Words, MaxBlocks, RomWords, LbaValues, Word, Block, Address3, ls_we_req>>
        /\ UNCHANGED Handled /\ (HasBlocks' <=> HasBlocks)
        /\ (Answered' <=> Answered) /\ (Asking' <=> Asking) /\ (InBlocks' <=> InBlocks)
        /\ \A b : BlockSame(b)' <=> BlockSame(b)
        /\ \A w : Same(sd_lba_bk, w)' <=> Same(sd_lba_bk, w)
    BY <2>1 DEF Words, MaxBlocks, RomWords, LbaValues, Word, Block, Address3, ls_we_req,
       Answered, Asking, InBlocks, HasBlocks, BlockSame, Same, Handled
  <2>3. Control'
    BY <2>1, <2>2 DEF IInv, Control, Types, TypeOK, Shapes, Images, Kind, Engine, Handshake,
       LoaderAsked
  <2>4. OneClient' /\ BlocksInImage' /\ RomLoaded'
    BY <2>1, <2>2 DEF IInv, OneClient, BlocksInImage, RomLoaded
  <2>5. Loads' /\ Saves'
    BY <2>1, <2>2 DEF IInv, Loads, Saves, Loaded, Saved
  <2>6. Whole'
    BY <2>1, <2>2 DEF IInv, Whole, Moved
  <2>7. QED
    BY <2>3, <2>4, <2>5, <2>6 DEF IInv
<1>3. QED
  BY <1>1, <1>2

(* The invariant holds in every state.                                     *)
LEMMA Invariance == Spec => []IInv
<1>1. Init => IInv
  BY InitInv
<1>2. IInv /\ [Next]_vars => IInv'
  BY Inductive
<1>3. QED
  BY <1>1, <1>2, PTL DEF Spec

(* Registers keep their kinds, for any lengths and any volumes.            *)
THEOREM TypeCorrect == Spec => []TypeOK
<1>1. IInv => TypeOK
  BY DEF IInv, Control, Types
<1>2. QED
  BY <1>1, Invariance, PTL

(* bk_state (pcfx_top.sv): of an image with a whole block, no block beyond *)
(* the last one is touched, unless an image is mounted meanwhile.          *)
THEOREM BlocksStayInImage == Spec => []BlocksInImage
<1>1. IInv => BlocksInImage
  BY DEF IInv
<1>2. QED
  BY <1>1, Invariance, PTL

(* A load leaves in the SDRAM what the whole blocks of the image hold,     *)
(* however the host, the port and the clock interleave.                    *)
THEOREM LoadsAreExact == Spec => []LoadExact
<1>1. IInv => LoadExact
  BY DEF IInv, Whole, LoadExact, BlockSame, Same
<1>2. QED
  BY <1>1, Invariance, PTL

(* A save leaves in the image's whole blocks what the SDRAM holds.         *)
THEOREM SavesAreExact == Spec => []SaveExact
<1>1. IInv => SaveExact
  BY DEF IInv, Whole, SaveExact, BlockSame, Same
<1>2. QED
  BY <1>1, Invariance, PTL

(* Every word of a ROM that the loader was told is written is written,     *)
(* although it shares its request line with the transfer.                  *)
THEOREM RomIsComplete == Spec => []RomComplete
<1>1. IInv => RomComplete
  BY DEF IInv, RomLoaded, RomComplete
<1>2. QED
  BY <1>1, Invariance, PTL

=============================================================================
