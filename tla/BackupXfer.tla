----------------------------- MODULE BackupXfer -----------------------------
(***************************************************************************)
(* The transfer of backup RAM between the SDRAM and the image files of the *)
(* host, and the ROM loader it shares the loader/saver port with           *)
(* (pcfx_top.sv).  Two volumes, 0 the internal RAM and 1 the FX-BMP card,  *)
(* are read or written block by block through a buffer: the host fills or  *)
(* empties the buffer (sd_rd, sd_wr, sd_ack), the copy engine moves its    *)
(* words from or to the SDRAM (toggled requests, MemIf).                   *)
(*                                                                         *)
(* Clock is one edge of clk_sys for the transfer state machine and the     *)
(* copy engine; the host, the port and the loader take steps between.      *)
(* A word is a token: where it belongs, and whether it came from a file.   *)
(*                                                                         *)
(* A definition named X_Y is X with a plausible mistake Y; it is not part  *)
(* of the specification, and shows that a property would notice.           *)
(***************************************************************************)
EXTENDS Integers

Volume == {0, 1}

(* What a behaviour may meet.  words: words of a block (128 in the         *)
(* source); blocks: most blocks of an image; rom: words of the ROM the     *)
(* loader writes; mountable: volumes that may have an image; tails:        *)
(* whether an image may end in less than a block; remounts: whether images *)
(* may be mounted during a transfer; autoload: whether the menu enables    *)
(* the load of an image that is mounted.                                   *)
CONSTANT Setups

ASSUME XferAssumption ==
  Setups \subseteq [words : Nat \ {0}, blocks : Nat \ {0}, rom : Nat,
                   mountable : SUBSET Volume, tails : SUBSET BOOLEAN,
                   remounts : BOOLEAN, autoload : BOOLEAN]

VARIABLE setup     \* one of Setups, for the whole behaviour

Words == setup.words
MaxBlocks == setup.blocks
RomWords == setup.rom
Block == 0 .. MaxBlocks - 1
Word == 0 .. Words - 1

(* As a bound, the number of a block wraps here; at 2^32 in the source.    *)
LbaValues == MaxBlocks + 1

VARIABLES
  bk_state, bk_loading, bk_saving, sd_vd, sd_lba_bk,
  bk_mounted, bk_mounted_d, bk_sd_blk_cnt,
  sd_rd_bk, sd_wr_bk, sd_ack_d,
  copy,            \* bk_sdrd_copy_req and bk_sdrd_copy_ack differ
  bk_sdrd_copying, word, sdbuf_a0, sdbuf_rden, sdbuf_wren,
  bk_sdrd_we_req, bk_sdrd_rd_req,      \* toggled requests
  ioctl_download, ioctl_wait, romwr_a, romwr_req,
  ls_we_ack, ls_rd_ack, port, ls_dout, \* the loader/saver port (MemIf)
  sd_ack, host,    \* host: acknowledge, and the block it works on
  sdbuf, sdram, file, rom,             \* contents
  disturbed        \* observed: another client met this transfer

fsmvars  == <<bk_state, bk_loading, bk_saving, sd_vd, sd_lba_bk, sd_rd_bk,
              sd_wr_bk, sd_ack_d, bk_mounted_d>>
copyvars == <<copy, bk_sdrd_copying, word, sdbuf_a0, sdbuf_rden, sdbuf_wren,
              bk_sdrd_we_req, bk_sdrd_rd_req>>
imgvars  == <<bk_mounted, bk_sd_blk_cnt>>
romvars  == <<ioctl_download, ioctl_wait, romwr_a, romwr_req>>
portvars == <<ls_we_ack, ls_rd_ack, port, ls_dout>>
hostvars == <<sd_ack, host>>
datavars == <<sdbuf, sdram, file, rom>>
vars == <<setup, fsmvars, copyvars, imgvars, romvars, portvars, hostvars, datavars, disturbed>>

NOJOB == <<>>

-----------------------------------------------------------------------------
(* Wires of the shared port: one toggle carries the writes of both.        *)

Xor(p, q) == p # q

ls_we_req == Xor(romwr_req, bk_sdrd_we_req)
romwr_ack == Xor(ls_we_ack, bk_sdrd_we_req)
bk_sdrd_we_ack_Plain == ls_we_ack

bk_sdrd_we_ack == Xor(ls_we_ack, romwr_req)

(* No write of either is asked for or under way.                           *)
Quiet == port = "IDLE" /\ ls_we_req = ls_we_ack

bk_autoload_go == setup.autoload /\ bk_mounted[0] /\ ~bk_mounted_d[0]

-----------------------------------------------------------------------------
(* Transfer state machine.                                                 *)

Goto(s) == bk_state' = s /\ UNCHANGED <<bk_loading, bk_saving, sd_vd, sd_lba_bk, copy>>

SdRequest(line) == [line EXCEPT ![sd_vd] = TRUE]

AckRises == ~sd_ack_d /\ sd_ack
AckFalls == sd_ack_d /\ ~sd_ack

NoSd == /\ sd_rd_bk' = IF AckRises THEN [v \in Volume |-> FALSE] ELSE sd_rd_bk
        /\ sd_wr_bk' = IF AckRises THEN [v \in Volume |-> FALSE] ELSE sd_wr_bk

Begin(loading) ==
  /\ bk_loading' = (bk_loading \/ loading) /\ bk_saving' = (bk_saving \/ ~loading)
  /\ sd_vd' = 0 /\ bk_state' = "SELECT_VD"
  /\ UNCHANGED <<sd_lba_bk, copy>>

(* Load and save may be asked for by the menu in any cycle; a save also    *)
(* when the menu opens.                                                    *)
Idle ==
  /\ bk_state = "IDLE" /\ NoSd
  /\ \/ Begin(TRUE)
     \/ ~bk_autoload_go /\ (Begin(FALSE) \/ Goto("IDLE"))

SelectVd ==
  /\ bk_state = "SELECT_VD" /\ NoSd
  /\ bk_state' = IF ~bk_mounted[sd_vd] THEN "NEXT_VD"
                 ELSE IF bk_loading THEN "START_SD_RD" ELSE "START_SDRAM_RD"
  /\ sd_lba_bk' = 0
  /\ UNCHANGED <<bk_loading, bk_saving, sd_vd, copy>>

StartSd ==
  \/ /\ bk_state = "START_SD_RD" /\ Goto("SD_RD")
     /\ sd_rd_bk' = SdRequest(sd_rd_bk) /\ UNCHANGED sd_wr_bk
  \/ /\ bk_state = "START_SD_WR" /\ Goto("SD_WR")
     /\ sd_wr_bk' = SdRequest(sd_wr_bk) /\ UNCHANGED sd_rd_bk

WaitSd ==
  /\ bk_state \in {"SD_RD", "SD_WR"} /\ NoSd
  /\ Goto(IF ~AckFalls THEN bk_state
          ELSE IF bk_state = "SD_RD" THEN "START_SDRAM_WR" ELSE "NEXT_LBA")

StartCopy ==
  /\ bk_state \in {"START_SDRAM_WR", "START_SDRAM_RD"} /\ NoSd
  /\ bk_state' = IF bk_state = "START_SDRAM_WR" THEN "SDRAM_WR" ELSE "SDRAM_RD"
  /\ copy' = TRUE
  /\ UNCHANGED <<bk_loading, bk_saving, sd_vd, sd_lba_bk>>

NextLba_OneMore ==
  /\ bk_state = "NEXT_LBA" /\ NoSd
  /\ IF sd_lba_bk = bk_sd_blk_cnt[sd_vd]
     THEN bk_state' = "NEXT_VD" /\ sd_lba_bk' = 0
     ELSE /\ sd_lba_bk' = (sd_lba_bk + 1) % LbaValues
          /\ bk_state' = IF bk_loading THEN "START_SD_RD" ELSE "START_SDRAM_RD"
  /\ UNCHANGED <<bk_loading, bk_saving, sd_vd, copy>>

NextLba ==
  /\ bk_state = "NEXT_LBA" /\ NoSd
  /\ IF (sd_lba_bk + 1) % LbaValues = bk_sd_blk_cnt[sd_vd]
     THEN bk_state' = "NEXT_VD" /\ sd_lba_bk' = 0
     ELSE /\ sd_lba_bk' = (sd_lba_bk + 1) % LbaValues
          /\ bk_state' = IF bk_loading THEN "START_SD_RD" ELSE "START_SDRAM_RD"
  /\ UNCHANGED <<bk_loading, bk_saving, sd_vd, copy>>

NextVd_StaysLoading ==
  /\ bk_state = "NEXT_VD" /\ NoSd
  /\ sd_vd' = 1 - sd_vd
  /\ IF sd_vd = 1 THEN bk_state' = "IDLE" /\ bk_saving' = FALSE
     ELSE bk_state' = "SELECT_VD" /\ UNCHANGED bk_saving
  /\ UNCHANGED <<bk_loading, sd_lba_bk, copy>>

NextVd ==
  /\ bk_state = "NEXT_VD" /\ NoSd
  /\ sd_vd' = 1 - sd_vd
  /\ IF sd_vd = 1
     THEN bk_state' = "IDLE" /\ bk_loading' = FALSE /\ bk_saving' = FALSE
     ELSE bk_state' = "SELECT_VD" /\ UNCHANGED <<bk_loading, bk_saving>>
  /\ UNCHANGED <<sd_lba_bk, copy>>

-----------------------------------------------------------------------------
(* Copy engine: moves the words of the buffer while the state machine      *)
(* waits in SDRAM_WR or SDRAM_RD.                                          *)

Address == <<sd_vd, sd_lba_bk, word>>

CopyBegins ==
  /\ copy /\ ~bk_sdrd_copying
  /\ bk_sdrd_copying' = TRUE /\ word' = 0 /\ sdbuf_a0' = FALSE
  /\ IF bk_loading
     THEN sdbuf_rden' = TRUE /\ UNCHANGED bk_sdrd_rd_req
     ELSE bk_sdrd_rd_req' = ~bk_sdrd_rd_req /\ UNCHANGED sdbuf_rden
  /\ UNCHANGED <<copy, sdbuf_wren, bk_sdrd_we_req, sdbuf, bk_state>>

(* Two halves of a word are read from the buffer, then the port is asked   *)
(* to write it.                                                            *)
CopyReadsBuffer ==
  /\ bk_sdrd_copying /\ bk_loading /\ sdbuf_rden
  /\ IF sdbuf_a0
     THEN sdbuf_rden' = FALSE /\ bk_sdrd_we_req' = ~bk_sdrd_we_req /\ UNCHANGED sdbuf_a0
     ELSE sdbuf_a0' = TRUE /\ UNCHANGED <<sdbuf_rden, bk_sdrd_we_req>>
  /\ UNCHANGED <<copy, bk_sdrd_copying, word, sdbuf_wren, bk_sdrd_rd_req, sdbuf, bk_state>>

CopyGotWord_Early ==
  /\ bk_sdrd_copying /\ bk_saving /\ ~sdbuf_wren
  /\ sdbuf_wren' = TRUE
  /\ UNCHANGED <<copy, bk_sdrd_copying, word, sdbuf_a0, sdbuf_rden,
                 bk_sdrd_we_req, bk_sdrd_rd_req, sdbuf, bk_state>>

(* The port has read a word: it is written to the buffer in two halves.    *)
CopyGotWord ==
  /\ bk_sdrd_copying /\ bk_saving /\ ~sdbuf_wren /\ bk_sdrd_rd_req = ls_rd_ack
  /\ sdbuf_wren' = TRUE
  /\ UNCHANGED <<copy, bk_sdrd_copying, word, sdbuf_a0, sdbuf_rden,
                 bk_sdrd_we_req, bk_sdrd_rd_req, sdbuf, bk_state>>

WordDone_Early == (bk_loading /\ ~sdbuf_rden) \/ (bk_saving /\ sdbuf_wren)

WordDone == \/ bk_loading /\ ~sdbuf_rden /\ bk_sdrd_we_req = bk_sdrd_we_ack
            \/ bk_saving /\ sdbuf_wren

CopyNextWord ==
  /\ bk_sdrd_copying /\ WordDone
  /\ sdbuf_a0' = ~sdbuf_a0
  /\ sdbuf' = IF sdbuf_wren /\ sdbuf_a0 THEN [sdbuf EXCEPT ![word] = ls_dout] ELSE sdbuf
  /\ IF ~sdbuf_a0
     THEN UNCHANGED <<copy, bk_sdrd_copying, word, sdbuf_rden, sdbuf_wren, bk_sdrd_rd_req>>
     ELSE /\ sdbuf_wren' = FALSE
          /\ word' = (word + 1) % Words
          /\ IF word = Words - 1
             THEN /\ bk_sdrd_copying' = FALSE /\ copy' = FALSE
                  /\ UNCHANGED <<sdbuf_rden, bk_sdrd_rd_req>>
             ELSE /\ sdbuf_rden' = bk_loading
                  /\ bk_sdrd_rd_req' = Xor(bk_sdrd_rd_req, ~bk_loading)
                  /\ UNCHANGED <<copy, bk_sdrd_copying>>
  /\ UNCHANGED <<bk_sdrd_we_req, bk_state>>

CopyDone ==
  /\ ~copy /\ ~bk_sdrd_copying
  /\ bk_state' = IF bk_state = "SDRAM_WR" THEN "NEXT_LBA"
                 ELSE IF bk_loading THEN "START_SDRAM_WR" ELSE "START_SD_WR"
  /\ UNCHANGED <<copyvars, sdbuf>>

(* The port has not answered yet.                                          *)
CopyWaits ==
  /\ bk_sdrd_copying /\ ~sdbuf_rden /\ ~WordDone
  /\ bk_saving => bk_sdrd_rd_req # ls_rd_ack
  /\ UNCHANGED <<copyvars, sdbuf, bk_state>>

Copy ==
  /\ bk_state \in {"SDRAM_WR", "SDRAM_RD"} /\ NoSd
  /\ CopyBegins \/ CopyReadsBuffer \/ CopyGotWord \/ CopyNextWord
     \/ CopyWaits \/ CopyDone
  /\ UNCHANGED <<bk_loading, bk_saving, sd_vd, sd_lba_bk>>

Fsm == Idle \/ SelectVd \/ StartSd \/ WaitSd \/ StartCopy \/ NextLba \/ NextVd

Clock ==
  /\ bk_mounted_d' = bk_mounted
  /\ sd_ack_d' = sd_ack
  /\ \/ Copy
     \/ /\ Fsm
        /\ UNCHANGED <<bk_sdrd_copying, word, sdbuf_a0, sdbuf_rden, sdbuf_wren,
                       bk_sdrd_we_req, bk_sdrd_rd_req, sdbuf>>
  /\ disturbed' = IF ioctl_download THEN disturbed \/ bk_state' # "IDLE"
                  ELSE disturbed /\ (bk_state # "IDLE" \/ ~Quiet)
  /\ UNCHANGED <<setup, imgvars, romvars, portvars, hostvars, sdram, file, rom>>
-----------------------------------------------------------------------------
(* The loader/saver port: an access takes address and data when it is      *)
(* carried out and acknowledges whatever is asked when it ends.            *)

PortWrites ==
  /\ port = "IDLE" /\ ls_we_req # ls_we_ack
  /\ port' = "DONE"
  /\ ls_dout' = IF bk_sdrd_rd_req # ls_rd_ack THEN NOJOB ELSE ls_dout
  /\ IF ioctl_download
     THEN /\ rom' = [rom EXCEPT ![romwr_a] = @ \/ ioctl_wait]
          /\ UNCHANGED sdram
     ELSE /\ sdram' = [sdram EXCEPT ![Address] = sdbuf[word]]
          /\ UNCHANGED rom
  /\ UNCHANGED <<ls_we_ack, ls_rd_ack, sdbuf, file>>

PortReads ==
  /\ port = "IDLE" /\ ls_we_req = ls_we_ack /\ bk_sdrd_rd_req # ls_rd_ack
  /\ port' = "DONE"
  /\ ls_dout' = IF ioctl_download THEN NOJOB ELSE sdram[Address]
  /\ UNCHANGED <<ls_we_ack, ls_rd_ack, datavars>>

PortAcks ==
  /\ port = "DONE"
  /\ port' = "IDLE"
  /\ ls_we_ack' = ls_we_req /\ ls_rd_ack' = bk_sdrd_rd_req
  /\ UNCHANGED <<ls_dout, datavars>>

Port ==
  /\ PortWrites \/ PortReads \/ PortAcks
  /\ UNCHANGED <<setup, fsmvars, copyvars, imgvars, romvars, hostvars, disturbed>>

-----------------------------------------------------------------------------
(* The ROM loader: one request for two halves that have come from the      *)
(* host; the next ones are held off until it is acknowledged.              *)

LoaderBegins ==
  /\ ~ioctl_download
  /\ ioctl_download' = TRUE /\ romwr_a' = 0
  /\ rom' = [n \in DOMAIN rom |-> FALSE]
  /\ disturbed' = (bk_state # "IDLE" \/ ~Quiet)
  /\ UNCHANGED <<ioctl_wait, romwr_req>>

LoaderAsks ==
  /\ ioctl_download /\ ~ioctl_wait /\ romwr_a < RomWords
  /\ ioctl_wait' = TRUE /\ romwr_req' = ~romwr_req
  /\ UNCHANGED <<ioctl_download, romwr_a, rom, disturbed>>

LoaderContinues_Early ==
  /\ ioctl_wait
  /\ ioctl_wait' = FALSE /\ romwr_a' = romwr_a + 1
  /\ UNCHANGED <<ioctl_download, romwr_req, rom, disturbed>>

LoaderContinues ==
  /\ ioctl_wait /\ romwr_req = romwr_ack
  /\ ioctl_wait' = FALSE /\ romwr_a' = romwr_a + 1
  /\ UNCHANGED <<ioctl_download, romwr_req, rom, disturbed>>

LoaderEnds ==
  /\ ioctl_download /\ ~ioctl_wait
  /\ ioctl_download' = FALSE
  /\ UNCHANGED <<ioctl_wait, romwr_a, romwr_req, rom, disturbed>>

Loader ==
  /\ RomWords > 0
  /\ LoaderBegins \/ LoaderAsks \/ LoaderContinues \/ LoaderEnds
  /\ UNCHANGED <<setup, fsmvars, copyvars, imgvars, portvars, hostvars, sdbuf, sdram,
                 file>>

-----------------------------------------------------------------------------
(* The host: serves one block request at a time, and mounts images between *)
(* them.  Its acknowledge lasts long enough for the core to see it.        *)

FileToken(v, b, w) == <<"FILE", v, b, w>>
RamToken(v, b, w) == <<"RAM", v, b, w>>

HostPolls(v) ==
  /\ host = NOJOB /\ ~sd_ack /\ (sd_rd_bk[v] \/ sd_wr_bk[v])
  /\ host' = [vd |-> v, lba |-> sd_lba_bk, wr |-> sd_wr_bk[v]]
  /\ UNCHANGED <<sd_ack, imgvars, sdbuf, file, disturbed>>

HostAcks ==
  /\ host # NOJOB /\ ~sd_ack /\ ~sd_ack_d
  /\ sd_ack' = TRUE
  /\ UNCHANGED <<host, imgvars, sdbuf, file, disturbed>>

HostDone ==
  /\ sd_ack /\ sd_ack_d
  /\ sd_ack' = FALSE /\ host' = NOJOB
  /\ IF host.wr
     THEN /\ file' = [file EXCEPT ![host.vd] =
                       [p \in DOMAIN @ |-> IF p[1] = host.lba THEN sdbuf[p[2]] ELSE @[p]]]
          /\ UNCHANGED sdbuf
     ELSE /\ sdbuf' = [w \in Word |-> IF host.lba \in Block
                                      THEN file[host.vd][host.lba, w] ELSE NOJOB]
          /\ UNCHANGED file
  /\ UNCHANGED <<imgvars, disturbed>>

(* An image of n whole blocks and a tail shorter than a block: mounted if  *)
(* it has a byte, and counted in whole blocks.  As a bound, a transfer     *)
(* meets one mount at most.                                                *)
HostMounts(v, n, tail) ==
  /\ host = NOJOB
  /\ bk_state = "IDLE" \/ (setup.remounts /\ ~disturbed)
  /\ bk_mounted' = [bk_mounted EXCEPT ![v] = n # 0 \/ tail]
  /\ bk_sd_blk_cnt' = [bk_sd_blk_cnt EXCEPT ![v] = n]
  /\ file' = [file EXCEPT ![v] = [p \in Block \X Word |-> FileToken(v, p[1], p[2])]]
  /\ disturbed' = (disturbed \/ bk_state # "IDLE")
  /\ UNCHANGED <<hostvars, sdbuf>>

Host ==
  /\ \/ \E v \in Volume : HostPolls(v)
     \/ HostAcks
     \/ HostDone
     \/ \E v \in setup.mountable, n \in 0 .. MaxBlocks, tail \in setup.tails :
          HostMounts(v, n, tail)
  /\ UNCHANGED <<setup, fsmvars, copyvars, romvars, portvars, sdram, rom>>

Init ==
  /\ setup \in Setups
  /\ bk_state = "IDLE" /\ bk_loading = FALSE /\ bk_saving = FALSE
  /\ sd_vd = 0 /\ sd_lba_bk = 0
  /\ bk_mounted = [v \in Volume |-> FALSE] /\ bk_mounted_d = bk_mounted
  /\ bk_sd_blk_cnt = [v \in Volume |-> 0]
  /\ sd_rd_bk = [v \in Volume |-> FALSE] /\ sd_wr_bk = sd_rd_bk /\ sd_ack_d = FALSE
  /\ copy = FALSE /\ bk_sdrd_copying = FALSE /\ word = 0
  /\ sdbuf_a0 = FALSE /\ sdbuf_rden = FALSE /\ sdbuf_wren = FALSE
  /\ bk_sdrd_we_req = FALSE /\ bk_sdrd_rd_req = FALSE
  /\ ioctl_download = FALSE /\ ioctl_wait = FALSE /\ romwr_a = 0 /\ romwr_req = FALSE
  /\ ls_we_ack = FALSE /\ ls_rd_ack = FALSE /\ port = "IDLE" /\ ls_dout = NOJOB
  /\ sd_ack = FALSE /\ host = NOJOB
  /\ sdbuf = [w \in Word |-> NOJOB]
  /\ sdram = [p \in Volume \X (0 .. LbaValues - 1) \X Word |-> RamToken(p[1], p[2], p[3])]
  /\ file = [v \in Volume |-> [p \in Block \X Word |-> FileToken(v, p[1], p[2])]]
  /\ rom = [n \in 0 .. RomWords |-> FALSE]
  /\ disturbed = FALSE

Next == Clock \/ Port \/ Loader \/ Host

Spec == Init /\ [][Next]_vars

(* The port and the host serve what they are asked.  The clock runs: what  *)
(* Clock can do again and again, it does, since the loader and the port    *)
(* change only on edges of the same clock.                                 *)
FairSpec ==
  /\ Spec
  /\ SF_vars(Clock)
  /\ WF_vars(Port)
  /\ \A v \in Volume : WF_vars(HostPolls(v) /\ Host)
  /\ WF_vars((HostAcks \/ HostDone) /\ Host)

-----------------------------------------------------------------------------
(* Properties.                                                             *)

States == {"IDLE", "SELECT_VD", "START_SD_RD", "SD_RD", "START_SD_WR", "SD_WR",
           "START_SDRAM_WR", "SDRAM_WR", "START_SDRAM_RD", "SDRAM_RD",
           "NEXT_LBA", "NEXT_VD"}

Moved == bk_state = "NEXT_VD" /\ bk_mounted[sd_vd] /\ ~disturbed

(* Registers have values of their kinds; a transfer is a load or a save.   *)
TypeOK ==
  /\ bk_state \in States /\ sd_vd \in Volume
  /\ bk_state # "IDLE" => bk_loading # bk_saving
  /\ sd_lba_bk \in 0 .. LbaValues - 1 /\ word \in Word
  /\ romwr_a \in 0 .. RomWords

(* When a volume has been loaded, every word of every whole block of it    *)
(* is in the SDRAM, at its place, unless an image was mounted or a ROM was *)
(* downloaded meanwhile.                                                   *)
LoadExact ==
  Moved /\ bk_loading =>
    \A b \in 0 .. bk_sd_blk_cnt[sd_vd] - 1, w \in Word :
      sdram[sd_vd, b, w] = file[sd_vd][b, w]

(* When a volume has been saved, its whole blocks hold the RAM's words.    *)
SaveExact ==
  Moved /\ bk_saving =>
    \A b \in 0 .. bk_sd_blk_cnt[sd_vd] - 1, w \in Word :
      file[sd_vd][b, w] = sdram[sd_vd, b, w]

(* A transfer only touches whole blocks of the image that is mounted, if   *)
(* it has one: an image of less than a block is mounted with a count of 0, *)
(* which the number of a block equals only when it wraps.                  *)
BlocksInImage ==
  /\ ~disturbed /\ bk_state \notin {"IDLE", "SELECT_VD", "NEXT_VD"}
  /\ bk_sd_blk_cnt[sd_vd] # 0
  => bk_mounted[sd_vd] /\ sd_lba_bk < bk_sd_blk_cnt[sd_vd]

(* Every word of a ROM the loader was acknowledged is in the SDRAM, unless *)
(* a transfer ran during the download.                                     *)
RomComplete ==
  ioctl_download /\ ~disturbed => \A n \in 0 .. romwr_a - 1 : rom[n]

(* A transfer ends, also when a download uses the port at the same time,   *)
(* an image is replaced under it, or the image has no whole block.         *)
TransferEnds == bk_state # "IDLE" ~> bk_state = "IDLE"

(* README.md: "a .sav file of the same name as the CD is automatically     *)
(* mounted and loaded": an image mounted on volume 0 is loaded.            *)
AutoLoaded == bk_autoload_go ~> bk_loading

=============================================================================
