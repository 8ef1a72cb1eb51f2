------------------------------ MODULE FakeCd ------------------------------
(***************************************************************************)
(* The CD drive behind the SCSI target (fake_cd.sv): it carries out one    *)
(* command at a time, asks the host for sectors, and feeds the FIFO.       *)
(*                                                                         *)
(* A step is one edge of CLK.  A register that is 1 for a single clock     *)
(* (cmd_start, cmd_cont, cmd_done, STAT_GET, DOUT_REQ) is a member of      *)
(* pulses for that clock.  COMMAND is a function of the byte's position;   *)
(* a field of several bytes is one: address (of READ TOC, the track it     *)
(* starts at) at 1, and length at 2 of a command of group 1 or 2, at 1 of  *)
(* one of group 0.                                                         *)
(***************************************************************************)
EXTENDS Integers

CONSTANTS
  BLOCK,      \* bytes a READ(10) sends per sector; 2048 in the code
  TOC_LBA     \* address of the table of contents; -65536 in the code

ASSUME DriveAssumption == BLOCK \in Nat \ {0} /\ TOC_LBA \in Int

VARIABLES
  tst,                 \* state of the drive
  pulses,
  STATUS, sense_key,
  CD_WR, cd_wr_d,      \* write strobe to the FIFO
  SD_LBA, SD_RD, sd_ack_d,   \* sector asked of the host
  datalen, datapos, blkcnt, data_out,
  sdbuf_q              \* sector and place of the byte that the buffer gives

drivevars == <<tst, pulses, STATUS, sense_key, CD_WR, cd_wr_d, SD_LBA, SD_RD,
               sd_ack_d, datalen, datapos, blkcnt, data_out, sdbuf_q>>

(* The commands it knows, by operation code.                               *)
TEST_UNIT_READY == 0
REQUEST_SENSE == 3
MODE_SELECT == 21
PREVENT_ALLOW_MEDIUM_REMOVAL == 30
READ_10 == 40
READ_TOC == 67
READ_HEADER == 68

Reads == {READ_10, READ_TOC, READ_HEADER}
Ops == Reads \cup {TEST_UNIT_READY, REQUEST_SENSE, MODE_SELECT,
                   PREVENT_ALLOW_MEDIUM_REMOVAL}

GOOD == 0
CHECK_CONDITION == 2
NO_SENSE == 0
NOT_READY == 2
ILLEGAL_REQUEST == 5

Op(COMMAND) == COMMAND[0]
dataend == datapos + 1 = datalen
blkend == blkcnt = 0
medium_req(op) == op = TEST_UNIT_READY

(* Where in the sector the byte at pos of the answer lies.                 *)
sdbuf_off(op, pos) ==
  CASE op = READ_10     -> 16
    [] op = READ_HEADER -> IF pos = 0 THEN 15 ELSE IF pos >= 5 THEN 7 ELSE 0
    [] OTHER              -> 0

ZeroByte == <<"ZERO", 0, 0>>
SenseByte(key, pos) == <<"SENSE", key, pos>>
DiscByte(lba, place) == <<"DISC", lba, place>>
StatusByte(status) == <<"STATUS", status, 0>>

(* The byte at pos of the answer to op, from a sector or from the drive.   *)
Answer(op, key, pos, byte) ==
  CASE op = REQUEST_SENSE                   -> SenseByte(key, pos)
    [] op = READ_HEADER /\ pos \in 1 .. 4   -> ZeroByte
    [] OTHER                                  -> byte

CD_DATA(COMMAND) ==
  IF tst = "DATA_IN" THEN Answer(Op(COMMAND), sense_key, datapos, sdbuf_q) ELSE ZeroByte

-----------------------------------------------------------------------------
(* The states of the drive.  d is a record of what it sees of the target   *)
(* and the host: COMMAND, the strobes, CD_READY, ATN, MEDIUM_EMPTY, SD_ACK.*)

(* A pulse of TS_CMD that another statement of the same clock adds.        *)
Started == tst = "CMD" /\ "cmd_start" \in pulses
Continued == tst = "CMD" /\ "cmd_cont" \in pulses

Idle_PosKept(d) ==
  /\ tst = "IDLE"
  /\ IF d.COMM_SEND
     THEN tst' = "CMD" /\ blkcnt' = 0 /\ data_out' = FALSE
     ELSE UNCHANGED <<tst, blkcnt, data_out>>
  /\ pulses' = IF d.COMM_SEND THEN {"cmd_start"} ELSE {}
  /\ UNCHANGED <<STATUS, sense_key, datalen, datapos, SD_LBA>>

Idle(d) ==
  /\ tst = "IDLE"
  /\ IF d.COMM_SEND
     THEN tst' = "CMD" /\ blkcnt' = 0 /\ datapos' = 0 /\ data_out' = FALSE
     ELSE UNCHANGED <<tst, blkcnt, datapos, data_out>>
  /\ pulses' = IF d.COMM_SEND THEN {"cmd_start"} ELSE {}
  /\ UNCHANGED <<STATUS, sense_key, datalen, SD_LBA>>

Failed(key) ==
  /\ STATUS' = CHECK_CONDITION /\ sense_key' = key
  /\ datalen' = 0 /\ pulses' = {"cmd_done"}
  /\ UNCHANGED <<blkcnt, data_out, SD_LBA>>

Answered(length) ==
  /\ STATUS' = GOOD /\ datalen' = length
  /\ UNCHANGED sense_key

(* The first clock of a command.                                           *)
CmdStart(d) ==
  LET C == d.COMMAND
      op == Op(C)
  IN /\ Started
     /\ UNCHANGED <<tst, datapos>>
     /\ IF medium_req(op) /\ d.MEDIUM_EMPTY THEN Failed(NOT_READY)
        ELSE
          \/ /\ op \in {TEST_UNIT_READY, PREVENT_ALLOW_MEDIUM_REMOVAL}
             /\ Answered(0)
             /\ pulses' = {"cmd_done"}
             /\ UNCHANGED <<blkcnt, data_out, SD_LBA>>
          \/ /\ op \in {REQUEST_SENSE, MODE_SELECT}
             /\ Answered(C[1])
             /\ data_out' = (op = MODE_SELECT)
             /\ pulses' = {"cmd_done"}
             /\ UNCHANGED <<blkcnt, SD_LBA>>
          \/ /\ op = READ_10
             /\ Answered(BLOCK)
             /\ IF C[2] = 0
                THEN pulses' = {"cmd_done"} /\ UNCHANGED <<blkcnt, SD_LBA>>
                ELSE pulses' = {} /\ blkcnt' = C[2] - 1 /\ SD_LBA' = C[1]
             /\ UNCHANGED data_out
          \/ /\ op \in {READ_TOC, READ_HEADER}
             /\ Answered(C[2] % 4096)
             /\ SD_LBA' = IF op = READ_TOC THEN TOC_LBA + C[1] ELSE C[1]
             /\ pulses' = {}
             /\ UNCHANGED <<blkcnt, data_out>>
          \/ op \notin Ops /\ Failed(ILLEGAL_REQUEST)

CmdCont(d) ==
  /\ Continued
  /\ SD_LBA' = IF Op(d.COMMAND) = READ_10 THEN SD_LBA + 1 ELSE SD_LBA
  /\ pulses' = {}
  /\ UNCHANGED <<tst, STATUS, sense_key, datalen, datapos, blkcnt, data_out>>

(* Waiting for the sector, or done.                                        *)
Cmd(d) ==
  /\ tst = "CMD" /\ ~Started /\ ~Continued
  /\ LET done == "cmd_done" \in pulses
         sector == Op(d.COMMAND) \in Reads /\ sd_ack_d /\ ~d.SD_ACK
     IN /\ tst' = IF ~done THEN tst
                  ELSE IF datalen = 0 THEN "STAT"
                  ELSE IF data_out THEN "DATA_OUT" ELSE "DATA_IN"
        /\ pulses' = (IF sector THEN {"cmd_done"} ELSE {})
                     \cup (IF done /\ datalen # 0 /\ data_out THEN {"DOUT_REQ"} ELSE {})
  /\ UNCHANGED <<STATUS, sense_key, datalen, datapos, blkcnt, data_out, SD_LBA>>

DataOutWait(d) ==
  /\ tst = "DATA_OUT"
  /\ tst' = IF d.DOUT_SEND THEN "STAT" ELSE tst
  /\ pulses' = {}
  /\ UNCHANGED <<STATUS, sense_key, datalen, datapos, blkcnt, data_out, SD_LBA>>

(* A byte has been written; ATN ends the data at once.                     *)
DataInByte(d) ==
  /\ tst = "DATA_IN"
  /\ IF d.ATN
     THEN tst' = "MSG_OUT" /\ pulses' = {} /\ UNCHANGED <<datapos, blkcnt>>
     ELSE IF ~CD_WR
     THEN pulses' = {} /\ UNCHANGED <<tst, datapos, blkcnt>>
     ELSE IF dataend /\ ~blkend
     THEN /\ tst' = "CMD" /\ pulses' = {"cmd_cont"}
          /\ blkcnt' = blkcnt - 1 /\ datapos' = 0
     ELSE /\ tst' = IF dataend THEN "DATA_IN_END" ELSE tst
          /\ datapos' = datapos + 1
          /\ pulses' = {} /\ UNCHANGED blkcnt
  /\ sense_key' = IF Op(d.COMMAND) = REQUEST_SENSE /\ CD_WR /\ dataend
                  THEN NO_SENSE ELSE sense_key
  /\ UNCHANGED <<STATUS, datalen, data_out, SD_LBA>>

DataInEndWait_AtOnce(d) ==
  /\ tst = "DATA_IN_END"
  /\ tst' = IF d.ATN THEN "MSG_OUT" ELSE "STAT"
  /\ pulses' = {}
  /\ UNCHANGED <<STATUS, sense_key, datalen, datapos, blkcnt, data_out, SD_LBA>>

DataInEndWait_NoAtn(d) ==
  /\ tst = "DATA_IN_END"
  /\ tst' = IF ~d.CD_DATA_END THEN tst ELSE "STAT"
  /\ pulses' = {}
  /\ UNCHANGED <<STATUS, sense_key, datalen, datapos, blkcnt, data_out, SD_LBA>>

(* Waiting for the target to be done with the bytes.                       *)
DataInEndWait(d) ==
  /\ tst = "DATA_IN_END"
  /\ tst' = IF ~d.CD_DATA_END THEN tst ELSE IF d.ATN THEN "MSG_OUT" ELSE "STAT"
  /\ pulses' = {}
  /\ UNCHANGED <<STATUS, sense_key, datalen, datapos, blkcnt, data_out, SD_LBA>>

Stat ==
  /\ tst = "STAT"
  /\ tst' = "IDLE" /\ pulses' = {"STAT_GET"}
  /\ UNCHANGED <<STATUS, sense_key, datalen, datapos, blkcnt, data_out, SD_LBA>>

MsgOutWait_ForNew(d) ==
  /\ tst = "MSG_OUT"
  /\ tst' = IF d.COMM_SEND THEN "IDLE" ELSE tst
  /\ pulses' = {}
  /\ UNCHANGED <<STATUS, sense_key, datalen, datapos, blkcnt, data_out, SD_LBA>>

MsgOutWait(d) ==
  /\ tst = "MSG_OUT"
  /\ tst' = IF d.MSGOUT_SEND THEN "IDLE" ELSE tst
  /\ pulses' = {}
  /\ UNCHANGED <<STATUS, sense_key, datalen, datapos, blkcnt, data_out, SD_LBA>>

(* A sector is asked for at the start of a read, and for each one after.   *)
AsksSector(d) ==
  LET op == Op(d.COMMAND)
  IN \/ Started /\ op \in Reads /\ ~(op = READ_10 /\ d.COMMAND[2] = 0)
     \/ Continued /\ op = READ_10

SectorClock(d) ==
  /\ SD_RD' = (AsksSector(d) \/ (SD_RD /\ ~(~sd_ack_d /\ d.SD_ACK)))
  /\ sd_ack_d' = d.SD_ACK

CdWrClock_EveryOther(d) ==
  /\ CD_WR' = (tst = "DATA_IN" /\ ~CD_WR /\ d.CD_READY)
  /\ cd_wr_d' = CD_WR

(* CD_WR stays low for two clocks between two bytes.                       *)
CdWrClock(d) ==
  /\ CD_WR' = (tst = "DATA_IN" /\ ~CD_WR /\ ~cd_wr_d /\ d.CD_READY)
  /\ cd_wr_d' = CD_WR

(* The sector buffer answers in the clock after it is given an address.    *)
BufferClock(d, sector) ==
  sdbuf_q' = DiscByte(sector, datapos + sdbuf_off(Op(d.COMMAND), datapos))

DriveInit ==
  /\ tst = "IDLE" /\ pulses = {}
  /\ STATUS = GOOD /\ sense_key = NO_SENSE
  /\ CD_WR = FALSE /\ cd_wr_d = FALSE
  /\ SD_LBA = 0 /\ SD_RD = FALSE /\ sd_ack_d = FALSE
  /\ datalen = 0 /\ datapos = 0 /\ blkcnt = 0 /\ data_out = FALSE
  /\ sdbuf_q = ZeroByte

DriveClock(d, sector) ==
  /\ \/ Idle(d) \/ CmdStart(d) \/ CmdCont(d) \/ Cmd(d) \/ DataOutWait(d)
     \/ DataInByte(d) \/ DataInEndWait(d) \/ Stat \/ MsgOutWait(d)
  /\ SectorClock(d)
  /\ CdWrClock(d)
  /\ BufferClock(d, sector)
=============================================================================
