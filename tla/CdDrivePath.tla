---------------------------- MODULE CdDrivePath ----------------------------
(***************************************************************************)
(* What holds in every clock of CdDrive: the inductive invariant from      *)
(* which CdDriveProofs has its theorems.  It follows a byte from the drive *)
(* through the FIFO, over the bus and through the engine into KRAM, and    *)
(* says for each of the machines on its way in which states the others can *)
(* then be.                                                                *)
(***************************************************************************)
EXTENDS CdDrive

Bit(b) == IF b THEN 1 ELSE 0

-----------------------------------------------------------------------------
(* The FIFO by itself: pointers and flags; what is stored has no part here. *)

PointersOK ==
  /\ {wbin, rbin, wq1_rptr, wq2_rptr, rq1_wptr, rq2_wptr} \subseteq Pointer
  /\ {WFULL, REMPTY} \subseteq BOOLEAN

PInv == PointersOK /\ InOrder

-----------------------------------------------------------------------------
(* The signals that are high for a clock.  Of each kind there is one at    *)
(* most; the name of it, or NONE, tells which.                             *)

The(S) == IF S = {} THEN "NONE" ELSE CHOOSE x \in S : TRUE

strobe == The(strobes)     \* of the target
pulse == The(pulses)       \* of the drive
given == The(rf.pulses)    \* of the registers, in this clock enable
arms == The(armed)         \* and in the next

OneAtOnce ==
  /\ strobes \in {{}, {"COMM_OUT"}, {"DATA_OUT"}, {"MSGOUT_OUT"}, {"CD_DATA_END"},
                  {"FIFO_RD_REQ"}}
  /\ pulses \in {{}, {"cmd_start"}, {"cmd_cont"}, {"cmd_done"}, {"DOUT_REQ"},
                 {"STAT_GET"}}

RegPulses == {{}, {"reset_int"}, {"start_dma_rx"}, {"reset_dma_end_int"}}

RegisterFile ==
  [assert_rst : BOOLEAN, assert_ack : BOOLEAN, assert_sel : BOOLEAN,
   assert_atn : BOOLEAN, assert_lines : {Lines("DATAIN"), Lines("FREE")},
   dma_mode : BOOLEAN, dma_en : BOOLEAN, dma_ka : Int, dma_byte_cnt : Int,
   pulses : RegPulses]

RegTypes == rf \in RegisterFile /\ armed \in RegPulses

StatesOK ==
  /\ RegTypes /\ OneAtOnce
  /\ tst \in {"IDLE", "CMD", "DATA_OUT", "DATA_IN", "DATA_IN_END", "STAT", "MSG_OUT"}

-----------------------------------------------------------------------------
(* The bus.  REQ is high in the states in which the target waits for ACK,  *)
(* and each state of it belongs to one phase.                              *)

Starts == {"COMM_START", "DATAIN_START", "DATAOUT_START", "STAT_START", "MSGIN_START",
           "MSGOUT_START"}
Ends == {"COMM_END", "DATAIN_END", "DATAOUT_END", "STAT_END", "MSGIN_END", "MSGOUT_END"}

CommSP == {"COMM_BEFOREREQ", "COMM_START", "COMM_END"}
DataSP == {"FREE", "DATAIN_START", "DATAIN_END"}
ReportSP == {"STAT_START", "STAT_END", "STAT_HOLD", "MSGIN_START", "MSGIN_END",
             "MSGIN_HOLD"}

BusOK ==
  /\ SP \in {"FREE", "COMM_BEFOREREQ", "STAT_HOLD", "MSGIN_HOLD"} \cup Starts \cup Ends
  /\ REQ <=> SP \in Starts
  /\ SP = "FREE" => phase \in {"FREE", "DATAOUT", "DATAIN"}
  /\ SP \in {"COMM_BEFOREREQ", "COMM_START", "COMM_END"} => phase = "COMMAND"
  /\ SP \in {"DATAIN_START", "DATAIN_END"} => phase = "DATAIN"
  /\ SP \in {"DATAOUT_START", "DATAOUT_END"} => phase = "DATAOUT"
  /\ SP \in {"STAT_START", "STAT_END", "STAT_HOLD"} => phase = "STATUS"
  /\ SP \in {"MSGIN_START", "MSGIN_END", "MSGIN_HOLD"} => phase = "MSGIN"
  /\ SP \in {"MSGOUT_START", "MSGOUT_END"} => phase = "MSGOUT"
  /\ strobe \in {"COMM_OUT", "DATA_OUT"} => SP = "FREE" /\ phase = "DATAOUT"
  /\ strobe = "CD_DATA_END" => SP = "FREE" /\ phase = "DATAIN"
  /\ strobe = "MSGOUT_OUT" => SP = "FREE" /\ phase = "FREE"
  /\ strobe = "FIFO_RD_REQ" => SP = "DATAIN_START" /\ ~REMPTY /\ reqn_d

(* The program and its registers: what it has set goes with what it does,  *)
(* and where the bus can be while it does that.                            *)
ProgOK ==
  /\ pc \in {"IDLE", "SELECT", "BUSY", "FREEING", "RESET"}
  /\ rf.assert_rst <=> pc = "RESET"
  /\ rf.assert_sel <=> pc = "SELECT"
  /\ rf.assert_atn => aborted
  /\ aborted => pc \in {"BUSY", "FREEING"}
  /\ rf.assert_ack => pc = "BUSY" /\ ~rf.dma_mode
  /\ rf.dma_mode => pc = "BUSY" /\ cmd.how = "DMA" /\ rf.assert_lines = Lines("DATAIN")
  /\ rf.dma_en => rf.dma_mode
  /\ rf.dma_mode => rf.dma_en \/ dma_end
  /\ arms = "NONE" \/ given = "NONE"
  /\ pc \in {"IDLE", "RESET"} => SP = "FREE" /\ phase = "FREE"
  /\ pc = "SELECT" =>
       (SP = "FREE" /\ phase = "FREE") \/ SP = "COMM_BEFOREREQ" \/ SP = "COMM_START"
  /\ pc = "BUSY" => ~(SP = "FREE" /\ phase = "FREE") /\ SP # "MSGIN_HOLD"
  /\ pc = "BUSY" /\ SP \in {"MSGIN_END", "MSGOUT_END"} => rf.assert_ack
  /\ pc = "FREEING" =>
       \/ SP \in {"MSGIN_END", "MSGIN_HOLD", "MSGOUT_END"}
       \/ SP = "FREE" /\ phase = "FREE"
  /\ aborted /\ pc = "BUSY" => phase \in {"DATAIN", "MSGOUT"}
  /\ rf.assert_atn => pc = "BUSY" /\ SP # "MSGOUT_END"
  /\ SP \in {"FREE", "DATAIN_START", "DATAIN_END"} /\ aborted /\ pc = "BUSY"
       => rf.assert_atn
  /\ phase = "MSGOUT" => aborted
  /\ SP = "MSGOUT_START" => (rf.assert_atn <=> ~rf.assert_ack)
  /\ rf.dma_mode /\ ~dma_end /\ block_int => phase # "DATAIN" /\ REQ /\ ~reqn_d

-----------------------------------------------------------------------------
(* The hand shake: how far the initiator is with the byte on the bus.      *)

HandOK ==
  /\ rf.assert_ack => SP \in Starts \cup Ends
  /\ assert_ack_dma => rf.dma_mode /\ SP \in {"DATAIN_START", "DATAIN_END"}
  /\ ACK /\ REQ => ~ce /\ ~reqn_d /\ ~req_posedge_d
  /\ ~REQ /\ ~reqn_d => ACK
  /\ assert_ack_dma /\ ~assert_ack_cnt => reqn_d
  /\ req_posedge_d => REQ /\ ~reqn_d /\ ~dma_rxbuf_rd /\ ~m_req /\ ~assert_ack_cnt
  /\ dma_rxbuf_rd \/ m_req =>
       /\ rf.dma_mode /\ SP = "DATAIN_START" /\ ~reqn_d
       /\ ~assert_ack_dma /\ ~assert_ack_cnt
  /\ ~(dma_rxbuf_rd /\ m_req)
  /\ assert_ack_dma /\ REQ => assert_ack_cnt
  /\ assert_ack_cnt /\ ~assert_ack_dma /\ REQ => reqn_d
  /\ assert_ack_cnt => rf.dma_mode
  /\ dma_next_word => dma_rxbuf_rd
  /\ "start_dma_rx" \in {arms, given} =>
       /\ rf.dma_mode /\ rf.dma_en /\ ~dma_end /\ SP = "DATAIN_START" /\ ~reqn_d
       /\ ~req_posedge_d /\ ~dma_rxbuf_rd /\ ~m_req /\ ~assert_ack_cnt /\ ~ACK

(* The engine: no half a word is left when the DMA ends, and it ends with  *)
(* its count.                                                              *)
EngineOK ==
  /\ m_req => ~dma_a0 /\ ~dma_end
  /\ dma_end => ~dma_a0
  /\ dma_end => rf.dma_mode \/ "reset_dma_end_int" \in {arms, given}
  /\ "reset_dma_end_int" \in {arms, given} => ~rf.dma_mode /\ pc = "BUSY"
  /\ dma_a0 /\ ~rf.dma_mode => arms = "reset_int" /\ REQ /\ phase # "DATAIN" /\ ~ACK
  /\ rf.dma_mode /\ ~dma_end =>
       rf.dma_byte_cnt >= 1 + (IF dma_next_word THEN 1 ELSE 0)
  /\ dma_end => rf.dma_byte_cnt = IF dma_next_word THEN 1 ELSE 0
  /\ rf.dma_byte_cnt <= MaxWords
  /\ rf.dma_byte_cnt >= IF dma_next_word THEN 1 ELSE 0

-----------------------------------------------------------------------------
(* Turns: which machine has something to do.                               *)

(* The read pointer as it is when the read that is under way is done.      *)
front == IF strobe = "FIFO_RD_REQ" THEN After(rbin) ELSE rbin

Drained == front = wbin /\ ~FIFO_WR_REQ /\ ~CD_WR
HostQuiet == ~SD_RD /\ ~SD_ACK /\ ~sd_ack_d
NothingDue == ~STAT_PEND /\ ~DOUT_PEND /\ pulse = "NONE" /\ HostQuiet
Quiet == tst = "IDLE" /\ NothingDue /\ Drained

TurnOK ==
  /\ SP \in {"COMM_BEFOREREQ", "COMM_START", "COMM_END", "STAT_START", "STAT_END",
             "STAT_HOLD", "MSGIN_START", "MSGIN_END", "MSGIN_HOLD"} => Quiet
  /\ SP = "FREE" /\ phase = "FREE" =>
       /\ NothingDue /\ Drained
       /\ tst = "IDLE" \/ (tst = "MSG_OUT" /\ strobe = "MSGOUT_OUT")
  /\ strobe = "COMM_OUT" => Quiet /\ pc = "BUSY" /\ ~aborted
  /\ STAT_PEND =>
       /\ tst = "IDLE" /\ pulse = "NONE" /\ ~DOUT_PEND /\ HostQuiet /\ Drained
       /\ SP = "FREE" /\ phase # "FREE" /\ ~aborted /\ strobe = "NONE"
  /\ tst = "IDLE" => pulse \in {"NONE", "STAT_GET"}
  /\ pulse = "STAT_GET" =>
       /\ tst = "IDLE" /\ ~STAT_PEND /\ ~DOUT_PEND /\ HostQuiet /\ Drained
       /\ SP = "FREE" /\ phase # "FREE" /\ ~aborted /\ strobe = "NONE"
  /\ tst = "STAT" =>
       /\ NothingDue /\ Drained
       /\ SP = "FREE" /\ phase # "FREE" /\ ~aborted /\ strobe = "NONE"
  /\ tst = "CMD" =>
       /\ pulse \in {"NONE", "cmd_start", "cmd_cont", "cmd_done"}
       /\ ~STAT_PEND /\ ~DOUT_PEND /\ SP \in DataSP /\ phase # "FREE" /\ ~aborted
       /\ strobe # "COMM_OUT" /\ strobe # "DATA_OUT" /\ datapos = 0 /\ ~CD_WR
  /\ tst = "DATA_IN" =>
       /\ NothingDue /\ SP \in DataSP /\ phase # "FREE" /\ datapos < datalen
       /\ strobe # "COMM_OUT" /\ strobe # "DATA_OUT"
  /\ tst = "DATA_IN_END" =>
       /\ NothingDue /\ SP \in DataSP /\ phase # "FREE" /\ datapos = datalen
       /\ ~CD_WR /\ blkcnt = 0
       /\ strobe # "COMM_OUT" /\ strobe # "DATA_OUT"
       /\ (strobe = "CD_DATA_END" => Drained)
  /\ tst = "DATA_OUT" =>
       /\ ~STAT_PEND /\ HostQuiet /\ Drained /\ pulse \in {"NONE", "DOUT_REQ"}
       /\ SP \in {"FREE", "DATAOUT_START", "DATAOUT_END"} /\ phase # "FREE" /\ ~aborted
       /\ strobe # "COMM_OUT"
  /\ DOUT_PEND => tst = "DATA_OUT" /\ SP = "FREE" /\ pulse = "NONE"
  /\ pulse = "DOUT_REQ" => tst = "DATA_OUT" /\ SP = "FREE" /\ ~DOUT_PEND
  /\ SP \in {"DATAOUT_START", "DATAOUT_END"} \/ strobe = "DATA_OUT" =>
       tst = "DATA_OUT" /\ ~DOUT_PEND /\ pulse = "NONE"
  /\ tst = "MSG_OUT" =>
       /\ NothingDue /\ aborted /\ datapos <= datalen
       /\ SP \in DataSP \cup {"MSGOUT_START", "MSGOUT_END"}
       /\ (phase = "FREE" => strobe = "MSGOUT_OUT")
       /\ (SP = "FREE" => Drained)
  /\ SP \in {"MSGOUT_START", "MSGOUT_END"} => tst = "MSG_OUT" /\ Drained
  /\ SP \in {"DATAIN_START", "DATAIN_END"} =>
       tst \in {"CMD", "DATA_IN", "DATA_IN_END", "MSG_OUT"}
  /\ aborted /\ pc = "BUSY" =>
       /\ tst \in {"DATA_IN", "DATA_IN_END", "MSG_OUT"} /\ cmd.op \in Reads
       /\ (tst = "DATA_IN" =>
             blkcnt = 0 /\ SP = "DATAIN_START" /\ ~reqn_d /\ ~ce /\ ~REMPTY)
       /\ (SP = "FREE" =>
             tst = "MSG_OUT" \/ (tst = "DATA_IN_END" /\ strobe = "CD_DATA_END"))
  /\ datapos <= datalen \/ pulse = "cmd_start"
  /\ tst = "IDLE" /\ SP = "FREE" =>
       phase = "FREE" \/ strobe = "COMM_OUT" \/ pulse = "STAT_GET" \/ STAT_PEND
  /\ tst = "CMD" /\ cmd.op # READ_10 => SP = "FREE" /\ strobe = "NONE" /\ Drained
  /\ pc \in {"IDLE", "RESET", "SELECT"} => tst = "IDLE"

(* The host: a sector that is asked for is on its way or in the buffer.    *)
HostOK ==
  /\ tst = "CMD" /\ pulse \in {"cmd_start", "cmd_cont"} => HostQuiet
  /\ tst = "CMD" /\ pulse = "cmd_done" =>
       HostQuiet /\ (cmd.op \in Reads => sdbuf = SD_LBA)
  /\ tst = "CMD" /\ pulse = "NONE" =>
       /\ cmd.op \in Reads
       /\ \/ SD_RD /\ ~sd_ack_d
          \/ ~SD_RD /\ sd_ack_d /\ (SD_ACK \/ sdbuf = SD_LBA)

-----------------------------------------------------------------------------
(* Time.  Between two sectors the FIFO must not run dry while the drive    *)
(* still has bytes to write, or the target takes the data for ended.       *)

(* A byte that is written takes three clocks, and one is written at a time. *)
PaceOK ==
  /\ FIFO_WR_REQ <=> cd_wr_d
  /\ CD_WR_OLD <=> cd_wr_d
  /\ CD_WR => ~cd_wr_d /\ ~WFULL
  /\ FIFO_WR_REQ => ~WFULL
  /\ CD_WR => rq1_wptr = wbin
  /\ FIFO_WR_REQ => rq1_wptr = wbin /\ rq2_wptr = wbin
  /\ rq1_wptr # wbin => rq2_wptr = rq1_wptr /\ wbin = After(rq1_wptr)
  /\ CD_WR => \/ tst = "DATA_IN"
              \/ /\ tst = "MSG_OUT" /\ ~REMPTY
                 /\ (SP = "DATAIN_START" /\ ~reqn_d) \/ (SP = "DATAIN_END" /\ ACK)

(* A read is followed by clocks without one, in which the writer's old     *)
(* copies of the read pointer catch up.                                    *)
NoRecentRead == ~(SP = "DATAIN_START" /\ (reqn_d \/ req_posedge_d))

SpreadOK ==
  /\ strobe = "FIFO_RD_REQ" => wq2_rptr = rbin /\ wq1_rptr = rbin /\ ~REMPTY
  /\ SP = "DATAIN_START" /\ reqn_d /\ strobe # "FIFO_RD_REQ" =>
       ce /\ wq1_rptr = wq2_rptr /\ rbin \in {wq2_rptr, After(wq2_rptr)}
  /\ SP = "DATAIN_START" /\ req_posedge_d /\ ~ce =>
       /\ wq1_rptr = wq2_rptr \/ wq1_rptr = rbin
       /\ rbin \in {wq2_rptr, After(wq2_rptr)}
  /\ SP = "DATAIN_START" /\ req_posedge_d /\ ce =>
       wq1_rptr = rbin /\ rbin \in {wq2_rptr, After(wq2_rptr)}
  /\ ~(SP = "DATAIN_START" /\ (reqn_d \/ req_posedge_d)) =>
       wq1_rptr = rbin /\ wq2_rptr = rbin

(* While the drive has a sector to write it keeps the FIFO all but full.   *)
FillOK ==
  /\ WFULL => Distance(front, wbin) >= DEPTH - 1
  /\ tst = "DATA_IN" /\ datapos >= 1 /\ ~CD_WR /\ ~cd_wr_d /\ rq1_wptr = wbin =>
       Distance(front, wbin) >= IF strobe = "FIFO_RD_REQ" THEN DEPTH - 2 ELSE DEPTH - 1
  /\ tst = "DATA_IN" /\ datapos >= 1 /\ CD_WR /\ rq2_wptr = wbin =>
       Distance(front, wbin) >= DEPTH - 2
  /\ tst = "DATA_IN" /\ datapos >= 1 /\ ~(datapos = 1 /\ cd_wr_d) => front # wbin

(* So the reader finds a byte, unless all are out or the first of a sector *)
(* are still on their way.                                                 *)
Finished == tst # "DATA_IN" /\ Drained
Fresh == /\ tst = "DATA_IN" /\ cmd.op = READ_10
         /\ datapos <= 1 \/ (datapos = 2 /\ cd_wr_d)

SupplyOK ==
  /\ SP = "DATAIN_START" /\ reqn_d =>
       (tst # "DATA_IN" /\ front = wbin => ~FIFO_WR_REQ /\ ~CD_WR)
  /\ SP = "DATAIN_START" /\ req_posedge_d /\ ~ce =>
       Finished \/ Fresh \/ front # rq1_wptr
  /\ SP = "DATAIN_START" /\ req_posedge_d /\ ce =>
       Finished \/ Fresh \/ front # rq2_wptr
  /\ SP = "DATAIN_END" \/ (SP = "DATAIN_START" /\ NoRecentRead) =>
       Finished \/ Fresh \/ ~REMPTY

-----------------------------------------------------------------------------
(* The command: what the target has collected of it.                       *)

CmdBytes == CommandBytes(cmd)
CmdSize == Len(CmdBytes)

CommandOK ==
  /\ COMM \in [0 .. 3 -> Int] /\ COMM_POS \in Nat /\ DATA_POS \in Nat /\ sent \in Nat
  /\ plan \in Seq(Askable)
  /\ pc \in {"SELECT", "BUSY", "FREEING"} => cmd \in Askable
  /\ pc = "SELECT" => sent = 0
  /\ SP \in CommSP =>
       /\ sent = COMM_POS + Bit(SP = "COMM_START" /\ rf.assert_ack)
       /\ COMM_POS < CmdSize \/ (SP = "COMM_END" /\ COMM_POS = CmdSize)
       /\ (SP = "COMM_END" => COMM_POS >= 1)
       /\ \A i \in 0 .. 3 : i < COMM_POS => COMM[i] = CmdBytes[i + 1]
  /\ SP \notin CommSP => COMM_POS = 0
  /\ SP = "COMM_START" /\ rf.assert_ack => dout = CmdBytes[sent]
  /\ pc \in {"BUSY", "FREEING"} /\ SP \notin CommSP =>
       \A i \in 1 .. CmdSize : COMM[i - 1] = CmdBytes[i]
  /\ SP \notin {"DATAOUT_START", "DATAOUT_END"} => DATA_POS = 0
  /\ SP = "DATAOUT_START" => DATA_POS \in 0 .. DATA_LEN - 1
  /\ SP = "DATAOUT_END" => DATA_POS \in 1 .. DATA_LEN
  /\ pc \in {"IDLE", "RESET"} => cmd = NoCommand

(* What the drive has made of it, while it carries it out.                 *)
Total == ExpectedLength(cmd)
Under == \/ tst = "CMD" /\ pulse # "cmd_start"
         \/ tst \in {"DATA_IN", "DATA_IN_END"}
Blocks == cmd.len - 1 - blkcnt

DriveOK ==
  /\ datalen \in Nat /\ datapos \in Nat /\ blkcnt \in Nat /\ SD_LBA \in Int
  /\ tst = "CMD" /\ pulse = "cmd_start" => blkcnt = 0 /\ ~data_out
  /\ Under /\ cmd.op = READ_10 =>
       /\ datalen = BLOCK /\ blkcnt <= cmd.len - 1
       /\ SD_LBA = cmd.lba + Blocks - Bit(pulse = "cmd_cont")
  /\ Under /\ cmd.op # READ_10 => blkcnt = 0 /\ pulse # "cmd_cont"
  /\ Under /\ cmd.op \in {READ_TOC, READ_HEADER, REQUEST_SENSE} => datalen = cmd.len
  /\ Under /\ cmd.op = READ_TOC => SD_LBA = TOC_LBA + cmd.lba
  /\ Under /\ cmd.op = READ_HEADER => SD_LBA = cmd.lba
  /\ Under => (data_out <=> cmd.op = MODE_SELECT)
  /\ Under /\ cmd.op = MODE_SELECT => datalen = cmd.len
  /\ Under /\ cmd.op \notin Reads \cup {REQUEST_SENSE, MODE_SELECT} => datalen = 0
  /\ tst = "DATA_IN" => cmd.op \in Reads \cup {REQUEST_SENSE}
  /\ tst = "DATA_IN" /\ cmd.op \in Reads => sdbuf = SD_LBA
  /\ tst = "DATA_IN" /\ cmd.op \in Reads /\ CD_WR =>
       sdbuf_q = DiscByte(SD_LBA, datapos + sdbuf_off(cmd.op, datapos))
  /\ tst = "DATA_IN_END" => cmd.op \in Reads \cup {REQUEST_SENSE}
  /\ tst = "DATA_OUT" => cmd.op = MODE_SELECT

(* Its status, on the way to the program.                                  *)
Begun == Under \/ tst \in {"DATA_OUT", "STAT"} \/ pulse = "STAT_GET" \/ STAT_PEND

StatusOK ==
  /\ Begun => STATUS = IF Fails(cmd) THEN CHECK_CONDITION ELSE GOOD
  /\ SP = "STAT_START" =>
       DBO = StatusByte(IF Fails(cmd) THEN CHECK_CONDITION ELSE GOOD)
  /\ result # NoResult =>
       result = StatusByte(IF Fails(cmd) THEN CHECK_CONDITION ELSE GOOD)
  /\ result # NoResult => (pc = "BUSY" /\ SP \in ReportSP) \/ pc = "FREEING"

(* Its sense key: what the last command left, until this one sets it.      *)
KeyAfter == IF cmd.op \notin Ops THEN ILLEGAL_REQUEST
            ELSE IF Fails(cmd) THEN NOT_READY
            ELSE IF cmd.op = REQUEST_SENSE /\ cmd.len > 0 THEN NO_SENSE
            ELSE expected_key

SenseOK ==
  /\ expected_key \in Keys
  /\ ( \/ pc \in {"IDLE", "RESET", "SELECT"} \/ aborted \/ SP \in CommSP
       \/ strobe = "COMM_OUT" \/ (tst = "CMD" /\ pulse = "cmd_start") )
     => sense_key = expected_key
  /\ (tst = "CMD" /\ pulse # "cmd_start") \/ tst = "DATA_IN" =>
       sense_key = IF cmd.op = REQUEST_SENSE /\ cmd.len > 0
                   THEN expected_key ELSE KeyAfter
  /\ tst \in {"DATA_IN_END", "DATA_OUT", "STAT"} \/ pulse = "STAT_GET" \/ STAT_PEND =>
       sense_key = IF aborted THEN expected_key ELSE KeyAfter
  /\ SP \in ReportSP \/ (pc = "FREEING" /\ ~aborted) => sense_key = KeyAfter

-----------------------------------------------------------------------------
(* Counting.  A byte the drive has written is in the FIFO, on the bus and  *)
(* not taken yet, in the engine, or with the program or KRAM.              *)

Taken == rf.assert_ack \/ dma_rxbuf_rd \/ m_req \/ assert_ack_dma
Hand == Bit(SP = "DATAIN_START" /\ ~Taken)
brought == rf.dma_ka + Bit(dma_next_word)
Got == Len(pio) + 2 * brought + 2 * Bit(m_req) + Bit(dma_a0)
Passed == Got + Hand + Distance(front, wbin) + Bit(FIFO_WR_REQ)
Wrote == IF cmd.op = READ_10 THEN Blocks * BLOCK + datapos ELSE datapos

CountOK ==
  /\ rf.dma_ka \in 0 .. MaxWords /\ brought <= MaxWords
  /\ pc = "BUSY" /\ ( \/ SP \in CommSP \/ strobe = "COMM_OUT"
                      \/ tst = "CMD" /\ pulse = "cmd_start" ) => Passed = 0
  /\ pc = "BUSY" /\ Under => Passed = Wrote
  /\ pc = "BUSY" /\ tst = "DATA_IN" => Wrote + 1 <= Total
  /\ pc = "BUSY" /\ tst = "CMD" /\ pulse # "cmd_start" /\ cmd.op # MODE_SELECT =>
       Wrote + datalen <= Total
  /\ pc = "BUSY" /\ tst = "DATA_IN_END" => Wrote = Total
  /\ pc = "BUSY" /\ tst = "MSG_OUT" => Passed + Bit(CD_WR) <= Total
  /\ pc = "BUSY" /\ ( \/ tst \in {"DATA_OUT", "STAT"} \/ pulse = "STAT_GET"
                      \/ STAT_PEND \/ SP \in ReportSP ) => Passed = Total
  /\ dma_a0 /\ ~rf.dma_mode => pc = "BUSY" /\ aborted
  /\ Len(pio) > 0 => cmd.how = "PIO"
  /\ cmd.how = "PIO" => brought = 0 /\ ~dma_a0 /\ ~m_req
  /\ pc \in {"IDLE", "RESET", "SELECT"} => pio = <<>> /\ kram = EmptyKram
  /\ pc = "SELECT" => rf.dma_ka = 0
  /\ pc \in {"BUSY", "FREEING"} =>
       \A a \in 0 .. MaxWords - 1 : (kram[a] # NoWord <=> a < brought)
  /\ kram \in [0 .. MaxWords - 1 -> {NoWord} \cup Byte \X Byte]
  /\ pc = "FREEING" => 2 * brought + Len(pio) <= Total

-----------------------------------------------------------------------------
(* The bytes themselves: wherever one is, it is the one due at its place.  *)

ByteOK ==
  /\ FIFO_D \in Byte
  /\ mem \in [0 .. DEPTH - 1 -> Byte]
  /\ pio \in Seq(Byte)
  /\ SP = "DATAIN_START" => DBO \in Byte
  /\ SP = "DATAIN_START" /\ ~reqn_d => rxbuf \in Byte
  /\ dma_a0 => dma_rxbuf \in Byte
  /\ m_req => m_do \in Byte \X Byte

Due(k) == ExpectedByte(cmd, k)

ValueOK ==
  /\ FIFO_WR_REQ /\ tst # "MSG_OUT" => FIFO_D = Due(Passed - 1)
  /\ ~aborted /\ pc = "BUSY" =>
       \A n \in 0 .. DEPTH - 1 :
         n < Distance(front, wbin) => mem[Cell(Ahead(front, n))] = Due(Got + Hand + n)
  /\ ~aborted /\ pc = "BUSY" /\ SP = "DATAIN_START" /\ ~Taken => DBO = Due(Got)
  /\ SP = "DATAIN_START" /\ ~Taken /\ ~reqn_d => rxbuf = DBO
  /\ ~aborted /\ pc = "BUSY" /\ dma_a0 => dma_rxbuf = Due(2 * brought)
  /\ ~aborted /\ pc = "BUSY" /\ m_req =>
       m_do = <<Due(2 * brought), Due(2 * brought + 1)>>
  /\ ~aborted /\ pc \in {"BUSY", "FREEING"} =>
       \A a \in 0 .. MaxWords - 1 :
         a < brought => kram[a] = <<Due(2 * a), Due(2 * a + 1)>>
  /\ ~aborted /\ pc \in {"BUSY", "FREEING"} =>
       \A k \in 1 .. Len(pio) : pio[k] = Due(k - 1)

-----------------------------------------------------------------------------
(* What holds in every clock.                                              *)
PathInv ==
  /\ PInv /\ StatesOK /\ BusOK /\ ProgOK /\ HandOK /\ EngineOK
  /\ TurnOK /\ HostOK /\ PaceOK /\ SpreadOK /\ FillOK /\ SupplyOK
  /\ CommandOK /\ DriveOK /\ StatusOK /\ SenseOK /\ CountOK /\ ByteOK /\ ValueOK
=============================================================================
