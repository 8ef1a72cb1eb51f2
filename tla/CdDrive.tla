------------------------------ MODULE CdDrive ------------------------------
(***************************************************************************)
(* The path of a sector from the CD drive to KRAM (mach.sv): the drive     *)
(* (FakeCd) gets sectors from the host and writes bytes to the FIFO of the *)
(* SCSI target (ScsiTarget, Fifo1), which hands them over the bus to the   *)
(* initiator in KING (KingScsi), which makes words of them for KRAM.       *)
(*                                                                         *)
(* All of them have the same clock; a step is one edge of it.  What the    *)
(* program in the console does, how long the host needs for a sector, and  *)
(* how long KRAM for a word, is left open.                                 *)
(***************************************************************************)
EXTENDS ScsiTarget, FakeCd, KingScsi, FiniteSets

CONSTANTS
  Plans,       \* sequences of commands that the program may give one after
               \* the other: records op, lba, len, how
  MaxWords,    \* words a command may bring
  Chunks,      \* words the program lets a DMA bring
  AbortsAt     \* when it may raise ATN: "NEVER", "DRAINING", "ANY"

ASSUME CdDriveAssumption ==
  /\ MaxWords \in Nat /\ Chunks \subseteq Nat \ {0}
  /\ AbortsAt \in {"NEVER", "DRAINING", "ANY"}

VARIABLES
  ce,            \* clock enable of KING
  SD_ACK, sdbuf, \* the host: sector under way, sector in the buffer
  medium_empty,
  kram,          \* the words written, by address
  \* the program:
  plan, pc, cmd, sent, dout,
  pio,           \* the data bytes it took by itself
  result,        \* the status it got
  expected_key,  \* what a REQUEST SENSE should tell it
  aborted        \* it has raised ATN in this command

hostvars == <<SD_ACK, sdbuf, medium_empty>>
softvars == <<plan, pc, cmd, sent, dout, pio, result, expected_key, aborted>>
vars == <<fifovars, targetvars, drivevars, kingvars, ce, hostvars, kram, softvars>>

Partial == -1          \* sdbuf while the host fills it
NoWord == <<>>
NoCommand == [op |-> -1, lba |-> 0, len |-> 0, how |-> "NONE"]
NoResult == <<"NONE", 0, 0>>

EmptyKram == [a \in 0 .. MaxWords - 1 |-> NoWord]

-----------------------------------------------------------------------------
(* What is asked, and what should come of it.                              *)

CommandBytes(c) ==
  CASE Length(c.op) = COMM_LEN_6  -> <<c.op, c.len>>
    [] Length(c.op) = COMM_LEN_10 -> <<c.op, c.lba, c.len>>
    [] Length(c.op) = COMM_LEN_12 -> <<c.op, 0, 0, 0>>

Fails(c) == c.op \notin Ops \/ (c.op = TEST_UNIT_READY /\ medium_empty)

ExpectedLength(c) ==
  CASE c.op = READ_10                                       -> c.len * BLOCK
    [] c.op \in {READ_TOC, READ_HEADER, REQUEST_SENSE}  -> c.len
    [] OTHER                                                  -> 0

AnswerByte(c, key, k) ==
  CASE c.op = READ_10  -> DiscByte(c.lba + (k \div BLOCK), 16 + (k % BLOCK))
    [] c.op = READ_TOC -> DiscByte(TOC_LBA + c.lba, k)
    [] c.op = READ_HEADER ->
         IF k = 0 THEN DiscByte(c.lba, 15)
         ELSE IF k < 5 THEN ZeroByte ELSE DiscByte(c.lba, k + 7)
    [] c.op = REQUEST_SENSE -> SenseByte(key, k)

ExpectedByte(c, k) == AnswerByte(c, expected_key, k)

(* What a program may ask: for one block at least, for a length that the   *)
(* command can name, and by DMA for whole words that fit into KRAM.        *)
Keys == {NO_SENSE, NOT_READY, ILLEGAL_REQUEST}
Commands == [op : Nat, lba : Int, len : Nat, how : {"PIO", "DMA"}]

Fits(c) ==
  /\ c.op = READ_10 => c.len > 0
  /\ c.op \in {READ_TOC, READ_HEADER} => c.len < 4096
  /\ c.how = "DMA" => \E n \in 0 .. MaxWords : ExpectedLength(c) = 2 * n
  /\ \A key \in Keys, k \in 0 .. ExpectedLength(c) - 1 : AnswerByte(c, key, k) \in Byte

Askable == {c \in Commands : Fits(c)}

(* The sizes of the code are 10 bytes of data out, blocks of 2048, and 64  *)
(* cells in the FIFO; CommandBytes has the three lengths of a command.     *)
ASSUME PlansAssumption ==
  /\ COMM_LEN_6 = 2 /\ COMM_LEN_10 = 3 /\ COMM_LEN_12 = 4
  /\ DATA_LEN > 0 /\ BLOCK >= 3 /\ DEPTH >= 4
  /\ ZeroByte \in Byte
  /\ \A n \in Chunks : n <= MaxWords
  /\ Plans \subseteq Seq(Askable)

Words == {a \in DOMAIN kram : kram[a] # NoWord}
Received == 2 * Cardinality(Words) + Len(pio)

-----------------------------------------------------------------------------
(* The program.  An access to the registers takes a step in which CE is    *)
(* high.  The program is slower than the pulses that its accesses cause,   *)
(* than an ACK pulse of the engine, and than the engine's two clock        *)
(* enables of delay in seeing REQ.                                         *)

Settled == armed = {} /\ rf.pulses = {}
Slow ==
  /\ Settled
  /\ ~dma_rxbuf_rd /\ ~assert_ack_dma /\ ~assert_ack_cnt
  /\ REQ => ~reqn_d /\ ~req_posedge_d

InPhase(phases) == pc = "BUSY" /\ phase \in phases
Asked(phases) == InPhase(phases) /\ REQ /\ ~rf.assert_ack /\ ~rf.dma_mode

Select ==
  /\ pc = "IDLE" /\ plan # <<>>
  /\ RegisterClock(TRUE, [rf EXCEPT !.assert_sel = TRUE, !.dma_ka = 0], {})
  /\ pc' = "SELECT" /\ sent' = 0
  /\ cmd' = Head(plan) /\ plan' = Tail(plan)
  /\ UNCHANGED <<dout, pio, result, expected_key, aborted>>

Selected ==
  /\ pc = "SELECT" /\ phase = "COMMAND"
  /\ RegisterClock(TRUE, [rf EXCEPT !.assert_sel = FALSE], {})
  /\ pc' = "BUSY"
  /\ UNCHANGED <<plan, cmd, sent, dout, pio, result, expected_key, aborted>>

(* A byte to the target.  ATN is dropped with the byte of the message.     *)
Put ==
  /\ Asked({"COMMAND", "DATAOUT", "MSGOUT"})
  /\ RegisterClock(TRUE, [rf EXCEPT !.assert_ack = TRUE,
                                    !.assert_atn = @ /\ phase # "MSGOUT"], {})
  /\ IF phase = "COMMAND"
     THEN sent' = sent + 1 /\ dout' = CommandBytes(cmd)[sent + 1]
     ELSE dout' = 0 /\ UNCHANGED sent
  /\ UNCHANGED <<plan, pc, cmd, pio, result, expected_key, aborted>>

(* A byte from the target.                                                 *)
Get ==
  /\ Asked({"STATUS", "MSGIN"} \cup IF cmd.how = "PIO" THEN {"DATAIN"} ELSE {})
  /\ RegisterClock(TRUE, [rf EXCEPT !.assert_ack = TRUE], {})
  /\ pio' = IF phase = "DATAIN" THEN Append(pio, DBO) ELSE pio
  /\ result' = IF phase = "STATUS" THEN DBO ELSE result
  /\ UNCHANGED <<plan, pc, cmd, sent, dout, expected_key, aborted>>

Release ==
  /\ pc = "BUSY" /\ rf.assert_ack /\ ~REQ
  /\ RegisterClock(TRUE, [rf EXCEPT !.assert_ack = FALSE], {})
  /\ pc' = IF phase \in {"MSGIN", "MSGOUT"} THEN "FREEING" ELSE pc
  /\ UNCHANGED <<plan, cmd, sent, dout, pio, result, expected_key, aborted>>

(* The phase changed from one the registers named to another.              *)
ClearInt ==
  /\ Asked({"DATAIN"}) /\ cmd.how = "DMA" /\ block_int
  /\ RegisterClock(TRUE, rf, {"reset_int"})
  /\ UNCHANGED softvars

StartDma(n) ==
  /\ Asked({"DATAIN"}) /\ cmd.how = "DMA" /\ ~block_int
  /\ RegisterClock(TRUE, [rf EXCEPT !.dma_mode = TRUE, !.dma_en = TRUE,
                                    !.assert_lines = Lines("DATAIN"),
                                    !.dma_byte_cnt = n], {"start_dma_rx"})
  /\ UNCHANGED softvars

DmaDone ==
  /\ pc = "BUSY" /\ rf.dma_mode /\ dma_end
  /\ RegisterClock(TRUE, [rf EXCEPT !.dma_mode = FALSE, !.dma_en = FALSE],
                   {"reset_dma_end_int"})
  /\ UNCHANGED softvars

(* The target went on to another phase before the DMA had its words.       *)
DmaStopped ==
  /\ pc = "BUSY" /\ rf.dma_mode /\ ~dma_end /\ block_int
  /\ RegisterClock(TRUE, [rf EXCEPT !.dma_mode = FALSE, !.dma_en = FALSE], {"reset_int"})
  /\ UNCHANGED softvars

Freed ==
  /\ pc = "FREEING" /\ phase = "FREE"
  /\ RegisterClock(TRUE, rf, {})
  /\ pc' = "IDLE" /\ cmd' = NoCommand /\ pio' = <<>> /\ result' = NoResult
  /\ aborted' = FALSE
  /\ expected_key' = IF aborted THEN expected_key
                     ELSE IF cmd.op \notin Ops THEN ILLEGAL_REQUEST
                     ELSE IF Fails(cmd) THEN NOT_READY
                     ELSE IF cmd.op = REQUEST_SENSE /\ cmd.len > 0 THEN NO_SENSE
                     ELSE expected_key
  /\ UNCHANGED <<plan, sent, dout>>

BusResetOn ==
  /\ pc = "IDLE"
  /\ RegisterClock(TRUE, [rf EXCEPT !.assert_rst = TRUE], {})
  /\ pc' = "RESET"
  /\ UNCHANGED <<plan, cmd, sent, dout, pio, result, expected_key, aborted>>

BusResetOff ==
  /\ pc = "RESET"
  /\ RegisterClock(TRUE, [rf EXCEPT !.assert_rst = FALSE], {"reset_int"})
  /\ pc' = "IDLE"
  /\ UNCHANGED <<plan, cmd, sent, dout, pio, result, expected_key, aborted>>

(* ANY: in the data phase.  DRAINING: only while the initiator sees the    *)
(* target ask for a byte of the last sector, and more bytes wait behind it *)
(* or none is to come.                                                     *)
MayAbort ==
  \/ AbortsAt = "ANY"
  \/ /\ AbortsAt = "DRAINING"
     /\ REQ /\ ~reqn_d /\ blkend
     /\ tst = "DATA_IN_END" \/ (tst = "DATA_IN" /\ ~REMPTY)

Abort ==
  /\ InPhase({"DATAIN"}) /\ cmd.op \in Reads /\ ~aborted /\ MayAbort
  /\ RegisterClock(TRUE, [rf EXCEPT !.assert_atn = TRUE], {})
  /\ aborted' = TRUE
  /\ UNCHANGED <<plan, pc, cmd, sent, dout, pio, result, expected_key>>

Program ==
  \/ Slow /\ ( \/ Select \/ Selected \/ Put \/ Get \/ Release \/ ClearInt
               \/ \E n \in Chunks : StartDma(n)
               \/ DmaDone \/ DmaStopped \/ Freed \/ BusResetOn \/ BusResetOff)
  \/ Settled /\ Abort

ProgramClock(acts) ==
  IF acts THEN ce /\ Program
  ELSE /\ IF ce THEN RegisterClock(FALSE, rf, {}) ELSE UNCHANGED <<rf, armed>>
       /\ UNCHANGED softvars

-----------------------------------------------------------------------------
(* The host and KRAM.                                                      *)

HostClock(acts) ==
  /\ IF acts
     THEN \/ SD_RD /\ ~SD_ACK /\ SD_ACK' = TRUE /\ sdbuf' = Partial
          \/ SD_ACK /\ SD_ACK' = FALSE /\ sdbuf' = SD_LBA
     ELSE UNCHANGED <<SD_ACK, sdbuf>>
  /\ UNCHANGED medium_empty

KramClock(M_ACK) ==
  /\ M_ACK => m_req
  /\ kram' = IF pc' = "IDLE" THEN EmptyKram       \* of no interest any more
             ELSE IF M_ACK THEN [kram EXCEPT ![rf.dma_ka] = m_do] ELSE kram

-----------------------------------------------------------------------------
(* The wires, and the clock.                                               *)

Bus == [SEL |-> rf.assert_sel, ACK |-> ACK, ATN |-> rf.assert_atn,
        RST |-> rf.assert_rst, DBI |-> dout]

(* The initiator uses what it latches only in phases in which the target   *)
(* drives the data lines.                                                  *)
SCSI_DI == IF phase = "DATAIN" THEN DBO ELSE ZeroByte

ToDrive == [COMMAND |-> COMM, COMM_SEND |-> "COMM_OUT" \in strobes,
            DOUT_SEND |-> "DATA_OUT" \in strobes, CD_READY |-> CD_READY,
            CD_DATA_END |-> "CD_DATA_END" \in strobes, ATN |-> rf.assert_atn,
            MSGOUT_SEND |-> "MSGOUT_OUT" \in strobes,
            MEDIUM_EMPTY |-> medium_empty, SD_ACK |-> SD_ACK]

Tick(program, host, M_ACK) ==
  /\ ProgramClock(program)
  /\ HostClock(host)
  /\ KramClock(M_ACK)
  /\ KingClock(ce, REQ, Lines(phase), SCSI_DI, M_ACK)
  /\ TargetClock(Bus, CD_WR, CD_DATA(COMM), "STAT_GET" \in pulses,
                 "DOUT_REQ" \in pulses, StatusByte(STATUS), ZeroByte)
  /\ DriveClock(ToDrive, sdbuf)
  /\ ce' = ~ce

Init ==
  /\ FifoInit /\ TargetInit /\ DriveInit /\ KingInit
  /\ FIFO_D = Unread /\ DBO = ZeroByte /\ rxbuf = ZeroByte /\ dma_rxbuf = ZeroByte
  /\ m_do = <<ZeroByte, ZeroByte>>
  /\ COMM = [i \in 0 .. 3 |-> 0]
  /\ ce = FALSE
  /\ SD_ACK = FALSE /\ sdbuf = Partial /\ medium_empty \in BOOLEAN
  /\ kram = EmptyKram
  /\ plan \in Plans /\ pc = "IDLE" /\ cmd = NoCommand /\ sent = 0 /\ dout = 0 /\ pio = <<>>
  /\ result = NoResult /\ expected_key = NO_SENSE /\ aborted = FALSE

Next == \E program, host, M_ACK \in BOOLEAN : Tick(program, host, M_ACK)

Spec == Init /\ [][Next]_vars

(* The clock ticks; the program, the host and KRAM do what they can in the *)
(* end.  The program can act only in every other step, hence SF.           *)
FairSpec ==
  /\ Spec
  /\ WF_vars(Next)
  /\ SF_vars(\E host, M_ACK \in BOOLEAN : Tick(TRUE, host, M_ACK))
  /\ WF_vars(\E program, M_ACK \in BOOLEAN : Tick(program, TRUE, M_ACK))
  /\ WF_vars(\E program, host \in BOOLEAN : Tick(program, host, TRUE))

-----------------------------------------------------------------------------
(* Properties.                                                             *)

TypeOK ==
  /\ FifoTypeOK /\ FIFO_D \in Byte
  /\ phase \in {"FREE", "COMMAND", "DATAIN", "DATAOUT", "STATUS", "MSGIN", "MSGOUT"}
  /\ strobes \in {{}, {"COMM_OUT"}, {"DATA_OUT"}, {"MSGOUT_OUT"}, {"CD_DATA_END"},
                  {"FIFO_RD_REQ"}}
  /\ COMM_POS \in 0 .. 4 /\ DATA_POS \in 0 .. DATA_LEN
  /\ tst \in {"IDLE", "CMD", "DATA_OUT", "DATA_IN", "DATA_IN_END", "STAT", "MSG_OUT"}
  /\ datapos <= datalen
  /\ rf.dma_ka \in 0 .. MaxWords /\ rf.dma_byte_cnt \in 0 .. MaxWords
  /\ pc \in {"IDLE", "SELECT", "BUSY", "FREEING", "RESET"}

(* The drive paces its writes by CD_READY, which is old; the byte it has   *)
(* written must still find a free cell when the target sees it and when it *)
(* reaches the FIFO.                                                       *)
NoByteDropped == (CD_WR /\ ~CD_WR_OLD) \/ FIFO_WR_REQ => ~WFULL

(* Every byte the program and KRAM have got is the right byte of the       *)
(* answer, in the right place: none is lost, doubled or out of order,      *)
(* across sectors and across DMA transfers.                                *)
DataExact ==
  ~aborted =>
    /\ \A a \in Words :
         /\ 2 * a + 1 < ExpectedLength(cmd)
         /\ kram[a] = <<ExpectedByte(cmd, 2 * a), ExpectedByte(cmd, 2 * a + 1)>>
    /\ Len(pio) <= ExpectedLength(cmd)
    /\ \A k \in 1 .. Len(pio) : pio[k] = ExpectedByte(cmd, k - 1)

(* The target asks for the status only when the initiator has all the data *)
(* of the command, and gives the status of that command.                   *)
DataBeforeStatus ==
  /\ (REQ /\ phase = "STATUS" /\ ~aborted /\ pc = "BUSY")
       => Received = (IF Fails(cmd) THEN 0 ELSE ExpectedLength(cmd))
  /\ result # NoResult => result = StatusByte(IF Fails(cmd) THEN CHECK_CONDITION ELSE GOOD)

(* Between two commands target, drive and FIFO are all at rest: nothing of *)
(* the last command is left in any of them.                                *)
AtRest ==
  pc = "IDLE" =>
    /\ SP = "FREE" /\ ~STAT_PEND /\ ~DOUT_PEND /\ COMM_POS = 0 /\ DATA_POS = 0
    /\ tst = "IDLE" /\ ~SD_RD /\ ~SD_ACK
    /\ REMPTY /\ rbin = wbin /\ ~FIFO_WR_REQ
    /\ ~rf.dma_mode /\ ~m_req /\ ~dma_end

(* After the last message the target asks for nothing more before it is    *)
(* selected again; in particular an aborted command is over ("Treat all    *)
(* messages as ABORT", scsi.v:424).                                        *)
AbortHonoured == pc \in {"FREEING", "IDLE"} => ~REQ

(* A command that is begun comes to its end.                               *)
CommandEnds == (pc = "SELECT") ~> (pc = "IDLE")
=============================================================================
