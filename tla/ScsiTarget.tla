---------------------------- MODULE ScsiTarget ----------------------------
(***************************************************************************)
(* The target side of the SCSI bus (scsi.v): it collects a command from    *)
(* the initiator for the drive, hands the drive's bytes to the initiator   *)
(* through the FIFO, and leads the bus through its phases.                 *)
(*                                                                         *)
(* A step is one edge of CLK.  Signals are TRUE when asserted, whatever    *)
(* their polarity on the wire.  The four lines BSY, MSG, CD and IO are     *)
(* one value, the bus phase they encode; a register that is 1 for a single *)
(* clock (COMM_OUT, DATA_OUT, MSGOUT_OUT, CD_DATA_END, FIFO_RD_REQ) is a   *)
(* member of strobes for that clock.                                       *)
(***************************************************************************)
EXTENDS Fifo1

CONSTANTS
  COMM_LEN_6, COMM_LEN_10, COMM_LEN_12,   \* bytes of a command, by its group
  DATA_LEN,     \* bytes of data the target takes for a command; 10
  REQ_DELAY,    \* clocks before REQ for a command byte; 1700 and 5370
  HOLD_DELAY,   \* clocks after a status or message byte; 49400 and 6600
  STAT_DELAY    \* clocks the status waits for a quiet bus; 45000

ASSUME TargetAssumption ==
  /\ {DATA_LEN, REQ_DELAY, HOLD_DELAY, STAT_DELAY} \subseteq Nat
  /\ {COMM_LEN_6, COMM_LEN_10, COMM_LEN_12} \subseteq Nat \ {0}

VARIABLES
  SP,             \* state of the target
  phase, REQ,     \* bus phase and request line
  DBO,            \* byte the target drives
  COMM, COMM_POS, \* command bytes, and how many have come
  DATA_POS,       \* data bytes taken
  DELAY_COUNT, STAT_COUNT,
  STAT_PEND, DOUT_PEND,   \* the drive wants to give its status, to take data
  strobes,
  FIFO_D, FIFO_WR_REQ, CD_WR_OLD   \* writing side

busvars == <<SP, phase, REQ>>
commvars == <<COMM, COMM_POS>>
pendvars == <<STAT_PEND, DOUT_PEND, STAT_COUNT>>
targetvars == <<busvars, commvars, pendvars, DBO, DATA_POS, DELAY_COUNT,
                strobes, FIFO_D, FIFO_WR_REQ, CD_WR_OLD>>

CD_READY == ~WFULL

(* The length of a command follows from the upper three bits of its code.  *)
Length(op) ==
  LET group == op \div 32
  IN CASE group = 0 -> COMM_LEN_6
       [] group = 5 -> COMM_LEN_12
       [] OTHER     -> COMM_LEN_10

(* Levels of MSG, CD and IO in a phase.  A free bus looks like DATA OUT.   *)
Lines(ph) ==
  CASE ph = "COMMAND"             -> <<FALSE, TRUE, FALSE>>
    [] ph = "STATUS"              -> <<FALSE, TRUE, TRUE>>
    [] ph = "MSGIN"               -> <<TRUE, TRUE, TRUE>>
    [] ph = "MSGOUT"              -> <<TRUE, TRUE, FALSE>>
    [] ph = "DATAIN"              -> <<FALSE, FALSE, TRUE>>
    [] ph \in {"DATAOUT", "FREE"} -> <<FALSE, FALSE, FALSE>>

-----------------------------------------------------------------------------
(* The writing side: a rising edge of CD_WR puts CD_DATA into the FIFO.    *)

WriteClock(CD_WR, CD_DATA) ==
  /\ CD_WR_OLD' = CD_WR
  /\ IF CD_WR /\ ~CD_WR_OLD
     THEN FIFO_D' = CD_DATA /\ FIFO_WR_REQ' = ~WFULL
     ELSE FIFO_WR_REQ' = FALSE /\ UNCHANGED FIFO_D

-----------------------------------------------------------------------------
(* The phase machine.  bus is a record of the initiator's lines SEL, ACK,  *)
(* ATN and RST and of DBI, the byte it drives.                             *)

Goto(sp, ph, req) == SP' = sp /\ phase' = ph /\ REQ' = req
Wait == UNCHANGED busvars

(* Which of its duties a free target turns to.                             *)
Duty(bus) ==
  IF bus.SEL THEN "SELECTION"
  ELSE IF bus.ATN THEN "MESSAGE"
  ELSE IF STAT_PEND THEN "STATUS"
  ELSE IF ~REMPTY THEN "DATAIN"
  ELSE IF DOUT_PEND THEN "DATAOUT" ELSE "NONE"

StatusDue(bus) == SP = "FREE" /\ Duty(bus) = "STATUS" /\ STAT_COUNT = STAT_DELAY

Free(bus, STATUS) ==
  LET duty == Duty(bus)
  IN /\ SP = "FREE"
     /\ CASE duty = "SELECTION" -> Goto("COMM_BEFOREREQ", "COMMAND", REQ)
          [] duty = "MESSAGE"   -> Goto("MSGOUT_START", "MSGOUT", TRUE)
          [] duty = "STATUS"    -> IF StatusDue(bus)
                                   THEN Goto("STAT_START", "STATUS", TRUE)
                                   ELSE Wait
          [] duty = "DATAIN"    -> Goto("DATAIN_START", "DATAIN", TRUE)
          [] duty = "DATAOUT"   -> Goto("DATAOUT_START", "DATAOUT", TRUE)
          [] duty = "NONE"      -> Wait
     /\ DELAY_COUNT' = IF duty = "SELECTION" THEN REQ_DELAY ELSE DELAY_COUNT
     /\ DBO' = CASE StatusDue(bus)   -> STATUS
                 [] duty = "DATAIN"  -> RDATA
                 [] OTHER            -> DBO
     /\ strobes' = IF duty = "DATAIN" THEN {"FIFO_RD_REQ"} ELSE {}
     /\ UNCHANGED <<commvars, DATA_POS>>

(* A byte in either direction: the target sees ACK and drops REQ; then it  *)
(* sees ACK dropped, and goes on as the phase has it.                      *)
Byte1(start, end, bus) ==
  /\ SP = start
  /\ IF REQ /\ bus.ACK THEN Goto(end, phase, FALSE) ELSE Wait

Released(end, bus) == SP = end /\ ~REQ /\ ~bus.ACK
Held(end, bus) == SP = end /\ (REQ \/ bus.ACK) /\ Wait

CommBeforeReq ==
  /\ SP = "COMM_BEFOREREQ"
  /\ IF DELAY_COUNT = 0
     THEN Goto("COMM_START", phase, TRUE) /\ UNCHANGED DELAY_COUNT
     ELSE Wait /\ DELAY_COUNT' = DELAY_COUNT - 1
  /\ strobes' = {}
  /\ UNCHANGED <<commvars, DBO, DATA_POS>>

CommStart(bus) ==
  /\ Byte1("COMM_START", "COMM_END", bus)
  /\ IF REQ /\ bus.ACK
     THEN COMM' = [COMM EXCEPT ![COMM_POS] = bus.DBI] /\ COMM_POS' = COMM_POS + 1
     ELSE UNCHANGED commvars
  /\ strobes' = {}
  /\ UNCHANGED <<DBO, DATA_POS, DELAY_COUNT>>

CommEnd(bus) ==
  /\ \/ /\ Held("COMM_END", bus)
        /\ strobes' = {}
        /\ UNCHANGED <<COMM_POS, DELAY_COUNT>>
     \/ /\ Released("COMM_END", bus)
        /\ IF COMM_POS = Length(COMM[0])
           THEN /\ Goto("FREE", "DATAOUT", REQ)       \* CD goes, BSY stays
                /\ COMM_POS' = 0
                /\ strobes' = {"COMM_OUT"}
                /\ UNCHANGED DELAY_COUNT
           ELSE /\ Goto("COMM_BEFOREREQ", phase, REQ)
                /\ DELAY_COUNT' = REQ_DELAY
                /\ strobes' = {}
                /\ UNCHANGED COMM_POS
  /\ UNCHANGED <<COMM, DBO, DATA_POS>>

(* Status and message in: the byte, a pause, and the next phase.           *)
Report(bus, MESSAGE) ==
  /\ \/ /\ Byte1("STAT_START", "STAT_END", bus)
        /\ UNCHANGED <<DBO, DELAY_COUNT>>
     \/ /\ Released("STAT_END", bus)
        /\ Goto("STAT_HOLD", phase, REQ)
        /\ DELAY_COUNT' = HOLD_DELAY /\ UNCHANGED DBO
     \/ /\ SP = "STAT_HOLD"
        /\ IF DELAY_COUNT = 0
           THEN Goto("MSGIN_START", "MSGIN", TRUE) /\ DBO' = MESSAGE /\ UNCHANGED DELAY_COUNT
           ELSE Wait /\ DELAY_COUNT' = DELAY_COUNT - 1 /\ UNCHANGED DBO
     \/ /\ Byte1("MSGIN_START", "MSGIN_END", bus)
        /\ UNCHANGED <<DBO, DELAY_COUNT>>
     \/ /\ Released("MSGIN_END", bus)
        /\ Goto("MSGIN_HOLD", phase, REQ)
        /\ DELAY_COUNT' = HOLD_DELAY /\ UNCHANGED DBO
     \/ /\ SP = "MSGIN_HOLD"
        /\ IF DELAY_COUNT = 0
           THEN Goto("FREE", "FREE", FALSE) /\ UNCHANGED DELAY_COUNT
           ELSE Wait /\ DELAY_COUNT' = DELAY_COUNT - 1
        /\ UNCHANGED DBO
     \/ /\ Held("STAT_END", bus) \/ Held("MSGIN_END", bus)
        /\ UNCHANGED <<DBO, DELAY_COUNT>>
  /\ strobes' = {}
  /\ UNCHANGED <<commvars, DATA_POS>>

(* An empty FIFO ends the data for now; the bus keeps its phase.           *)
DataInEnd(bus) ==
  \/ Held("DATAIN_END", bus) /\ strobes' = {} /\ UNCHANGED DBO
  \/ /\ Released("DATAIN_END", bus)
     /\ IF ~REMPTY
        THEN Goto("DATAIN_START", phase, TRUE) /\ DBO' = RDATA /\ strobes' = {"FIFO_RD_REQ"}
        ELSE Goto("FREE", phase, REQ) /\ strobes' = {"CD_DATA_END"} /\ UNCHANGED DBO

DataIn(bus) ==
  /\ \/ Byte1("DATAIN_START", "DATAIN_END", bus) /\ strobes' = {} /\ UNCHANGED DBO
     \/ DataInEnd(bus)
  /\ UNCHANGED <<commvars, DATA_POS, DELAY_COUNT>>

DataOut(bus) ==
  /\ \/ /\ Byte1("DATAOUT_START", "DATAOUT_END", bus)
        /\ DATA_POS' = IF REQ /\ bus.ACK THEN DATA_POS + 1 ELSE DATA_POS
        /\ strobes' = {}
     \/ Held("DATAOUT_END", bus) /\ strobes' = {} /\ UNCHANGED DATA_POS
     \/ /\ Released("DATAOUT_END", bus)
        /\ IF DATA_POS = DATA_LEN
           THEN Goto("FREE", phase, REQ) /\ DATA_POS' = 0 /\ strobes' = {"DATA_OUT"}
           ELSE Goto("DATAOUT_START", phase, TRUE) /\ strobes' = {} /\ UNCHANGED DATA_POS
  /\ UNCHANGED <<commvars, DBO, DELAY_COUNT>>

(* Messages are taken while ATN lasts; each of them means ABORT.           *)
MsgOut(bus) ==
  /\ \/ Byte1("MSGOUT_START", "MSGOUT_END", bus) /\ strobes' = {}
     \/ Held("MSGOUT_END", bus) /\ strobes' = {}
     \/ /\ Released("MSGOUT_END", bus)
        /\ IF bus.ATN
           THEN Goto("MSGOUT_START", phase, TRUE) /\ strobes' = {}
           ELSE Goto("FREE", "FREE", FALSE) /\ strobes' = {"MSGOUT_OUT"}
  /\ UNCHANGED <<commvars, DBO, DATA_POS, DELAY_COUNT>>

(* A bus reset releases the lines, and nothing else.                       *)
BusReset ==
  /\ Goto(SP, "FREE", FALSE)
  /\ strobes' = {}
  /\ UNCHANGED <<commvars, DBO, DATA_POS, DELAY_COUNT>>

PendClock(bus, STAT_GET, DOUT_REQ) ==
  LET idle == SP = "FREE" /\ ~bus.RST
  IN /\ STAT_PEND' = ((STAT_PEND \/ STAT_GET) /\ ~(idle /\ StatusDue(bus)))
     /\ DOUT_PEND' = ((DOUT_PEND \/ DOUT_REQ) /\ ~(idle /\ Duty(bus) = "DATAOUT"))
     /\ STAT_COUNT' = IF idle /\ Duty(bus) = "STATUS"
                      THEN IF StatusDue(bus) THEN 0 ELSE STAT_COUNT + 1
                      ELSE STAT_COUNT

TargetInit ==
  /\ SP = "FREE" /\ phase = "FREE" /\ REQ = FALSE
  /\ COMM_POS = 0 /\ DATA_POS = 0 /\ DELAY_COUNT = 0 /\ STAT_COUNT = 0
  /\ STAT_PEND = FALSE /\ DOUT_PEND = FALSE
  /\ strobes = {}
  /\ FIFO_WR_REQ = FALSE /\ CD_WR_OLD = FALSE

TargetClock(bus, CD_WR, CD_DATA, STAT_GET, DOUT_REQ, STATUS, MESSAGE) ==
  /\ WriteClock(CD_WR, CD_DATA)
  /\ PendClock(bus, STAT_GET, DOUT_REQ)
  /\ \/ bus.RST /\ BusReset
     \/ /\ ~bus.RST
        /\ \/ Free(bus, STATUS) \/ CommBeforeReq \/ CommStart(bus) \/ CommEnd(bus)
           \/ Report(bus, MESSAGE) \/ DataIn(bus) \/ DataOut(bus) \/ MsgOut(bus)
  /\ FifoClock(FIFO_WR_REQ, FIFO_D, "FIFO_RD_REQ" \in strobes)
=============================================================================
