----------------------------- MODULE KingScsi -----------------------------
(***************************************************************************)
(* The initiator side of the SCSI bus in KING: its registers               *)
(* (huc6272_cpuif.sv), and the engine that acknowledges bytes and writes   *)
(* them to KRAM as words (huc6272_scsi.sv).                                *)
(*                                                                         *)
(* A step is one edge of CLK; most of the engine moves only when CE is     *)
(* high, which is every other edge (pcfx_top.sv).  KRAM acknowledges on    *)
(* any edge.  Signals are TRUE when asserted, whatever their polarity.     *)
(***************************************************************************)
EXTENDS Integers

VARIABLES
  rf,               \* the registers
  armed,            \* pulses to give when the CPU's access is over
  reqn_d, req_posedge_d,
  rxbuf,            \* the byte latched when REQ came
  dma_a0, dma_rxbuf,      \* half of a word, and its first byte
  dma_rxbuf_rd, dma_next_word, dma_end,
  m_req, m_do,      \* the word on its way to KRAM
  assert_ack_dma, assert_ack_cnt,
  phase_match_d, block_int

handvars == <<reqn_d, req_posedge_d, rxbuf, phase_match_d, block_int>>
ackvars == <<assert_ack_dma, assert_ack_cnt>>
wordvars == <<dma_a0, dma_rxbuf, dma_rxbuf_rd, dma_next_word, dma_end, m_req, m_do>>
kingvars == <<rf, armed, handvars, ackvars, wordvars>>

(* The lines that the initiator drives.                                    *)
ACK == rf.assert_ack \/ assert_ack_dma

(* int_req of the engine: the end of a DMA, or a blocked bus.              *)
int_req_act == dma_end \/ block_int

Pulse(p) == p \in rf.pulses

req_posedge(REQ) == REQ /\ reqn_d
phase_match(lines) == lines = rf.assert_lines

dma_req_set(match) == rf.dma_mode /\ match /\ (req_posedge_d \/ Pulse("start_dma_rx"))
dma_req_clr == rf.dma_mode /\ (dma_rxbuf_rd \/ Pulse("rxbuf_rd"))

-----------------------------------------------------------------------------
(* Latching the byte, and watching the phase.                              *)

HandClock(REQ, lines, DI) ==
  /\ req_posedge_d' = req_posedge(REQ)
  /\ reqn_d' = ~REQ
  /\ rxbuf' = IF req_posedge(REQ) THEN DI ELSE rxbuf
  /\ phase_match_d' = phase_match(lines)
  /\ block_int' =
       \/ rf.assert_rst
       \/ req_posedge(REQ) /\ ~phase_match(lines) /\ phase_match_d
       \/ block_int /\ ~Pulse("reset_int")

(* ACK lasts for two clock enables, and stays away for two.                *)
AckClock ==
  IF ~rf.dma_mode
  THEN assert_ack_dma' = FALSE /\ assert_ack_cnt' = FALSE
  ELSE IF assert_ack_cnt
  THEN assert_ack_cnt' = FALSE /\ UNCHANGED assert_ack_dma
  ELSE IF dma_req_clr \/ assert_ack_dma
  THEN assert_ack_dma' = dma_req_clr /\ assert_ack_cnt' = TRUE
  ELSE UNCHANGED ackvars

-----------------------------------------------------------------------------
(* Making words of bytes.                                                  *)

WordTaken(M_ACK) == m_req /\ M_ACK
FirstByte(CE, match) == CE /\ rf.dma_en /\ ~dma_end /\ dma_req_set(match) /\ ~dma_a0
SecondByte(CE, match) == CE /\ rf.dma_en /\ ~dma_end /\ dma_req_set(match) /\ dma_a0

dma_a0_Next(CE, match) ==
  IF ~CE THEN dma_a0
  ELSE IF ~rf.dma_en \/ dma_end THEN FALSE
  ELSE IF dma_req_set(match) THEN ~dma_a0 ELSE dma_a0

(* A word is taken: its second byte is acknowledged, and the registers     *)
(* move on to the next word at the next clock enable.                      *)
WordClock_AckEarly(CE, match, M_ACK) ==
  /\ dma_a0' = dma_a0_Next(CE, match)
  /\ dma_rxbuf' = IF FirstByte(CE, match) THEN rxbuf ELSE dma_rxbuf
  /\ m_do' = IF SecondByte(CE, match) THEN <<dma_rxbuf, rxbuf>> ELSE m_do
  /\ m_req' = ((m_req \/ SecondByte(CE, match)) /\ ~WordTaken(M_ACK))
  /\ dma_rxbuf_rd' =
       (FirstByte(CE, match) \/ SecondByte(CE, match) \/ (~CE /\ dma_rxbuf_rd))
  /\ dma_next_word' = (WordTaken(M_ACK) \/ (~CE /\ dma_next_word))
  /\ dma_end' = IF WordTaken(M_ACK) THEN (rf.dma_byte_cnt = 1)
                ELSE (dma_end /\ ~(CE /\ Pulse("reset_dma_end_int")))

WordClock(CE, match, M_ACK) ==
  /\ dma_a0' = dma_a0_Next(CE, match)
  /\ dma_rxbuf' = IF FirstByte(CE, match) THEN rxbuf ELSE dma_rxbuf
  /\ m_do' = IF SecondByte(CE, match) THEN <<dma_rxbuf, rxbuf>> ELSE m_do
  /\ m_req' = ((m_req \/ SecondByte(CE, match)) /\ ~WordTaken(M_ACK))
  /\ dma_rxbuf_rd' =
       (FirstByte(CE, match) \/ WordTaken(M_ACK) \/ (~CE /\ dma_rxbuf_rd))
  /\ dma_next_word' = (WordTaken(M_ACK) \/ (~CE /\ dma_next_word))
  /\ dma_end' = IF WordTaken(M_ACK) THEN (rf.dma_byte_cnt = 1)
                ELSE (dma_end /\ ~(CE /\ Pulse("reset_dma_end_int")))

-----------------------------------------------------------------------------
(* The registers.  written is rf after the CPU's access of this step, and  *)
(* pulses what it arms; without an access, armed pulses are given.         *)

Counted(r) ==
  [r EXCEPT !.dma_byte_cnt = IF dma_next_word THEN @ - 1 ELSE @,
            !.dma_ka = IF dma_next_word THEN @ + 1 ELSE @]

RegisterClock(access, written, pulses) ==
  IF access
  THEN rf' = Counted(written) /\ armed' = pulses
  ELSE /\ rf' = Counted([rf EXCEPT !.pulses = armed,
                                   !.dma_en = @ /\ ~dma_end])
       /\ armed' = {}

KingInit ==
  /\ rf = [assert_rst |-> FALSE, assert_ack |-> FALSE, assert_sel |-> FALSE,
           assert_atn |-> FALSE, assert_lines |-> <<FALSE, FALSE, FALSE>>,
           dma_mode |-> FALSE, dma_en |-> FALSE, dma_ka |-> 0, dma_byte_cnt |-> 0,
           pulses |-> {}]
  /\ armed = {}
  /\ reqn_d = TRUE /\ req_posedge_d = FALSE
  /\ dma_a0 = FALSE /\ dma_rxbuf_rd = FALSE /\ dma_next_word = FALSE
  /\ dma_end = FALSE /\ m_req = FALSE
  /\ assert_ack_dma = FALSE /\ assert_ack_cnt = FALSE
  /\ phase_match_d = TRUE /\ block_int = FALSE

(* One edge.  The CPU accesses a register only when CE is high.            *)
KingClock(CE, REQ, lines, DI, M_ACK) ==
  /\ WordClock(CE, phase_match(lines), M_ACK)
  /\ IF CE THEN HandClock(REQ, lines, DI) /\ AckClock
     ELSE UNCHANGED <<handvars, ackvars>>
=============================================================================
