------------------------------- MODULE MemIf -------------------------------
(***************************************************************************)
(* Channel 1 of the SDRAM (memif_sdram.sv): the CPU and the loader/saver   *)
(* share one controller bank.  The CPU starts a bus cycle with BCYST and   *)
(* waits for READY; the loader/saver toggles a request and waits for the   *)
(* acknowledge to follow.  The bank latches address, direction and data on *)
(* every clock and uses them in two places: the row when it opens it, and  *)
(* the column, direction and data at the command (sdram_bank.sv).          *)
(*                                                                         *)
(* A step is one edge of SDRAM_CLK; CPU_CLK has an edge on every second    *)
(* one and CPU_CE enables every second of those.                           *)
(*                                                                         *)
(* A definition named X_Y is X with a plausible mistake Y; it is not part  *)
(* of the specification, and shows that a property would notice.           *)
(***************************************************************************)
EXTENDS Integers

CONSTANTS
  MaxStage,    \* most cycles the bank stays in one stage of an access
  LsPauses     \* fewest cycles the loader/saver may rest between two accesses

ASSUME MemIfAssumption == MaxStage \in Nat /\ LsPauses \subseteq Nat

VARIABLES
  phase,         \* position of SDRAM_CLK in the CPU's enabled clock, 0 .. 3
  resn,          \* CPU_RESn
  cpu, cpu_we,   \* bus cycle of the CPU, and whether it writes
  ls_pend,       \* request and acknowledge of the loader/saver differ
  pause, rest,   \* cycles the loader/saver rests, and those it still has to
  mem_pend_req, mem_act, mem_readyn,
  ls_act, ls_dwell,
  ch1_ready_d,
  src_d,         \* whose address, direction and data the bank latched
  bank, stage,   \* progress of the bank, and cycles in this stage
  row, col,      \* what it used as the row, and as the column and data
  \* observed:
  served,        \* the CPU's access has been carried out
  cut            \* the CPU was reset during the access the bank is doing

cpuvars  == <<phase, resn, cpu, cpu_we>>
lsvars   == <<ls_pend, pause, rest>>
memvars  == <<mem_pend_req, mem_act, mem_readyn, ls_act, ls_dwell, ch1_ready_d>>
bankvars == <<src_d, bank, stage, row, col>>
vars == <<cpuvars, lsvars, memvars, bankvars, served, cut>>

CpuCE == phase = 3            \* this edge is also an enabled edge of CPU_CLK
CpuClk == phase \in {1, 3}    \* this edge is also an edge of CPU_CLK

Nobody == [who |-> "NONE", we |-> FALSE]

-----------------------------------------------------------------------------
(* Wires.                                                                  *)

READY == bank = "READY"       \* SDRAM_CH1_READY

mem_start_req == cpu = "T1"
ls_req_Cuts == ls_pend # "NO"

ls_req == ~mem_act /\ ls_pend # "NO"
ls_done == ls_act /\ READY
ls_act_dwell == ls_act \/ ls_dwell # 0

mem_req_NoPend == ~ls_act_dwell /\ ~mem_act /\ mem_start_req /\ mem_readyn

mem_req == ~ls_act_dwell /\ ~mem_act /\ (mem_start_req \/ mem_pend_req) /\ mem_readyn

ch1_req == mem_req \/ ls_req
ch1_act == mem_act \/ ls_act
ch1_ready == (ch1_ready_d /\ ~(~ch1_act /\ ch1_req)) \/ READY

REQ_Again == ch1_req

REQ == ch1_ready_d /\ ch1_req  \* SDRAM_CH1_REQ

mem_rdy_Anyone == ch1_ready

mem_rdy == mem_act /\ ch1_ready

(* The source the address, direction and data are taken from.              *)
Source ==
  IF ls_req \/ ls_act THEN [who |-> "LS", we |-> ls_pend = "WE"]
  ELSE IF cpu # "IDLE" THEN [who |-> "CPU", we |-> cpu_we]
  ELSE Nobody

-----------------------------------------------------------------------------
(* Arbiter registers.                                                      *)

(* The channel stays with the loader/saver for a while after an access.    *)
Dwell == IF ls_dwell # 0 THEN ls_dwell - 1 ELSE IF ls_done THEN 7 ELSE 0

ArbiterClock ==
  /\ mem_pend_req' = ((mem_pend_req \/ mem_start_req) /\ resn /\ ~mem_act)
  /\ ch1_ready_d' = ch1_ready
  /\ LET begin == ~ch1_act /\ REQ IN
       /\ mem_act' = ((mem_act \/ (begin /\ ~ls_req /\ mem_req))
                        /\ ~(mem_act /\ (~resn \/ (ch1_ready /\ ~mem_readyn))))
       /\ ls_act' = ((ls_act \/ (begin /\ ls_req)) /\ ~ls_done)
  /\ ls_dwell' = Dwell
  /\ mem_readyn' = IF CpuCE THEN cpu = "IDLE" \/ ~mem_rdy ELSE mem_readyn

(* The bank: waits to open the row, opens it, gives the command, answers.  *)
BankClock ==
  /\ src_d' = Source
  /\ \/ /\ bank = "IDLE"
        /\ bank' = IF REQ THEN "ASKED" ELSE "IDLE"
        /\ UNCHANGED <<row, col>> /\ stage' = 0
     \/ /\ bank = "ASKED"
        /\ bank' = "OPEN" /\ row' = src_d
        /\ UNCHANGED col /\ stage' = 0
     \/ /\ bank = "OPEN"
        /\ bank' = "COMMAND" /\ col' = src_d
        /\ UNCHANGED row /\ stage' = 0
     \/ /\ bank = "COMMAND"
        /\ bank' = "READY"
        /\ UNCHANGED <<row, col>> /\ stage' = 0
     \/ /\ bank \in {"ASKED", "OPEN", "COMMAND"} /\ stage < MaxStage
        /\ stage' = stage + 1
        /\ UNCHANGED <<bank, row, col>>
     \/ /\ READY
        /\ bank' = "IDLE" /\ row' = Nobody /\ col' = Nobody /\ stage' = 0

-----------------------------------------------------------------------------
(* The two clients.                                                        *)

(* A bus cycle: T1 with BCYST, then T2 until READY is sampled.             *)
CpuRuns ==
  /\ resn
  /\ resn' \in IF CpuCE THEN BOOLEAN ELSE {TRUE}
  /\ IF ~resn' THEN cpu' = "IDLE" /\ UNCHANGED cpu_we
     ELSE IF ~CpuCE THEN UNCHANGED <<cpu, cpu_we>>
     ELSE CASE cpu = "T1" -> cpu' = "T2" /\ UNCHANGED cpu_we
            [] cpu = "T2" /\ mem_readyn -> UNCHANGED <<cpu, cpu_we>>
            [] OTHER -> \/ cpu' = "IDLE" /\ UNCHANGED cpu_we
                        \/ cpu' = "T1" /\ cpu_we' \in BOOLEAN

CpuReset ==
  /\ ~resn
  /\ resn' \in IF CpuCE THEN BOOLEAN ELSE {FALSE}
  /\ UNCHANGED <<cpu, cpu_we>>

LoaderSaver ==
  /\ UNCHANGED pause
  /\ IF ls_done THEN ls_pend' = "NO" /\ rest' = pause
     ELSE /\ rest' = IF rest = 0 THEN 0 ELSE rest - 1
          /\ \/ UNCHANGED ls_pend
             \/ CpuClk /\ ls_pend = "NO" /\ rest = 0 /\ ls_pend' \in {"RD", "WE"}

Observe ==
  /\ served' = IF cpu' = "T1" THEN FALSE
               ELSE served \/ (READY /\ mem_act /\ row = col
                                 /\ row = [who |-> "CPU", we |-> cpu_we])
  /\ cut' = ((cut \/ (mem_act /\ ~resn)) /\ bank' # "IDLE")

Init ==
  /\ phase = 0 /\ resn = FALSE
  /\ cpu = "IDLE" /\ cpu_we = FALSE
  /\ ls_pend = "NO" /\ pause \in LsPauses /\ rest = 0
  /\ mem_pend_req = FALSE /\ mem_act = FALSE /\ mem_readyn = TRUE
  /\ ls_act = FALSE /\ ls_dwell = 0 /\ ch1_ready_d = TRUE
  /\ src_d = Nobody /\ bank = "IDLE" /\ stage = 0
  /\ row = Nobody /\ col = Nobody
  /\ served = FALSE /\ cut = FALSE

Next ==
  /\ phase' = (phase + 1) % 4
  /\ ArbiterClock
  /\ BankClock
  /\ CpuRuns \/ CpuReset
  /\ LoaderSaver
  /\ Observe

Spec == Init /\ [][Next]_vars

FairSpec == Spec /\ WF_vars(Next)

-----------------------------------------------------------------------------
(* Properties.                                                             *)

(* Registers have values of their kinds.                                   *)
TypeOK ==
  /\ phase \in 0 .. 3 /\ resn \in BOOLEAN
  /\ cpu \in {"IDLE", "T1", "T2"} /\ ls_pend \in {"NO", "RD", "WE"}
  /\ rest \in 0 .. pause /\ ls_dwell \in 0 .. 7 /\ stage \in 0 .. MaxStage
  /\ {mem_pend_req, mem_act, mem_readyn, ls_act, ch1_ready_d} \subseteq BOOLEAN
  /\ bank \in {"IDLE", "ASKED", "OPEN", "COMMAND", "READY"}

(* The bank gets a request only when it has answered the one before, also  *)
(* when the CPU that asked was reset meanwhile.                            *)
OneRequest == REQ => bank = "IDLE"

(* Whatever else happened, when the CPU ends a bus cycle its own access    *)
(* has been carried out, with its own address and direction.               *)
CpuAnswered == resn /\ CpuCE /\ cpu = "T2" /\ ~mem_readyn => served

(* The loader/saver is acknowledged for its own access only, carried out   *)
(* with its address, direction and data throughout.                        *)
LsAnswered == ls_done => row = [who |-> "LS", we |-> ls_pend = "WE"] /\ col = row

(* Each of the two users of the channel is answered for its own access.    *)
EachAnswered == CpuAnswered /\ LsAnswered

(* An access uses the row of one requester and the column and data of the  *)
(* same one, unless the CPU is reset in the middle of its access.          *)
AccessWhole == bank \in {"COMMAND", "READY"} /\ ~cut => row = col /\ row # Nobody

(* The loader/saver is answered whatever the CPU does.                     *)
LsServed == ls_pend # "NO" ~> ls_done

(* A CPU access ends, if the loader/saver rests for longer than the dwell  *)
(* that keeps the channel for it, or the CPU is reset.                     *)
CpuServed == cpu = "T1" /\ pause >= 7 ~> (cpu = "T2" /\ ~mem_readyn) \/ ~resn

(* Neither user of the channel shuts the other out.                        *)
EachServed == LsServed /\ CpuServed

=============================================================================
