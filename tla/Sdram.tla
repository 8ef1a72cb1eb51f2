------------------------------- MODULE Sdram -------------------------------
(***************************************************************************)
(* The SDRAM controller in operation (sdram.sv, sdram_bank.sv): one state  *)
(* machine per bank, a scheduler that shares the command and data buses    *)
(* between them, and the main state machine that stops the banks for a     *)
(* refresh.  Bank 0 is the CPU channel (ch1, two beats), banks 1 and 2 are *)
(* the KRAM channels (ch2, ch3, one beat); bank 3 has no client.           *)
(*                                                                         *)
(* A step is one rising edge of clk.  Request lines are the inputs of the  *)
(* step.  The timers that raise refresh_due and refresh_sys are modelled   *)
(* in SdramRefresh; here they may fire whenever load.gap cycles have       *)
(* passed since they last did.                                             *)
(*                                                                         *)
(* A definition named X_Y is X with a plausible mistake Y; it is not part  *)
(* of the specification, and shows that a property would notice.           *)
(***************************************************************************)
EXTENDS SdramChip, FiniteSetsExt

(* What the controller is put under.  gap: fewest cycles between two       *)
(* refresh requests; refreshing: FALSE for none at all; spacing: cycles    *)
(* from one pixel clock (DCK) to the next, 0 for DCK in every cycle;       *)
(* clients: the channels that ask.                                         *)
CONSTANT Loads

ASSUME SdramAssumption ==
  /\ Loads \subseteq [gap : Nat, refreshing : BOOLEAN, spacing : Nat,
                      clients : SUBSET Bank]
  /\ TRCD_MIN >= 2 /\ TRP_MIN >= 2

(* What the banks and the scheduler take for granted of sdram_defs.svh.    *)
(* They are written for bursts of two and a CAS latency of two; bank 0 is  *)
(* always there; the wait counters have four bits; and they count only     *)
(* tRCD, tWR and tRP: the other times must be over when those are.         *)
ASSUME TimingAssumption ==
  /\ BURST_LENGTH = 2 /\ CAS_LATENCY = 2 /\ 0 \in Bank
  /\ {TRCD_MIN - 2, TWR_MIN - 1, TRP_MIN - 2} \subseteq 0 .. 15
  /\ TRRD_MIN <= 2 /\ TRC_MIN >= 2 /\ TRC_MIN >= TRCD_MIN
  /\ TRAS_MIN <= TRCD_MIN + 2 /\ TRAS_MIN <= TRCD_MIN + TWR_MIN
  /\ TRC_MIN <= TRCD_MIN + TRP_MIN + 3
  /\ TRC_MIN <= TRCD_MIN + TRP_MIN + TWR_MIN + 1

VARIABLES
  load,          \* one of Loads, for the whole behaviour
  rq, rnw,       \* per bank: request latch, read/not write
  st, wcnt,      \* per bank: state and wait counter
  data_ready_delay, \* per bank: bits set in the read shift register
  ready,         \* per bank: READY output
  dqout,         \* per bank: word this bank drives, or NONE
  dout,          \* per bank: words latched from the data bus
  open_req,      \* per bank: the client waits for READY
  pace,          \* cycles until the KRAM channels may ask again
  dqo, dqi,      \* data bus output and input registers
  state, refresh_wait, refresh_due, refresh_sys, gap,
  bbsba_d,       \* bank last selected
  bbssch,        \* schedule: bbssch[i] owns the command bus in i + 1 cycles
  bbscact, bbsdact  \* cycles ahead in which each bus is taken

bankvars == <<rq, rnw, st, wcnt, data_ready_delay, ready, dqout, dout, open_req, pace>>
mainvars == <<state, refresh_wait, refresh_due, refresh_sys, gap, dqo, dqi, command>>
schedvars == <<bbsba_d, bbssch, bbscact, bbsdact>>
vars == <<load, bankvars, mainvars, schedvars, chipvars>>

BEATS(b) == IF b = 0 THEN 2 ELSE 1
FREE == 4            \* no bank, in the schedule

refresh_start == refresh_due \/ refresh_sys
bapause_Late == state # "ACTIVE"

bapause == state # "ACTIVE" \/ refresh_start
baidle == \A b \in Bank : st[b] = "IDLE"

-----------------------------------------------------------------------------
(* Bus bank scheduler.                                                     *)

creq_OneCycle(b) ==
  IF (st[b] = "IDLE" /\ ~bapause /\ rq[b]) \/ (st[b] = "ACT_WAIT" /\ wcnt[b] = 0)
  THEN {0} ELSE {}

(* Bus cycles a bank asks for, as offsets from the next cycle.             *)
creq(b) == CASE st[b] = "IDLE" /\ ~bapause /\ rq[b] -> {0}
             [] st[b] = "ACT_WAIT" /\ wcnt[b] = 0 -> 0 .. BURST_LENGTH - 1
             [] OTHER -> {}

dreq(b) == CASE st[b] = "ACT_WAIT" /\ wcnt[b] = 0 ->
                  IF rnw[b] THEN 2 .. BURST_LENGTH + 1 ELSE 0 .. BEATS(b) - 1
             [] OTHER -> {}

Volunteers ==
  {b \in Bank : /\ creq(b) \cup dreq(b) # {}
                /\ creq(b) \cap bbscact = {}
                /\ dreq(b) \cap bbsdact = {}}

bbsschn == bbssch[0] = FREE /\ Volunteers # {}

bbsschban == Max(Volunteers)

bbsba == IF bbssch[0] # FREE THEN bbssch[0]
         ELSE IF Volunteers # {} THEN bbsschban
         ELSE bbsba_d

Shift_Sticks(bits) == {i - 1 : i \in bits \ {0}} \cup (bits \cap {0})

Shift(bits) == {i - 1 : i \in bits \ {0}}

SchedulerClock_NoShift ==
  /\ bbsba_d' = bbsba
  /\ bbssch' = [i \in 0 .. 3 |->
       IF bbsschn /\ i \in creq(bbsschban) THEN bbsschban
       ELSE IF i < 3 THEN bbssch[i + 1] ELSE FREE]
  /\ bbscact' = bbscact \cup creq(bbsba)
  /\ bbsdact' = Shift(bbsdact) \cup dreq(bbsba)

SchedulerClock ==
  /\ bbsba_d' = bbsba
  /\ bbssch' = [i \in 0 .. 3 |->
       IF bbsschn /\ i \in creq(bbsschban) THEN bbsschban
       ELSE IF i < 3 THEN bbssch[i + 1] ELSE FREE]
  /\ bbscact' = Shift(bbscact) \cup creq(bbsba)
  /\ bbsdact' = Shift(bbsdact) \cup dreq(bbsba)

-----------------------------------------------------------------------------
(* Bank state machine.                                                     *)

(* The bank that owns the command bus in this cycle; bbsba_d registers it. *)
Selected(b) == bbsba_d' = b

rqc(b) == Selected(b) /\ ~bapause /\ rq[b] /\ st[b] = "IDLE"

(* A transition out of st[b]: the next state and the wait counter it sets. *)
Goto(s, w) == [st |-> s, wcnt |-> w]

stn(b) ==
  LET w == Down(wcnt[b])
      stay == Goto(st[b], w)
      afterRead == IF TRP_MIN - (BURST_LENGTH - 1) >= 2
                   THEN Goto("PRE", TRP_MIN - (BURST_LENGTH - 1) - 2)
                   ELSE Goto("IDLE", w)
  IN CASE st[b] = "IDLE" -> IF rqc(b) THEN Goto("ACT", w) ELSE stay
       [] st[b] = "ACT" -> Goto("ACT_WAIT", TRCD_MIN - 2)
       [] st[b] = "ACT_WAIT" ->
            IF Selected(b) /\ wcnt[b] = 0
            THEN Goto(IF rnw[b] THEN "R_CMD" ELSE "W_CMD", w) ELSE stay
       [] st[b] = "R_CMD" -> Goto("R_DQM", w)
       [] st[b] = "R_DQM" -> Goto("R", BURST_LENGTH - 1)
       [] st[b] = "R" -> IF wcnt[b] = 0 THEN afterRead ELSE stay
       [] st[b] = "W_CMD" -> IF BEATS(b) = 2 THEN Goto("W_CMD_2", w)
                             ELSE Goto("W_REC", TWR_MIN - 1)
       [] st[b] = "W_CMD_2" -> Goto("W_REC", TWR_MIN - 1)
       [] st[b] = "W_REC" ->
            IF wcnt[b] = 0 THEN Goto("PRE", TRP_MIN - 2) ELSE stay
       [] st[b] = "PRE" -> IF wcnt[b] = 0 THEN Goto("IDLE", w) ELSE stay

(* The step into the last beat of a write: READY follows.                  *)
LastBeat(b) == st'[b] = (IF BEATS(b) = 2 THEN "W_CMD_2" ELSE "W_CMD")

(* The command a bank puts in its register on entering its state.          *)
r_cmd(b) ==
  CASE st[b] = "ACT" -> [c |-> "ACTIVE", ba |-> b, ap |-> FALSE]
    [] st[b] = "R_CMD" -> [c |-> "READ", ba |-> b, ap |-> TRUE]
    [] st[b] = "W_CMD" -> [c |-> "WRITE", ba |-> b, ap |-> BEATS(b) = 1]
    [] st[b] = "W_CMD_2" -> [c |-> "WRITE", ba |-> b, ap |-> BEATS(b) = 2]
    [] OTHER -> Nop

(* A line is no multiple of the pixel clock: its last period is longer by  *)
(* this many cycles (10 CLK for 8).                                        *)
LINE_END == 4

(* A client raises REQ only when it waits for nothing; READY ends a wait.  *)
(* Both KRAM clients ask on the fabric's DCK, one access on each.          *)
REQ(b) == open_req'[b] /\ (~open_req[b] \/ ready[b])

Clients ==
  /\ open_req' \in [Bank -> BOOLEAN]
  /\ \A b \in Bank : /\ open_req[b] /\ ~ready[b] => open_req'[b]
                     /\ REQ(b) => b \in load.clients /\ (b # 0 => pace = 0)
  /\ pace' \in IF pace # 0 THEN {pace - 1}
               ELSE IF load.spacing = 0 THEN {0}
               ELSE {load.spacing - 1, load.spacing - 1 + LINE_END}
  /\ rnw' \in [Bank -> BOOLEAN]
  /\ \A b \in Bank : ~REQ(b) => rnw'[b] = rnw[b]

ReadLatency_NoInputRegister(b) == CAS_LATENCY + BEATS(b) - 1

(* From the read command to READY, counting the registers it passes.       *)
ReadLatency(b) == CAS_LATENCY + BEATS(b)

BanksClock ==
  /\ rq' = [b \in Bank |-> (rq[b] /\ ~rqc(b)) \/ REQ(b)]
  /\ st' = [b \in Bank |-> stn(b).st]
  /\ wcnt' = [b \in Bank |-> stn(b).wcnt]
  /\ data_ready_delay' = [b \in Bank |->
       Shift(data_ready_delay[b])
         \cup (IF Selected(b) /\ st[b] = "R_CMD" THEN {ReadLatency(b)} ELSE {})]
  /\ ready' = [b \in Bank |->
       0 \in data_ready_delay[b] \/ (Selected(b) /\ LastBeat(b))]
  /\ dqout' = [b \in Bank |->
       IF Selected(b) /\ st'[b] = "W_CMD" THEN <<b, 0>>
       ELSE IF Selected(b) /\ st'[b] = "W_CMD_2" THEN <<b, 1>> ELSE NONE]
  /\ dout' = [b \in Bank |-> [k \in 0 .. BEATS(b) - 1 |->
       IF BEATS(b) - 1 - k \in data_ready_delay[b] THEN dqi ELSE dout[b][k]]]

-----------------------------------------------------------------------------
(* Main state machine.                                                     *)

(* Everything on the data bus: what the controller and the device drive.   *)
DQ == {w \in {dqo, dq_out[0]} : w # NONE}

DataBusClock ==
  /\ dqo' = IF \E b \in Bank : dqout[b] # NONE
            THEN LET b == CHOOSE b \in Bank : dqout[b] # NONE IN dqout[b]
            ELSE NONE
  /\ dqi' = IF dq_out[0] # NONE THEN dq_out[0] ELSE dqo

RefreshRequests ==
  /\ gap' = IF (refresh_due' /\ ~refresh_due) \/ (refresh_sys' /\ ~refresh_sys)
            THEN load.gap ELSE Down(gap)
  /\ refresh_due' = TRUE /\ ~refresh_due => load.refreshing /\ gap = 0 /\ state = "ACTIVE"
  /\ refresh_sys' = TRUE /\ ~refresh_sys => load.refreshing /\ gap = 0

Active ==
  /\ state = "ACTIVE"
  /\ command' = r_cmd(bbsba)
  /\ IF baidle /\ refresh_start
     THEN state' = "REFRESH" /\ refresh_wait' = TRC_MIN
     ELSE UNCHANGED <<state, refresh_wait>>
  /\ refresh_due' \in {refresh_due, TRUE}
  /\ refresh_sys' \in {refresh_sys, TRUE}
  /\ RefreshRequests

Refresh_EndsLate ==
  /\ state = "REFRESH"
  /\ refresh_wait' = (refresh_wait - 1) % 16
  /\ IF refresh_wait = TRC_MIN
     THEN /\ command' = [Nop EXCEPT !.c = "AUTO_REFRESH"]
          /\ refresh_due' = FALSE
     ELSE /\ command' = Nop
          /\ UNCHANGED refresh_due
  /\ state' = IF refresh_wait = 0 THEN "ACTIVE" ELSE state
  /\ refresh_sys' \in {FALSE, ~refresh_sys}
  /\ RefreshRequests

Refresh ==
  /\ state = "REFRESH"
  /\ refresh_wait' = refresh_wait - 1
  /\ IF refresh_wait = TRC_MIN
     THEN /\ command' = [Nop EXCEPT !.c = "AUTO_REFRESH"]
          /\ refresh_due' = FALSE
     ELSE /\ command' = Nop
          /\ UNCHANGED refresh_due
  /\ state' = IF refresh_wait # TRC_MIN /\ refresh_wait = 1 THEN "ACTIVE" ELSE state
  /\ refresh_sys' \in {FALSE, ~refresh_sys}
  /\ RefreshRequests

Next ==
  /\ UNCHANGED load
  /\ SchedulerClock
  /\ DataBusClock
  /\ ChipClock
  /\ Active \/ Refresh
  /\ Clients
  /\ BanksClock

Init ==
  /\ load \in Loads
  /\ rq = [b \in Bank |-> FALSE]
  /\ rnw = [b \in Bank |-> FALSE]
  /\ st = [b \in Bank |-> "IDLE"]
  /\ wcnt = [b \in Bank |-> 0]
  /\ data_ready_delay = [b \in Bank |-> {}]
  /\ ready = [b \in Bank |-> FALSE]
  /\ dqout = [b \in Bank |-> NONE]
  /\ dout = [b \in Bank |-> [k \in 0 .. BEATS(b) - 1 |-> NONE]]
  /\ open_req = [b \in Bank |-> FALSE]
  /\ pace = 0
  /\ dqo = NONE
  /\ dqi = NONE
  /\ state = "ACTIVE"
  /\ refresh_wait = 0
  /\ refresh_due = FALSE
  /\ refresh_sys = FALSE
  /\ gap = 0
  /\ bbsba_d = 0
  /\ bbssch = [i \in 0 .. 3 |-> FREE]
  /\ bbscact = {}
  /\ bbsdact = {}
  /\ command = Nop
  /\ ChipInit

Spec == Init /\ [][Next]_vars

(* The clock does not stop: where DCK runs, every edge changes pace.       *)
FairSpec == Spec /\ []<><<TRUE>>_vars

-----------------------------------------------------------------------------
(* Properties.                                                             *)

States == {"IDLE", "ACT", "ACT_WAIT", "R_CMD", "R_DQM", "R", "W_CMD",
           "W_CMD_2", "W_REC", "PRE"}

(* Every register of the controller has a value of its kind.               *)
TypeOK ==
  /\ rq \in [Bank -> BOOLEAN] /\ rnw \in [Bank -> BOOLEAN]
  /\ st \in [Bank -> States] /\ wcnt \in [Bank -> 0 .. 15]
  /\ \A b \in Bank : data_ready_delay[b] \subseteq 0 .. CAS_LATENCY + BEATS(b)
  /\ ready \in [Bank -> BOOLEAN] /\ open_req \in [Bank -> BOOLEAN]
  /\ state \in {"ACTIVE", "REFRESH"} /\ refresh_wait \in 0 .. TRC_MIN
  /\ refresh_due \in BOOLEAN /\ refresh_sys \in BOOLEAN /\ gap \in 0 .. load.gap
  /\ pace \in 0 .. load.spacing + LINE_END
  /\ bbsba_d \in 0 .. 3 /\ bbssch \in [0 .. 3 -> Bank \cup {FREE}]
  /\ bbscact \subseteq 0 .. 3 /\ bbsdact \subseteq 0 .. 3

(* Whatever the banks, the scheduler and the refreshes do together, the    *)
(* device gets each command when it may: no command into a burst that ends *)
(* in an auto-precharge or into a refresh, no second row in an open bank,  *)
(* no access or refresh before tRCD, tRP, tRC, tRRD and tRAS have passed.  *)
TimingRespected == LegalCommand

(* Only the selected bank's command reaches the pins, and only while the   *)
(* main state machine is active: a bank never issues one that is dropped.  *)
NoCommandLost ==
  \A b \in Bank : r_cmd(b) # Nop => bbsba = b /\ state = "ACTIVE"

(* The controller and the device never drive the data bus in one cycle,    *)
(* and no two banks feed the output register at once.                      *)
DataBusFree ==
  /\ dqo = NONE \/ dq_out[0] = NONE
  /\ \A b, d \in Bank : dqout[b] # NONE /\ dqout[d] # NONE => b = d

(* With every write command the data bus carries that bank's word: beat 1  *)
(* with the command that closes a two-beat write, beat 0 otherwise.        *)
WriteDataAligned ==
  command.c = "WRITE" =>
    dqo = <<command.ba, IF command.ap THEN BEATS(command.ba) - 1 ELSE 0>>

(* When a read reports READY, its output holds the words the device drove  *)
(* for that bank, each beat in its place, whatever the other banks did on  *)
(* the bus meanwhile.                                                      *)
ReadDataAligned ==
  \A b \in Bank : ready[b] /\ rnw[b] =>
    \A k \in 0 .. BEATS(b) - 1 : dout[b][k] = <<b, k>>

(* Every word is on the data bus in its cycle and goes where it belongs.   *)
DataBusExact == DataBusFree /\ WriteDataAligned /\ ReadDataAligned

(* READY answers a request that is open, and one request gets one READY: a *)
(* bank that reported READY has nothing of that request left to do that    *)
(* could report it again.                                                  *)
ReadyAnswers ==
  \A b \in Bank : ready[b] =>
    /\ open_req[b] /\ ~rq[b]
    /\ data_ready_delay[b] = {}
    /\ st[b] \notin {"ACT", "ACT_WAIT", "R_CMD", "R_DQM"}

(* huc6272_fetch.sv: assert(M_ACK) else "late M_ACK": a KRAM read begun on *)
(* one DCK is answered by the next.  pace is 1 in the last cycle in which  *)
(* an answer is in time.                                                   *)
AckByDck == pace = 1 => \A b \in Bank \ {0} : open_req[b] /\ rnw[b] => ready[b]

(* Every request is answered, also under refreshes and whichever channels  *)
(* the scheduler prefers, when KRAM asks on DCK only: bank 2 asking in     *)
(* every cycle would leave the others nothing.                             *)
EveryRequestReady ==
  \A b \in Bank : load.spacing > 0 /\ open_req[b] ~> ready[b]

=============================================================================
