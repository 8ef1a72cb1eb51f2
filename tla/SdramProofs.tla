---------------------------- MODULE SdramProofs ----------------------------
(***************************************************************************)
(* Proofs about the SDRAM controller: its banks, its scheduler and the     *)
(* device under them, for any set of banks, any load and any timing that   *)
(* meets the assumptions.                                                  *)
(***************************************************************************)
EXTENDS Sdram, TLAPS

Commands == [c : {"NOP", "ACTIVE", "READ", "WRITE", "AUTO_REFRESH"},
             ba : Bank, ap : BOOLEAN]

(* The device, once it has taken the command in the register.              *)
Opened(b) == Activated(b) \/ (b \in row_open /\ ~(Accessed(b) /\ command.ap))
Age(b) == IF Activated(b) THEN 0 ELSE age[b]
Closing(b) == IF Accessed(b) /\ command.ap THEN ToPrecharge + TRP_MIN ELSE closing[b]
Prechg == IF command.c = "READ" THEN 3
          ELSE IF command.c = "WRITE" /\ command.ap THEN 2 ELSE prechg
Refreshing == IF command.c = "AUTO_REFRESH" THEN TRC_MIN ELSE auto_refresh

Types ==
  /\ load \in Loads
  /\ TypeOK
  /\ bbsba_d \in Bank
  /\ command \in Commands /\ (command.c = "READ" => command.ap)
  /\ row_open \subseteq Bank /\ age \in [Bank -> 0 .. TRC_MIN]
  /\ closing \in [Bank -> Nat] /\ prechg \in Nat /\ auto_refresh \in Nat
  /\ DOMAIN dq_out = 0 .. 2

(* The states in which a bank has the command bus for its own.             *)
Owning == {"ACT", "R_CMD", "W_CMD", "R_DQM", "W_CMD_2", "W_REC"}

(* The schedule: one bank at most, for this cycle and perhaps the next; it *)
(* is the bank that was selected last.                                     *)
Schedule ==
  /\ bbssch[2] = FREE /\ bbssch[3] = FREE
  /\ bbssch[1] \in {FREE, bbssch[0]}
  /\ bbssch[0] \in {FREE, bbsba_d}
  /\ bbscact = {i \in 0 .. 3 : bbssch[i] # FREE}

(* A bank's state tells what it has of the schedule, and the schedule what *)
(* its bank does.                                                          *)
Ownership ==
  \A b \in Bank :
    /\ st[b] \in {"R_CMD", "W_CMD"} => bbssch[0] = b /\ bbssch[1] = b
    /\ st[b] \in {"ACT", "R_DQM", "W_CMD_2"} => bbssch[0] = b /\ bbssch[1] = FREE
    /\ bbssch[0] = b => st[b] \in Owning
    /\ bbssch[1] = b => st[b] \in {"R_CMD", "W_CMD"}
    /\ st[b] = "W_CMD_2" => BEATS(b) = 2
    /\ st[b] = "R" => wcnt[b] \in {0, 1}

(* Where the data bus is taken.  A bank that was selected last and was not *)
(* served since finds it free.                                             *)
DataBusTaken ==
  /\ bbssch[0] = FREE /\ st[bbsba_d] = "ACT_WAIT" => bbsdact = {}
  /\ \A b \in Bank :
       /\ st[b] = "ACT" => bbsdact \subseteq {0}
       /\ st[b] = "R_CMD" => bbsdact \in {{2, 3}, {0, 2, 3}}
       /\ st[b] = "R_DQM" => bbsdact = {1, 2}
       /\ st[b] = "R" /\ wcnt[b] = 1 => 0 \in bbsdact
  /\ (\A b \in Bank : st[b] \notin {"R_CMD", "R_DQM"}) => bbsdact \subseteq {0, 1}

(* A refresh finds every bank idle.                                        *)
Stopped == state = "REFRESH" => refresh_wait >= 1 /\ \A b \in Bank : st[b] = "IDLE"

(* The work a client waits for: its request, the bank on its way to the    *)
(* command that answers, or the read on its way back.                      *)
Working(b) == {"ACT", "ACT_WAIT", "R_CMD"} \cup (IF BEATS(b) = 2 THEN {"W_CMD"} ELSE {})
Waits(b) == open_req[b] /\ ~ready[b]

Answers ==
  \A b \in Bank :
    /\ ready[b] => open_req[b]
    /\ rq[b] => Waits(b) /\ st[b] \notin Working(b) /\ data_ready_delay[b] = {}
    /\ st[b] \in Working(b) => Waits(b) /\ data_ready_delay[b] = {}
    /\ data_ready_delay[b] # {} => Waits(b) /\ rnw[b]
    /\ st[b] = "R_CMD" => rnw[b]
    /\ st[b] \in {"W_CMD", "W_CMD_2"} => ~rnw[b]
    /\ st[b] = "R_DQM" => data_ready_delay[b] = {BEATS(b) + 2}
    /\ st[b] = "R" => data_ready_delay[b] = {BEATS(b) + wcnt[b]}
    /\ st[b] \notin {"R_DQM", "R"} =>
         data_ready_delay[b] \in {{}} \cup {{k} : k \in 0 .. BEATS(b) - 1}

(* What a bank has sent is in the command register, or was before.         *)
Sent ==
  \A b \in Bank :
    /\ st[b] = "R_DQM" <=> command.c = "READ" /\ command.ba = b
    /\ st[b] \in {"IDLE", "ACT", "R", "R_CMD"} =>
         ~(command.c \in {"READ", "WRITE"} /\ command.ba = b)
    /\ Activated(b) => st[b] = "ACT_WAIT"
    /\ command.c = "WRITE" /\ command.ba = b =>
         st[b] = (IF BEATS(b) = 1 \/ command.ap THEN "W_REC" ELSE "W_CMD_2")
    /\ command.c = "WRITE" /\ command.ba = b /\ BEATS(b) = 1 => command.ap

(* The row of a bank, how old it is and what is left of its precharge.     *)
RowOf(b) ==
  /\ Opened(b) <=> st[b] \in {"ACT_WAIT", "R_CMD", "W_CMD", "W_CMD_2"}
  /\ Closing(b) <= (CASE st[b] = "IDLE" -> 1
                      [] st[b] = "PRE" -> wcnt[b] + 2
                      [] st[b] = "R_DQM" -> TRP_MIN + 2
                      [] st[b] = "R" -> TRP_MIN + wcnt[b]
                      [] st[b] = "W_REC" -> TRP_MIN + wcnt[b] + 1
                      [] OTHER -> 0)
  /\ Age(b) >= (CASE st[b] = "IDLE" -> TRC_MIN - 2
                  [] st[b] = "PRE" -> TRC_MIN - wcnt[b] - 3
                  [] st[b] = "ACT" -> TRC_MIN - 1
                  [] st[b] = "ACT_WAIT" -> TRCD_MIN - 2 - wcnt[b]
                  [] st[b] \in {"R_CMD", "W_CMD", "W_CMD_2"} -> TRCD_MIN - 1
                  [] st[b] = "R_DQM" -> TRC_MIN - TRP_MIN - 3
                  [] st[b] = "R" -> TRC_MIN - TRP_MIN - wcnt[b] - 1
                  [] OTHER -> TRC_MIN - TRP_MIN - wcnt[b] - 2)

Rows ==
  /\ \A b \in Bank : RowOf(b)
  /\ state = "REFRESH" /\ refresh_wait = TRC_MIN =>
       \A b \in Bank : Closing(b) = 0 /\ Age(b) >= TRC_MIN - 1
  /\ \A b, d \in Bank : st[b] = "ACT" /\ d # b => Age(d) >= 1

(* What is left of a burst, and of a refresh, when a bank may speak.       *)
Bursts ==
  /\ Prechg <= 3
  /\ bbssch[0] = FREE => Prechg <= 2
  /\ \A b \in Bank : st[b] \in {"ACT", "R_CMD", "W_CMD", "W_CMD_2"} => Prechg <= 1
  /\ state = "REFRESH" /\ refresh_wait = TRC_MIN => Prechg <= 1 /\ Refreshing = 0
  /\ state = "REFRESH" => Refreshing <= refresh_wait + 1
  /\ state = "ACTIVE" => Refreshing <= 1
  /\ \A b \in Bank : st[b] # "IDLE" => Refreshing = 0

(* Words on their way out and in.                                          *)
Words ==
  /\ \A b \in Bank : dqout[b] = (CASE st[b] = "W_CMD" -> <<b, 0>>
                                   [] st[b] = "W_CMD_2" -> <<b, 1>>
                                   [] OTHER -> NONE)
  /\ dqo = (IF command.c = "WRITE"
            THEN <<command.ba, IF command.ap THEN BEATS(command.ba) - 1 ELSE 0>>
            ELSE NONE)
  /\ dq_out[2] # NONE => {0, 1} \subseteq bbsdact
  /\ dq_out[1] # NONE => 0 \in bbsdact
  /\ dqo # NONE => dq_out[0] = NONE
  /\ \A b \in Bank :
       /\ st[b] \in {"W_CMD", "W_CMD_2"} => \A i \in 0 .. 2 : dq_out[i] = NONE
       /\ st[b] = "R" /\ wcnt[b] = 1 => dq_out[1] = <<b, 0>> /\ dq_out[2] = <<b, 1>>
       /\ st[b] = "R" /\ wcnt[b] = 0 => dq_out[0] = <<b, 0>> /\ dq_out[1] = <<b, 1>>
       /\ st[b] # "R" /\ BEATS(b) - 1 \in data_ready_delay[b] =>
            dqi = <<b, 0>> /\ dq_out[0] = <<b, 1>>
       /\ st[b] # "R" /\ BEATS(b) = 2 /\ 0 \in data_ready_delay[b] =>
            dqi = <<b, 1>> /\ dout[b][0] = <<b, 0>>

Controller == Types /\ Schedule /\ Ownership /\ DataBusTaken /\ Stopped

IInv == Controller /\ Answers /\ Sent /\ Rows /\ Bursts /\ Words /\ LegalCommand
          /\ ReadDataAligned

-----------------------------------------------------------------------------
(* The constants are numbers, and those of the source two.                 *)
LEMMA Numbers ==
  /\ BURST_LENGTH = 2 /\ CAS_LATENCY = 2
  /\ TRC_MIN \in Nat /\ TRRD_MIN \in Nat /\ TRCD_MIN \in Nat /\ TRP_MIN \in Nat
  /\ TWR_MIN \in Nat /\ TRAS_MIN \in Nat
  /\ TRCD_MIN >= 2 /\ TRP_MIN >= 2 /\ TWR_MIN >= 1 /\ TRC_MIN >= 2
  /\ Bank \subseteq 0 .. 3 /\ 0 \in Bank /\ FREE \notin Bank
BY ChipAssumption, SdramAssumption, TimingAssumption DEF FREE

(* Of the banks that volunteer one is chosen.                              *)
LEMMA Chosen ==
  ASSUME Volunteers # {}
  PROVE  bbsschban \in Volunteers
<1>1. Volunteers \subseteq 0 .. 3
  BY Numbers DEF Volunteers
<1>2. \E b \in Volunteers : \A d \in Volunteers : b >= d
  <2>1. CASE 3 \in Volunteers
    BY <2>1, <1>1
  <2>2. CASE 3 \notin Volunteers /\ 2 \in Volunteers
    BY <2>2, <1>1
  <2>3. CASE 3 \notin Volunteers /\ 2 \notin Volunteers /\ 1 \in Volunteers
    BY <2>3, <1>1
  <2>4. CASE 3 \notin Volunteers /\ 2 \notin Volunteers /\ 1 \notin Volunteers
    <3>1. \A d \in Volunteers : d = 0
      BY <2>4, <1>1
    <3>2. QED
      BY <3>1
  <2>5. QED
    BY <2>1, <2>2, <2>3, <2>4
<1>3. QED
  BY <1>2 DEF bbsschban, Max

(* The bank that goes on to a command: the scheduler selected it, and it   *)
(* asked for the command bus.                                              *)
Begins(b) == bbsba = b /\ creq(b) # {}

(* What a bank asks for.                                                   *)
LEMMA Asks ==
  ASSUME NEW b \in Bank, Types
  PROVE  /\ creq(b) # {} <=> \/ st[b] = "IDLE" /\ ~bapause /\ rq[b]
                             \/ st[b] = "ACT_WAIT" /\ wcnt[b] = 0
         /\ st[b] = "IDLE" /\ creq(b) # {} => creq(b) = {0} /\ dreq(b) = {}
         /\ st[b] = "ACT_WAIT" /\ creq(b) # {} =>
              /\ creq(b) = {0, 1}
              /\ rnw[b] => dreq(b) = {2, 3}
              /\ ~rnw[b] => 0 \in dreq(b) /\ dreq(b) \subseteq {0, 1}
         /\ creq(b) = {} => dreq(b) = {}
<1>1. 0 .. BURST_LENGTH - 1 = {0, 1} /\ 2 .. BURST_LENGTH + 1 = {2, 3}
  BY Numbers
<1>2. 0 \in 0 .. BEATS(b) - 1 /\ 0 .. BEATS(b) - 1 \subseteq {0, 1}
  BY DEF BEATS
<1>3. QED
  BY <1>1, <1>2 DEF creq, dreq

(* A bank that asked and is selected was free to be: the schedule was      *)
(* empty, and its words do not meet others on the data bus.                *)
LEMMA Selection ==
  ASSUME Types, Schedule, Ownership, DataBusTaken
  PROVE  /\ bbsba \in Bank
         /\ bbssch[0] # FREE => bbsba = bbssch[0]
         /\ bbssch[0] = FREE /\ bbsba # bbsba_d => Begins(bbsba)
         /\ bbssch[0] = FREE /\ Volunteers # {} => Begins(bbsba)
         /\ \A b \in Bank : Begins(b) =>
              /\ bbssch[0] = FREE /\ bbsschn /\ bbsschban = b
              /\ dreq(b) \cap bbsdact = {}
<1>0. Volunteers # {} => bbsschban \in Bank /\ creq(bbsschban) # {}
  BY Chosen, Asks DEF Volunteers
<1>1. bbssch[0] \in Bank \cup {FREE} /\ bbsba_d \in Bank
  BY DEF Types, TypeOK
<1>2. bbsba \in Bank /\ (bbssch[0] # FREE => bbsba = bbssch[0])
  BY <1>0, <1>1 DEF bbsba
<1>3. bbssch[0] = FREE /\ Volunteers # {} => Begins(bbsba)
  BY <1>0 DEF Begins, bbsba
<1>4. ASSUME NEW b \in Bank, Begins(b)
      PROVE  /\ bbssch[0] = FREE /\ bbsschn /\ bbsschban = b
             /\ dreq(b) \cap bbsdact = {}
  <2>1. st[b] \in {"IDLE", "ACT_WAIT"}
    BY <1>4, Asks DEF Begins
  <2>2. bbssch[0] = FREE
    BY <2>1, <1>1, <1>4 DEF Ownership, Owning, Begins, bbsba
  <2>3. bbscact = {}
    BY <2>2 DEF Schedule
  <2>4. Volunteers # {}
    <3>1. SUFFICES ASSUME Volunteers = {} PROVE FALSE
      OBVIOUS
    <3>2. bbsba_d = b
      BY <3>1, <2>2, <1>4 DEF bbsba, Begins
    <3>3. dreq(b) \cap bbsdact = {}
      BY <3>2, <2>1, <2>2, <1>4, Asks DEF DataBusTaken, Begins
    <3>4. b \in Volunteers
      BY <3>3, <2>3, <1>4 DEF Volunteers, Begins
    <3>5. QED
      BY <3>1, <3>4
  <2>5. bbsschban = b
    BY <2>2, <2>4, <1>4 DEF bbsba, Begins
  <2>6. b \in Volunteers
    BY <2>4, <2>5, Chosen
  <2>7. QED
    BY <2>2, <2>4, <2>5, <2>6 DEF bbsschn, Volunteers
<1>5. QED
  BY <1>1, <1>2, <1>3, <1>4 DEF bbsba

(* The bits that are left of a bit map a cycle later.                      *)
LEMMA Shifted ==
  ASSUME NEW B, B \subseteq 0 .. 4
  PROVE  /\ \A i : i \in Shift(B) <=> i \in 0 .. 3 /\ i + 1 \in B
         /\ Shift(B) \subseteq 0 .. 3
<1>1. ASSUME NEW i, i \in Shift(B)
      PROVE  i \in 0 .. 3 /\ i + 1 \in B
  <2>1. PICK j \in B \ {0} : i = j - 1
    BY <1>1 DEF Shift
  <2>2. QED
    BY <2>1
<1>2. ASSUME NEW i \in 0 .. 3, i + 1 \in B
      PROVE  i \in Shift(B)
  <2>1. i + 1 \in B \ {0} /\ i = (i + 1) - 1
    BY <1>2
  <2>2. QED
    BY <2>1 DEF Shift
<1>3. QED
  BY <1>1, <1>2

(* The schedule a cycle later.                                             *)
LEMMA SchedulerStep ==
  ASSUME Types, Schedule, Ownership, DataBusTaken, SchedulerClock
  PROVE  /\ bbsba_d' = bbsba
         /\ \A b \in Bank : Begins(b) =>
              /\ bbssch' = [i \in 0 .. 3 |-> IF i \in creq(b) THEN b ELSE FREE]
              /\ bbscact' = creq(b)
              /\ bbsdact' = Shift(bbsdact) \cup dreq(b)
         /\ (\A b \in Bank : ~Begins(b)) =>
              /\ bbssch' = [i \in 0 .. 3 |-> IF i = 0 THEN bbssch[1] ELSE FREE]
              /\ bbscact' = (IF bbssch[1] = FREE THEN {} ELSE {0})
              /\ bbsdact' = Shift(bbsdact)
<1>1. bbsba_d' = bbsba
  BY DEF SchedulerClock
<1>2. bbscact \subseteq 0 .. 4
  BY DEF Types, TypeOK
<1>3. ASSUME NEW b \in Bank, Begins(b)
      PROVE  /\ bbssch' = [i \in 0 .. 3 |-> IF i \in creq(b) THEN b ELSE FREE]
             /\ bbscact' = creq(b)
             /\ bbsdact' = Shift(bbsdact) \cup dreq(b)
  <2>1. bbssch[0] = FREE /\ bbsschn /\ bbsschban = b /\ bbsba = b
    BY <1>3, Selection DEF Begins
  <2>2. bbssch[1] = FREE /\ bbssch[2] = FREE /\ bbssch[3] = FREE /\ bbscact = {}
    BY <2>1 DEF Schedule
  <2>3. Shift(bbscact) = {}
    BY <2>2, <1>2, Shifted
  <2>4. \A i \in 0 .. 3 : (IF i < 3 THEN bbssch[i + 1] ELSE FREE) = FREE
    BY <2>2
  <2>5. QED
    BY <2>1, <2>3, <2>4 DEF SchedulerClock
<1>4. ASSUME \A b \in Bank : ~Begins(b)
      PROVE  /\ bbssch' = [i \in 0 .. 3 |-> IF i = 0 THEN bbssch[1] ELSE FREE]
             /\ bbscact' = (IF bbssch[1] = FREE THEN {} ELSE {0})
             /\ bbsdact' = Shift(bbsdact)
  <2>1. ~bbsschn /\ creq(bbsba) = {} /\ dreq(bbsba) = {}
    BY <1>4, Selection, Asks DEF bbsschn, Begins
  <2>2. \A i \in 0 .. 3 :
          (IF i < 3 THEN bbssch[i + 1] ELSE FREE) = IF i = 0 THEN bbssch[1] ELSE FREE
    BY DEF Schedule
  <2>3. Shift(bbscact) = (IF bbssch[1] = FREE THEN {} ELSE {0})
    <3>1. \A i : i \in Shift(bbscact) <=> i \in 0 .. 3 /\ i + 1 \in bbscact
      BY <1>2, Shifted
    <3>2. \A i \in 0 .. 3 : i \in bbscact <=> bbssch[i] # FREE
      BY DEF Schedule
    <3>3. QED
      BY <3>1, <3>2 DEF Schedule
  <2>4. QED
    BY <2>1, <2>2, <2>3 DEF SchedulerClock
<1>5. QED
  BY <1>1, <1>3, <1>4

(* Where a bank goes from its state, and with which wait.                  *)
LEMMA BankStep ==
  ASSUME Types, Schedule, Ownership, DataBusTaken, SchedulerClock, BanksClock,
         NEW b \in Bank
  PROVE  /\ st[b] = "IDLE" => st'[b] = IF Begins(b) THEN "ACT" ELSE "IDLE"
         /\ st[b] = "ACT" => st'[b] = "ACT_WAIT" /\ wcnt'[b] = TRCD_MIN - 2
         /\ st[b] = "ACT_WAIT" =>
              IF Begins(b) THEN st'[b] = IF rnw[b] THEN "R_CMD" ELSE "W_CMD"
              ELSE st'[b] = "ACT_WAIT" /\ wcnt'[b] = Down(wcnt[b])
         /\ st[b] = "R_CMD" => st'[b] = "R_DQM"
         /\ st[b] = "R_DQM" => st'[b] = "R" /\ wcnt'[b] = 1
         /\ st[b] = "R" =>
              IF wcnt[b] = 0
              THEN IF TRP_MIN = 2 THEN st'[b] = "IDLE"
                   ELSE st'[b] = "PRE" /\ wcnt'[b] = TRP_MIN - 3
              ELSE st'[b] = "R" /\ wcnt'[b] = Down(wcnt[b])
         /\ st[b] = "W_CMD" => IF BEATS(b) = 2 THEN st'[b] = "W_CMD_2"
                               ELSE st'[b] = "W_REC" /\ wcnt'[b] = TWR_MIN - 1
         /\ st[b] = "W_CMD_2" => st'[b] = "W_REC" /\ wcnt'[b] = TWR_MIN - 1
         /\ st[b] = "W_REC" =>
              IF wcnt[b] = 0 THEN st'[b] = "PRE" /\ wcnt'[b] = TRP_MIN - 2
              ELSE st'[b] = "W_REC" /\ wcnt'[b] = Down(wcnt[b])
         /\ st[b] = "PRE" =>
              IF wcnt[b] = 0 THEN st'[b] = "IDLE"
              ELSE st'[b] = "PRE" /\ wcnt'[b] = Down(wcnt[b])
<1>1. Selected(b) <=> bbsba = b
  BY SchedulerStep DEF Selected
<1>2. st[b] = "IDLE" => (rqc(b) <=> Begins(b))
  BY <1>1, Asks DEF rqc, Begins
<1>3. st[b] = "ACT_WAIT" => (Selected(b) /\ wcnt[b] = 0 <=> Begins(b))
  BY <1>1, Asks DEF Begins
<1>4. st'[b] = stn(b).st /\ wcnt'[b] = stn(b).wcnt
  BY DEF BanksClock
<1>5. st[b] = "IDLE" => st'[b] = IF Begins(b) THEN "ACT" ELSE "IDLE"
  BY <1>2, <1>4 DEF stn, Goto
<1>6. st[b] = "ACT_WAIT" =>
        IF Begins(b) THEN st'[b] = IF rnw[b] THEN "R_CMD" ELSE "W_CMD"
        ELSE st'[b] = "ACT_WAIT" /\ wcnt'[b] = Down(wcnt[b])
  BY <1>3, <1>4 DEF stn, Goto
<1>7. st[b] = "R" =>
        IF wcnt[b] = 0
        THEN IF TRP_MIN = 2 THEN st'[b] = "IDLE"
             ELSE st'[b] = "PRE" /\ wcnt'[b] = TRP_MIN - 3
        ELSE st'[b] = "R" /\ wcnt'[b] = Down(wcnt[b])
  BY <1>4, Numbers DEF stn, Goto
<1>8. /\ st[b] = "ACT" => st'[b] = "ACT_WAIT" /\ wcnt'[b] = TRCD_MIN - 2
      /\ st[b] = "R_CMD" => st'[b] = "R_DQM"
      /\ st[b] = "R_DQM" => st'[b] = "R" /\ wcnt'[b] = 1
  <2>1. st[b] = "ACT" => st'[b] = "ACT_WAIT" /\ wcnt'[b] = TRCD_MIN - 2
    BY <1>4 DEF stn, Goto
  <2>2. st[b] = "R_CMD" => st'[b] = "R_DQM"
    BY <1>4 DEF stn, Goto
  <2>3. st[b] = "R_DQM" => st'[b] = "R" /\ wcnt'[b] = BURST_LENGTH - 1
    BY <1>4 DEF stn, Goto
  <2>4. QED
    BY <2>1, <2>2, <2>3, Numbers
<1>9. st[b] \in {"W_CMD", "W_CMD_2"} =>
        /\ st[b] = "W_CMD" => IF BEATS(b) = 2 THEN st'[b] = "W_CMD_2"
                              ELSE st'[b] = "W_REC" /\ wcnt'[b] = TWR_MIN - 1
        /\ st[b] = "W_CMD_2" => st'[b] = "W_REC" /\ wcnt'[b] = TWR_MIN - 1
  BY <1>4 DEF stn, Goto
<1>10. st[b] \in {"W_REC", "PRE"} =>
        /\ st[b] = "W_REC" =>
              IF wcnt[b] = 0 THEN st'[b] = "PRE" /\ wcnt'[b] = TRP_MIN - 2
              ELSE st'[b] = "W_REC" /\ wcnt'[b] = Down(wcnt[b])
        /\ st[b] = "PRE" =>
              IF wcnt[b] = 0 THEN st'[b] = "IDLE"
              ELSE st'[b] = "PRE" /\ wcnt'[b] = Down(wcnt[b])
  BY <1>4 DEF stn, Goto
<1>11. QED
  BY <1>5, <1>6, <1>7, <1>8, <1>9, <1>10

(* A bank that speaks is the one that is heard.                            *)
LEMMA Heard ==
  ASSUME Types, Schedule, Ownership, DataBusTaken, Stopped, NEW b \in Bank,
         st[b] \in {"ACT", "R_CMD", "W_CMD", "W_CMD_2"}
  PROVE  bbsba = b /\ bbssch[0] = b /\ bbssch[0] # FREE /\ state = "ACTIVE"
<1>1. bbssch[0] = b /\ bbssch[0] # FREE
  BY Numbers DEF Ownership
<1>2. state = "ACTIVE"
  BY DEF Stopped, Types, TypeOK
<1>3. QED
  BY <1>1, <1>2 DEF bbsba

(* The command register a cycle later.                                     *)
LEMMA CommandStep ==
  ASSUME Types, Schedule, Ownership, DataBusTaken, Stopped, Active \/ Refresh
  PROVE  /\ command' \in Commands /\ (command'.c = "READ" => command'.ap)
         /\ \A b \in Bank :
              /\ st[b] = "ACT" <=> command'.c = "ACTIVE" /\ command'.ba = b
              /\ st[b] = "R_CMD" <=> command'.c = "READ" /\ command'.ba = b
              /\ st[b] \in {"W_CMD", "W_CMD_2"} <=>
                   command'.c = "WRITE" /\ command'.ba = b
              /\ st[b] = "W_CMD" => (command'.ap <=> BEATS(b) = 1)
              /\ st[b] = "W_CMD_2" => (command'.ap <=> BEATS(b) = 2)
         /\ command'.c = "AUTO_REFRESH" <=> state = "REFRESH" /\ refresh_wait = TRC_MIN
<1>1. bbsba \in Bank /\ 0 \in Bank
  BY Selection, Numbers
<1>2. CASE Active
  <2>1. command' = r_cmd(bbsba) /\ state = "ACTIVE"
    BY <1>2 DEF Active
  <2>2. \A b \in Bank : st[b] \in {"ACT", "R_CMD", "W_CMD", "W_CMD_2"} => b = bbsba
    BY Heard
  <2>3. QED
    BY <1>1, <2>1, <2>2 DEF r_cmd, Nop, Commands
<1>3. CASE Refresh
  <2>1. \A b \in Bank : st[b] = "IDLE"
    BY <1>3 DEF Refresh, Stopped
  <2>2. command' = IF refresh_wait = TRC_MIN THEN [Nop EXCEPT !.c = "AUTO_REFRESH"] ELSE Nop
    BY <1>3 DEF Refresh
  <2>3. QED
    BY <1>1, <1>3, <2>1, <2>2 DEF Refresh, Nop, Commands
<1>4. QED
  BY <1>2, <1>3

(* The device a cycle later.                                               *)
LEMMA ChipStep ==
  ASSUME Types, ChipClock
  PROVE  /\ \A b \in Bank :
              /\ b \in row_open' <=> Opened(b)
              /\ Age(b) \in 0 .. TRC_MIN /\ Closing(b) \in Nat
              /\ age'[b] = IF Age(b) < TRC_MIN THEN Age(b) + 1 ELSE Age(b)
              /\ closing'[b] = Down(Closing(b))
         /\ row_open' \subseteq Bank /\ age' \in [Bank -> 0 .. TRC_MIN]
         /\ closing' \in [Bank -> Nat]
         /\ Prechg \in Nat /\ prechg' = Down(Prechg)
         /\ Refreshing \in Nat /\ auto_refresh' = Down(Refreshing)
         /\ DOMAIN dq_out' = 0 .. 2
         /\ dq_out'[0] = dq_out[1]
         /\ dq_out'[1] = (IF command.c = "READ" THEN <<command.ba, 0>> ELSE dq_out[2])
         /\ dq_out'[2] = (IF command.c = "READ" THEN <<command.ba, 1>> ELSE NONE)
<1>1. command.c # "PRECHARGE" /\ command.ba \in Bank /\ (command.c = "READ" => command.ap)
  BY DEF Types, Commands
<1>2. ToPrecharge \in Nat /\ ToPrecharge >= 1
  BY Numbers DEF ToPrecharge
<1>3. ASSUME NEW b \in Bank
      PROVE  Age(b) \in 0 .. TRC_MIN /\ Closing(b) \in Nat
  BY <1>2, Numbers DEF Types, Age, Closing
<1>4. \A b \in Bank : b \in row_open' <=> Opened(b)
  BY <1>1 DEF ChipClock, Opened, Activated, Accessed, Types
<1>5. row_open' \subseteq Bank
  BY <1>1 DEF ChipClock, Types
<1>6. ASSUME NEW b \in Bank
      PROVE  /\ age'[b] = IF Age(b) < TRC_MIN THEN Age(b) + 1 ELSE Age(b)
             /\ age'[b] \in 0 .. TRC_MIN
  BY <1>3, Numbers DEF ChipClock, Age, Types
<1>7. ASSUME NEW b \in Bank
      PROVE  closing'[b] = Down(Closing(b)) /\ closing'[b] \in Nat
  BY <1>1, <1>2, <1>3, Numbers DEF ChipClock, Closing, Down
<1>8. Prechg \in Nat /\ prechg' = Down(Prechg)
  BY <1>1, Numbers DEF ChipClock, Prechg, Down, Types
<1>9. Refreshing \in Nat /\ auto_refresh' = Down(Refreshing)
  BY Numbers DEF ChipClock, Refreshing, Down, Types
<1>10. /\ DOMAIN dq_out' = 0 .. 2
       /\ dq_out'[0] = dq_out[1]
       /\ dq_out'[1] = (IF command.c = "READ" THEN <<command.ba, 0>> ELSE dq_out[2])
       /\ dq_out'[2] = (IF command.c = "READ" THEN <<command.ba, 1>> ELSE NONE)
  <2>1. DOMAIN dq_out = 0 .. 2 /\ CAS_LATENCY = 2
    BY Numbers DEF Types
  <2>2. dq_out' = [i \in 0 .. 2 |->
          IF command.c = "READ" /\ i >= 1 THEN <<command.ba, i - 1>>
          ELSE IF i + 1 \in 0 .. 2 THEN dq_out[i + 1] ELSE NONE]
    BY <2>1 DEF ChipClock
  <2>3. QED
    BY <2>2
<1>11. /\ age' = [b \in Bank |-> age'[b]]
       /\ closing' = [b \in Bank |-> closing'[b]]
  BY DEF ChipClock
<1>12. QED
  BY <1>3, <1>4, <1>5, <1>6, <1>7, <1>8, <1>9, <1>10, <1>11

-----------------------------------------------------------------------------
(* The schedule keeps its form.                                            *)
LEMMA ScheduleStays ==
  ASSUME Types, Schedule, Ownership, DataBusTaken, SchedulerClock
  PROVE  Schedule'
<1>1. CASE \E b \in Bank : Begins(b)
  <2>1. PICK b \in Bank : Begins(b)
    BY <1>1
  <2>2. creq(b) \in {{0}, {0, 1}}
    BY <2>1, Asks DEF Begins
  <2>3. /\ bbssch' = [i \in 0 .. 3 |-> IF i \in creq(b) THEN b ELSE FREE]
        /\ bbscact' = creq(b) /\ bbsba_d' = b
    BY <2>1, SchedulerStep DEF Begins
  <2>4. b # FREE
    BY Numbers
  <2>5. QED
    BY <2>2, <2>3, <2>4 DEF Schedule
<1>2. CASE \A b \in Bank : ~Begins(b)
  <2>1. /\ bbssch' = [i \in 0 .. 3 |-> IF i = 0 THEN bbssch[1] ELSE FREE]
        /\ bbscact' = (IF bbssch[1] = FREE THEN {} ELSE {0}) /\ bbsba_d' = bbsba
    BY <1>2, SchedulerStep
  <2>2. bbssch[1] # FREE => bbssch[1] = bbsba
    BY Selection DEF Schedule
  <2>3. QED
    BY <2>1, <2>2 DEF Schedule
<1>3. QED
  BY <1>1, <1>2

(* The first two places of the schedule a cycle later.                     *)
LEMMA NextPlaces ==
  ASSUME Types, Schedule, Ownership, DataBusTaken, SchedulerClock
  PROVE  /\ \A b \in Bank : Begins(b) =>
              /\ bbssch'[0] = b /\ bbssch[0] = FREE /\ bbssch[1] = FREE
              /\ bbssch'[1] = IF st[b] = "IDLE" THEN FREE ELSE b
              /\ st[b] \in {"IDLE", "ACT_WAIT"}
         /\ (\A b \in Bank : ~Begins(b)) =>
              bbssch'[0] = bbssch[1] /\ bbssch'[1] = FREE
<1>1. ASSUME NEW b \in Bank, Begins(b)
      PROVE  /\ bbssch'[0] = b /\ bbssch[0] = FREE /\ bbssch[1] = FREE
             /\ bbssch'[1] = IF st[b] = "IDLE" THEN FREE ELSE b
             /\ st[b] \in {"IDLE", "ACT_WAIT"}
  <2>1. /\ bbssch' = [i \in 0 .. 3 |-> IF i \in creq(b) THEN b ELSE FREE]
        /\ bbssch[0] = FREE
    BY <1>1, SchedulerStep, Selection
  <2>2. \/ st[b] = "IDLE" /\ creq(b) = {0}
        \/ st[b] = "ACT_WAIT" /\ creq(b) = {0, 1}
    BY <1>1, Asks DEF Begins
  <2>3. QED
    BY <2>1, <2>2 DEF Schedule
<1>2. ASSUME \A b \in Bank : ~Begins(b)
      PROVE  bbssch'[0] = bbssch[1] /\ bbssch'[1] = FREE
  BY <1>2, SchedulerStep
<1>3. QED
  BY <1>1, <1>2

(* Banks and schedule stay in step.                                        *)
LEMMA OwnershipStays ==
  ASSUME Types, Schedule, Ownership, DataBusTaken, SchedulerClock, BanksClock
  PROVE  Ownership'
<1> SUFFICES ASSUME NEW d \in Bank
             PROVE  /\ st'[d] \in {"R_CMD", "W_CMD"} => bbssch'[0] = d /\ bbssch'[1] = d
                    /\ st'[d] \in {"ACT", "R_DQM", "W_CMD_2"} =>
                         bbssch'[0] = d /\ bbssch'[1] = FREE
                    /\ bbssch'[0] = d => st'[d] \in Owning
                    /\ bbssch'[1] = d => st'[d] \in {"R_CMD", "W_CMD"}
                    /\ st'[d] = "W_CMD_2" => BEATS(d) = 2
                    /\ st'[d] = "R" => wcnt'[d] \in {0, 1}
  BY DEF Ownership, BEATS
<1>0. d # FREE /\ st[d] \in States /\ wcnt[d] \in 0 .. 15
  BY Numbers DEF Types, TypeOK
<1>1. CASE Begins(d)
  <2>1. /\ bbssch'[0] = d
        /\ bbssch'[1] = IF st[d] = "IDLE" THEN FREE ELSE d
        /\ st[d] \in {"IDLE", "ACT_WAIT"}
    BY <1>1, NextPlaces
  <2>2. st'[d] = IF st[d] = "IDLE" THEN "ACT" ELSE IF rnw[d] THEN "R_CMD" ELSE "W_CMD"
    BY <1>1, <2>1, BankStep
  <2>3. QED
    BY <1>0, <2>1, <2>2 DEF Owning
<1>2. CASE ~Begins(d) /\ bbssch[0] # d
  <2>1. bbssch'[0] # d /\ bbssch'[1] # d
    BY <1>0, <1>2, NextPlaces DEF Schedule
  <2>2. st[d] \in {"IDLE", "ACT_WAIT", "R", "W_REC", "PRE"}
    BY <1>0, <1>2 DEF Ownership, States
  <2>3. st'[d] \in {"IDLE", "ACT_WAIT", "R", "W_REC", "PRE"}
    BY <1>2, <2>2, BankStep
  <2>4. st'[d] = "R" => wcnt'[d] \in {0, 1}
    BY <1>0, <1>2, <2>2, BankStep DEF Ownership, Down
  <2>5. QED
    BY <2>1, <2>3, <2>4
<1>3. CASE ~Begins(d) /\ bbssch[0] = d
  <2>1. bbssch'[0] = bbssch[1] /\ bbssch'[1] = FREE
    BY <1>0, <1>3, NextPlaces
  <2>2. st[d] \in Owning
    BY <1>3 DEF Ownership
  <2>3. CASE st[d] \in {"R_CMD", "W_CMD"}
    <3>1. bbssch'[0] = d
      BY <2>1, <2>3 DEF Ownership
    <3>2. /\ st'[d] \in {"R_DQM", "W_CMD_2", "W_REC"}
          /\ st'[d] = "W_CMD_2" => BEATS(d) = 2
      BY <2>3, BankStep
    <3>3. QED
      BY <1>0, <2>1, <3>1, <3>2 DEF Owning
  <2>4. CASE st[d] \notin {"R_CMD", "W_CMD"}
    <3>1. bbssch'[0] # d
      BY <2>1, <2>4 DEF Ownership
    <3>2. /\ st'[d] \in {"ACT_WAIT", "R", "W_REC", "PRE"}
          /\ st'[d] = "R" => wcnt'[d] = 1
      BY <2>2, <2>4, BankStep DEF Owning
    <3>3. QED
      BY <1>0, <2>1, <3>1, <3>2
  <2>5. QED
    BY <2>3, <2>4
<1>4. QED
  BY <1>1, <1>2, <1>3

(* A bank that has a read just behind it had it in the cycle before.       *)
LEMMA ReadJustSent ==
  ASSUME Types, Schedule, Ownership, DataBusTaken, SchedulerClock, BanksClock,
         NEW d \in Bank
  PROVE  /\ st'[d] = "R_DQM" <=> st[d] = "R_CMD"
         /\ st'[d] = "R" /\ wcnt'[d] = 1 <=> st[d] = "R_DQM"
         /\ st'[d] = "R" /\ wcnt'[d] = 0 <=> st[d] = "R" /\ wcnt[d] = 1
         /\ st'[d] = "R_CMD" <=> Begins(d) /\ st[d] = "ACT_WAIT" /\ rnw[d]
         /\ st'[d] = "W_CMD" <=> Begins(d) /\ st[d] = "ACT_WAIT" /\ ~rnw[d]
         /\ st'[d] = "W_CMD_2" <=> st[d] = "W_CMD" /\ BEATS(d) = 2
         /\ st'[d] = "ACT" <=> Begins(d) /\ st[d] = "IDLE"
         /\ st'[d] = "ACT_WAIT" <=> st[d] = "ACT" \/ (st[d] = "ACT_WAIT" /\ ~Begins(d))
<1>1. st[d] \in States /\ (st[d] = "R" => wcnt[d] \in {0, 1})
  BY DEF Types, TypeOK, Ownership
<1>2. CASE st[d] \in {"IDLE", "ACT", "ACT_WAIT"}
  BY <1>2, BankStep
<1>3. CASE st[d] \in {"R_CMD", "R_DQM"}
  BY <1>3, BankStep
<1>4. CASE st[d] = "R"
  BY <1>1, <1>4, BankStep DEF Down
<1>5. CASE st[d] \in {"W_CMD", "W_CMD_2", "W_REC", "PRE"}
  BY <1>5, BankStep
<1>6. QED
  BY <1>1, <1>2, <1>3, <1>4, <1>5 DEF States

(* The data bus stays as taken as the banks need it.                       *)
LEMMA DataBusStays ==
  ASSUME Types, Schedule, Ownership, DataBusTaken, SchedulerClock, BanksClock
  PROVE  DataBusTaken'
<1>0. bbsdact \subseteq 0 .. 4 /\ bbssch[0] \in Bank \cup {FREE} /\ bbsba_d \in Bank
  BY DEF Types, TypeOK
<1>1. \A i : i \in Shift(bbsdact) <=> i \in 0 .. 3 /\ i + 1 \in bbsdact
  BY <1>0, Shifted
<1>2. Ownership'
  BY OwnershipStays
<1>3. CASE \E b \in Bank : Begins(b)
  <2>1. PICK b \in Bank : Begins(b)
    BY <1>3
  <2>2. /\ bbssch'[0] = b /\ b # FREE /\ bbssch[0] = FREE
        /\ st[b] \in {"IDLE", "ACT_WAIT"}
        /\ bbsdact' = Shift(bbsdact) \cup dreq(b)
    BY <2>1, NextPlaces, SchedulerStep, Numbers
  <2>3. \A d \in Bank : st[d] \notin {"R_CMD", "R_DQM"}
    BY <2>2, Numbers DEF Ownership
  <2>4. Shift(bbsdact) \in {{}, {0}}
    BY <1>1, <2>3 DEF DataBusTaken
  <2>5. \A d \in Bank \ {b} : st'[d] \notin {"ACT", "R_CMD", "R_DQM"}
    BY <1>2, <2>2 DEF Ownership
  <2>6. \A d \in Bank : ~(st'[d] = "R" /\ wcnt'[d] = 1)
    BY <2>3, ReadJustSent
  <2>7. creq(b) # {}
    BY <2>1 DEF Begins
  <2>8. CASE st[b] = "IDLE"
    <3>1. st'[b] = "ACT" /\ dreq(b) = {}
      BY <2>1, <2>7, <2>8, BankStep, Asks
    <3>2. QED
      BY <2>2, <2>4, <2>5, <2>6, <3>1 DEF DataBusTaken
  <2>9. CASE st[b] = "ACT_WAIT" /\ rnw[b]
    <3>1. st'[b] = "R_CMD" /\ dreq(b) = {2, 3}
      BY <2>1, <2>7, <2>9, BankStep, Asks
    <3>2. QED
      BY <2>2, <2>4, <2>5, <2>6, <3>1 DEF DataBusTaken
  <2>10. CASE st[b] = "ACT_WAIT" /\ ~rnw[b]
    <3>1. st'[b] = "W_CMD" /\ dreq(b) \subseteq {0, 1}
      BY <2>1, <2>7, <2>10, BankStep, Asks
    <3>2. QED
      BY <2>2, <2>4, <2>5, <2>6, <3>1 DEF DataBusTaken
  <2>11. QED
    BY <2>2, <2>8, <2>9, <2>10
<1>4. CASE \A b \in Bank : ~Begins(b)
  <2>1. bbsdact' = Shift(bbsdact) /\ bbsba_d' = bbsba
    BY <1>4, SchedulerStep
  <2>2. ASSUME bbssch'[0] = FREE, st'[bbsba_d'] = "ACT_WAIT" PROVE bbsdact' = {}
    <3>1. bbsba \in Bank
      BY Selection
    <3>2. st[bbsba] = "ACT" \/ st[bbsba] = "ACT_WAIT"
      BY <2>1, <2>2, <3>1, ReadJustSent
    <3>3. CASE st[bbsba] = "ACT"
      BY <1>0, <1>1, <2>1, <3>1, <3>3 DEF DataBusTaken
    <3>4. CASE st[bbsba] = "ACT_WAIT"
      <4>1. bbssch[0] = FREE
        BY <1>0, <3>1, <3>4, Selection DEF Ownership, Owning
      <4>2. bbsba = bbsba_d
        BY <1>4, <3>1, <4>1, Selection
      <4>3. QED
        BY <1>1, <2>1, <3>4, <4>1, <4>2 DEF DataBusTaken
    <3>5. QED
      BY <3>2, <3>3, <3>4
  <2>3. ASSUME NEW d \in Bank
        PROVE  /\ st'[d] = "ACT" => bbsdact' \subseteq {0}
               /\ st'[d] = "R_CMD" => bbsdact' \in {{2, 3}, {0, 2, 3}}
               /\ st'[d] = "R_DQM" => bbsdact' = {1, 2}
               /\ st'[d] = "R" /\ wcnt'[d] = 1 => 0 \in bbsdact'
    <3>1. st'[d] # "ACT" /\ st'[d] # "R_CMD"
      BY <1>4, ReadJustSent
    <3>2. ASSUME st'[d] = "R_DQM" PROVE bbsdact' = {1, 2}
      <4>1. bbsdact \in {{2, 3}, {0, 2, 3}}
        BY <3>2, ReadJustSent DEF DataBusTaken
      <4>2. \A i : i \in Shift(bbsdact) <=> i \in {1, 2}
        BY <1>1, <4>1
      <4>3. QED
        BY <2>1, <4>2
    <3>3. ASSUME st'[d] = "R", wcnt'[d] = 1 PROVE 0 \in bbsdact'
      <4>1. bbsdact = {1, 2}
        BY <3>3, ReadJustSent DEF DataBusTaken
      <4>2. QED
        BY <1>1, <2>1, <4>1
    <3>4. QED
      BY <3>1, <3>2, <3>3
  <2>4. ASSUME \A b \in Bank : st'[b] \notin {"R_CMD", "R_DQM"}
        PROVE  bbsdact' \subseteq {0, 1}
    <3>1. \A b \in Bank : st[b] # "R_CMD"
      BY <2>4, ReadJustSent
    <3>2. CASE \E b \in Bank : st[b] = "R_DQM"
      BY <1>1, <2>1, <3>2 DEF DataBusTaken
    <3>3. CASE \A b \in Bank : st[b] # "R_DQM"
      <4>1. bbsdact \subseteq {0, 1}
        BY <3>1, <3>3 DEF DataBusTaken
      <4>2. QED
        BY <1>1, <2>1, <4>1
    <3>4. QED
      BY <3>2, <3>3
  <2>5. QED
    BY <2>2, <2>3, <2>4 DEF DataBusTaken
<1>5. QED
  BY <1>3, <1>4

(* The banks stay idle through a refresh.                                  *)
LEMMA StoppedStays ==
  ASSUME Types, Schedule, Ownership, DataBusTaken, Stopped, SchedulerClock, BanksClock,
         Active \/ Refresh
  PROVE  Stopped'
<1> SUFFICES ASSUME state' = "REFRESH"
             PROVE  refresh_wait' >= 1 /\ \A b \in Bank : st'[b] = "IDLE"
  BY DEF Stopped
<1>1. /\ refresh_wait' >= 1
      /\ \A b \in Bank : st[b] = "IDLE"
      /\ bapause
  <2>1. CASE Active
    BY <2>1, Numbers DEF Active, baidle, bapause
  <2>2. CASE Refresh
    <3>1. refresh_wait >= 1 /\ refresh_wait \in 0 .. TRC_MIN
      BY <2>2 DEF Refresh, Stopped, Types, TypeOK
    <3>2. refresh_wait = TRC_MIN \/ refresh_wait # 1
      BY <2>2 DEF Refresh
    <3>3. refresh_wait' >= 1
      BY <2>2, <3>1, <3>2, Numbers DEF Refresh
    <3>4. QED
      BY <2>2, <3>3 DEF Refresh, Stopped, bapause
  <2>3. QED
    BY <2>1, <2>2
<1>2. \A b \in Bank : ~Begins(b)
  BY <1>1, Asks DEF Begins
<1>3. QED
  BY <1>1, <1>2, BankStep

(* A counter that counts down stays in its bounds.                         *)
LEMMA CountsDown ==
  ASSUME NEW m \in Nat, NEW n \in 0 .. m
  PROVE  Down(n) \in 0 .. m
BY DEF Down

(* Every register keeps to its kind.                                       *)
LEMMA TypesStay ==
  ASSUME Types, Schedule, Ownership, DataBusTaken, Stopped, Next
  PROVE  Types'
<1> USE DEF Next
<1>0. load' = load /\ load \in Loads /\ load.gap \in Nat /\ load.spacing \in Nat
  BY SdramAssumption DEF Types
<1>1. rq' \in [Bank -> BOOLEAN] /\ ready' \in [Bank -> BOOLEAN]
  <2>1. rq' = [b \in Bank |-> (rq[b] /\ ~rqc(b)) \/ REQ(b)]
    BY DEF BanksClock
  <2>2. ready' = [b \in Bank |-> 0 \in data_ready_delay[b] \/ (Selected(b) /\ LastBeat(b))]
    BY DEF BanksClock
  <2>3. \A b \in Bank : /\ ((rq[b] /\ ~rqc(b)) \/ REQ(b)) \in BOOLEAN
                        /\ (0 \in data_ready_delay[b] \/ (Selected(b) /\ LastBeat(b))) \in BOOLEAN
    OBVIOUS
  <2>4. QED
    BY <2>1, <2>2, <2>3
<1>2. rnw' \in [Bank -> BOOLEAN] /\ open_req' \in [Bank -> BOOLEAN]
  BY DEF Clients
<1>3. \A b \in Bank : st'[b] \in States /\ wcnt'[b] \in 0 .. 15
  <2> SUFFICES ASSUME NEW b \in Bank PROVE st'[b] \in States /\ wcnt'[b] \in 0 .. 15
    OBVIOUS
  <2>1. wcnt[b] \in 0 .. 15 /\ st[b] \in States
    BY DEF Types, TypeOK
  <2>2. Down(wcnt[b]) \in 0 .. 15
    BY <2>1, CountsDown
  <2>3. /\ TRCD_MIN - 2 \in 0 .. 15 /\ TWR_MIN - 1 \in 0 .. 15 /\ TRP_MIN - 2 \in 0 .. 15
        /\ TRP_MIN # 2 => TRP_MIN - 3 \in 0 .. 15
    BY Numbers, TimingAssumption
  <2>4. st'[b] = stn(b).st /\ wcnt'[b] = stn(b).wcnt
    BY DEF BanksClock
  <2>5. stn(b).wcnt \in 0 .. 15
    BY <2>1, <2>2, <2>3, Numbers DEF stn, Goto, States
  <2>6. stn(b).st \in States
    BY <2>1 DEF stn, Goto, States
  <2>7. QED
    BY <2>4, <2>5, <2>6
<1>4. st' \in [Bank -> States] /\ wcnt' \in [Bank -> 0 .. 15]
  BY <1>3 DEF BanksClock
<1>5. \A b \in Bank : data_ready_delay'[b] \subseteq 0 .. CAS_LATENCY + BEATS(b)
  <2> SUFFICES ASSUME NEW b \in Bank
               PROVE  data_ready_delay'[b] \subseteq 0 .. CAS_LATENCY + BEATS(b)
    OBVIOUS
  <2>1. CAS_LATENCY + BEATS(b) \in 3 .. 4 /\ ReadLatency(b) = CAS_LATENCY + BEATS(b)
    BY Numbers DEF BEATS, ReadLatency
  <2>2. data_ready_delay[b] \subseteq 0 .. 4
        /\ data_ready_delay[b] \subseteq 0 .. CAS_LATENCY + BEATS(b)
    BY <2>1 DEF Types, TypeOK
  <2>3. Shift(data_ready_delay[b]) \subseteq 0 .. CAS_LATENCY + BEATS(b)
    BY <2>1, <2>2, Shifted
  <2>4. data_ready_delay'[b] = Shift(data_ready_delay[b])
          \cup (IF Selected(b) /\ st[b] = "R_CMD" THEN {ReadLatency(b)} ELSE {})
    BY DEF BanksClock
  <2>5. QED
    BY <2>1, <2>3, <2>4
<1>6. state' \in {"ACTIVE", "REFRESH"} /\ refresh_wait' \in 0 .. TRC_MIN
  <2>1. CASE Active
    BY <2>1, Numbers DEF Active, Types, TypeOK
  <2>2. CASE Refresh
    <3>1. refresh_wait \in 0 .. TRC_MIN /\ refresh_wait >= 1
      BY <2>2 DEF Refresh, Stopped, Types, TypeOK
    <3>2. state' \in {"ACTIVE", "REFRESH"} /\ refresh_wait' = refresh_wait - 1
      BY <2>2 DEF Refresh
    <3>3. QED
      BY <3>1, <3>2, Numbers
  <2>3. QED
    BY <2>1, <2>2
<1>7. refresh_due' \in BOOLEAN /\ refresh_sys' \in BOOLEAN
  BY DEF Active, Refresh, Types, TypeOK
<1>8. gap' \in 0 .. load.gap
  <2>1. gap' \in {load.gap, Down(gap)}
    BY DEF Active, Refresh, RefreshRequests
  <2>2. QED
    BY <1>0, <2>1, CountsDown DEF Types, TypeOK
<1>9. pace' \in 0 .. load.spacing + LINE_END
  <2>1. pace \in 0 .. load.spacing + LINE_END
    BY DEF Types, TypeOK
  <2>2. CASE pace # 0
    BY <1>0, <2>1, <2>2 DEF Clients, LINE_END
  <2>3. CASE pace = 0 /\ load.spacing = 0
    BY <2>3 DEF Clients, LINE_END
  <2>4. CASE pace = 0 /\ load.spacing # 0
    BY <1>0, <2>4 DEF Clients, LINE_END
  <2>5. QED
    BY <2>2, <2>3, <2>4
<1>10. bbsba_d' \in Bank
  BY SchedulerStep, Selection
<1>11. /\ bbssch' \in [0 .. 3 -> Bank \cup {FREE}]
       /\ bbscact' \subseteq 0 .. 3 /\ bbsdact' \subseteq 0 .. 3
  <2>0. bbsdact \subseteq 0 .. 4 /\ bbssch[1] \in Bank \cup {FREE}
    BY DEF Types, TypeOK
  <2>1. Shift(bbsdact) \subseteq 0 .. 3
    BY <2>0, Shifted
  <2>2. CASE \E b \in Bank : Begins(b)
    <3>1. PICK b \in Bank : Begins(b)
      BY <2>2
    <3>2. creq(b) \subseteq {0, 1} /\ dreq(b) \subseteq 0 .. 3
      <4>1. creq(b) # {}
        BY <3>1 DEF Begins
      <4>2. st[b] = "IDLE" \/ st[b] = "ACT_WAIT"
        BY <4>1, Asks
      <4>3. rnw[b] \/ ~rnw[b]
        OBVIOUS
      <4>4. QED
        BY <4>1, <4>2, <4>3, Asks
    <3>3. QED
      BY <2>1, <3>1, <3>2, SchedulerStep
  <2>3. CASE \A b \in Bank : ~Begins(b)
    BY <2>0, <2>1, <2>3, SchedulerStep
  <2>4. QED
    BY <2>2, <2>3
<1>12. command' \in Commands /\ (command'.c = "READ" => command'.ap)
  BY CommandStep
<1>13. /\ row_open' \subseteq Bank /\ age' \in [Bank -> 0 .. TRC_MIN]
       /\ closing' \in [Bank -> Nat] /\ prechg' \in Nat /\ auto_refresh' \in Nat
       /\ DOMAIN dq_out' = 0 .. 2
  BY ChipStep DEF Down
<1>14. Bank \subseteq 0 .. 3
  BY Numbers
<1>15. TypeOK'
  BY <1>0, <1>1, <1>2, <1>4, <1>5, <1>6, <1>7, <1>8, <1>9, <1>10, <1>11, <1>14 DEF TypeOK, BEATS
<1>16. QED
  BY <1>0, <1>10, <1>12, <1>13, <1>15 DEF Types

(* What the banks have sent stays where their states say.                  *)
LEMMA SentStays ==
  ASSUME Controller, Next
  PROVE  Sent'
<1> USE DEF Next, Controller
<1> SUFFICES ASSUME NEW b \in Bank
             PROVE  /\ st'[b] = "R_DQM" <=> command'.c = "READ" /\ command'.ba = b
                    /\ st'[b] \in {"IDLE", "ACT", "R", "R_CMD"} =>
                         ~(command'.c \in {"READ", "WRITE"} /\ command'.ba = b)
                    /\ command'.c = "ACTIVE" /\ command'.ba = b => st'[b] = "ACT_WAIT"
                    /\ command'.c = "WRITE" /\ command'.ba = b =>
                         st'[b] = (IF BEATS(b) = 1 \/ command'.ap THEN "W_REC" ELSE "W_CMD_2")
                    /\ command'.c = "WRITE" /\ command'.ba = b /\ BEATS(b) = 1 => command'.ap
  BY DEF Sent, Activated, BEATS
<1>1. st'[b] = "R_DQM" <=> command'.c = "READ" /\ command'.ba = b
  BY ReadJustSent, CommandStep
<1>2. command'.c = "ACTIVE" /\ command'.ba = b => st'[b] = "ACT_WAIT"
  BY CommandStep, BankStep
<1>3. ASSUME command'.c = "WRITE", command'.ba = b
      PROVE  /\ st'[b] = (IF BEATS(b) = 1 \/ command'.ap THEN "W_REC" ELSE "W_CMD_2")
             /\ BEATS(b) = 1 => command'.ap
  <2>1. st[b] \in {"W_CMD", "W_CMD_2"}
    BY <1>3, CommandStep
  <2>2. CASE st[b] = "W_CMD"
    <3>1. command'.ap <=> BEATS(b) = 1
      BY <2>2, CommandStep
    <3>2. IF BEATS(b) = 2 THEN st'[b] = "W_CMD_2" ELSE st'[b] = "W_REC"
      BY <2>2, BankStep
    <3>3. QED
      BY <3>1, <3>2 DEF BEATS
  <2>3. CASE st[b] = "W_CMD_2"
    <3>1. BEATS(b) = 2 /\ (command'.ap <=> BEATS(b) = 2)
      BY <2>3, CommandStep DEF Ownership
    <3>2. st'[b] = "W_REC"
      BY <2>3, BankStep
    <3>3. QED
      BY <3>1, <3>2
  <2>4. QED
    BY <2>1, <2>2, <2>3
<1>4. QED
  BY <1>1, <1>2, <1>3

(* The row of a bank as its state moves on.                                *)
LEMMA RowStep ==
  ASSUME Controller, Next, NEW b \in Bank
  PROVE  /\ Opened(b)' <=> \/ st[b] = "ACT"
                           \/ /\ Opened(b) /\ st[b] \notin {"R_CMD", "W_CMD_2"}
                              /\ ~(st[b] = "W_CMD" /\ BEATS(b) = 1)
         /\ Age(b)' = IF st[b] = "ACT" THEN 0
                      ELSE IF Age(b) < TRC_MIN THEN Age(b) + 1 ELSE Age(b)
         /\ Closing(b)' =
              IF st[b] = "R_CMD" THEN TRP_MIN + 2
              ELSE IF st[b] = "W_CMD_2" \/ (st[b] = "W_CMD" /\ BEATS(b) = 1)
              THEN TWR_MIN + TRP_MIN ELSE Down(Closing(b))
         /\ Age(b) \in 0 .. TRC_MIN /\ Closing(b) \in Nat
<1> USE DEF Next, Controller
<1>1. /\ st[b] = "ACT" <=> Activated(b)'
      /\ Accessed(b)' /\ command'.ap <=>
           \/ st[b] \in {"R_CMD", "W_CMD_2"}
           \/ st[b] = "W_CMD" /\ BEATS(b) = 1
      /\ Accessed(b)' => (command'.c = "READ" <=> st[b] = "R_CMD")
  <2>1. /\ st[b] = "ACT" <=> Activated(b)'
        /\ Accessed(b)' <=> st[b] \in {"R_CMD", "W_CMD", "W_CMD_2"}
        /\ Accessed(b)' => (command'.c = "READ" <=> st[b] = "R_CMD")
    BY CommandStep DEF Activated, Accessed
  <2>2. /\ st[b] = "R_CMD" => command'.ap
        /\ st[b] = "W_CMD" => (command'.ap <=> BEATS(b) = 1)
        /\ st[b] = "W_CMD_2" => command'.ap
    BY CommandStep DEF Ownership
  <2>3. QED
    BY <2>1, <2>2
<1>2. /\ b \in row_open' <=> Opened(b)
      /\ Age(b) \in 0 .. TRC_MIN /\ Closing(b) \in Nat
      /\ age'[b] = IF Age(b) < TRC_MIN THEN Age(b) + 1 ELSE Age(b)
      /\ closing'[b] = Down(Closing(b))
  BY ChipStep
<1>3. Opened(b)' <=> Activated(b)' \/ (Opened(b) /\ ~(Accessed(b)' /\ command'.ap))
  BY <1>2 DEF Opened
<1>4. Age(b)' = IF Activated(b)' THEN 0 ELSE age'[b]
  BY DEF Age
<1>5. Closing(b)' = IF Accessed(b)' /\ command'.ap
                    THEN (IF command'.c = "READ" THEN 2 ELSE TWR_MIN) + TRP_MIN
                    ELSE closing'[b]
  BY Numbers DEF Closing, ToPrecharge
<1>6. QED
  BY <1>1, <1>2, <1>3, <1>4, <1>5, Numbers

(* A counter that counts down, as a number.                                *)
LEMMA DownIs ==
  ASSUME NEW n \in Nat
  PROVE  Down(n) \in Nat /\ (n = 0 => Down(n) = 0) /\ (n # 0 => Down(n) = n - 1)
BY DEF Down

(* Row, age and precharge stay as far as the state of the bank promises.   *)
LEMMA RowsStay ==
  ASSUME Controller, Sent, Rows, Next
  PROVE  Rows'
<1> USE DEF Next, Controller
<1>1. ASSUME NEW b \in Bank PROVE RowOf(b)'
  <2> DEFINE O == Opened(b)
             A == Age(b)
             C == Closing(b)
  <2>1. /\ O' <=> \/ st[b] = "ACT"
                  \/ /\ O /\ st[b] \notin {"R_CMD", "W_CMD_2"}
                     /\ ~(st[b] = "W_CMD" /\ BEATS(b) = 1)
        /\ A' = IF st[b] = "ACT" THEN 0 ELSE IF A < TRC_MIN THEN A + 1 ELSE A
        /\ C' = IF st[b] = "R_CMD" THEN TRP_MIN + 2
                ELSE IF st[b] = "W_CMD_2" \/ (st[b] = "W_CMD" /\ BEATS(b) = 1)
                THEN TWR_MIN + TRP_MIN ELSE Down(C)
        /\ A \in 0 .. TRC_MIN /\ C \in Nat
    BY RowStep
  <2>2. /\ O <=> st[b] \in {"ACT_WAIT", "R_CMD", "W_CMD", "W_CMD_2"}
        /\ C <= (CASE st[b] = "IDLE" -> 1
                   [] st[b] = "PRE" -> wcnt[b] + 2
                   [] st[b] = "R_DQM" -> TRP_MIN + 2
                   [] st[b] = "R" -> TRP_MIN + wcnt[b]
                   [] st[b] = "W_REC" -> TRP_MIN + wcnt[b] + 1
                   [] OTHER -> 0)
        /\ A >= (CASE st[b] = "IDLE" -> TRC_MIN - 2
                   [] st[b] = "PRE" -> TRC_MIN - wcnt[b] - 3
                   [] st[b] = "ACT" -> TRC_MIN - 1
                   [] st[b] = "ACT_WAIT" -> TRCD_MIN - 2 - wcnt[b]
                   [] st[b] \in {"R_CMD", "W_CMD", "W_CMD_2"} -> TRCD_MIN - 1
                   [] st[b] = "R_DQM" -> TRC_MIN - TRP_MIN - 3
                   [] st[b] = "R" -> TRC_MIN - TRP_MIN - wcnt[b] - 1
                   [] OTHER -> TRC_MIN - TRP_MIN - wcnt[b] - 2)
    BY DEF Rows, RowOf
  <2>3. SUFFICES
          /\ O' <=> st'[b] \in {"ACT_WAIT", "R_CMD", "W_CMD", "W_CMD_2"}
          /\ C' <= (CASE st'[b] = "IDLE" -> 1
                      [] st'[b] = "PRE" -> wcnt'[b] + 2
                      [] st'[b] = "R_DQM" -> TRP_MIN + 2
                      [] st'[b] = "R" -> TRP_MIN + wcnt'[b]
                      [] st'[b] = "W_REC" -> TRP_MIN + wcnt'[b] + 1
                      [] OTHER -> 0)
          /\ A' >= (CASE st'[b] = "IDLE" -> TRC_MIN - 2
                      [] st'[b] = "PRE" -> TRC_MIN - wcnt'[b] - 3
                      [] st'[b] = "ACT" -> TRC_MIN - 1
                      [] st'[b] = "ACT_WAIT" -> TRCD_MIN - 2 - wcnt'[b]
                      [] st'[b] \in {"R_CMD", "W_CMD", "W_CMD_2"} -> TRCD_MIN - 1
                      [] st'[b] = "R_DQM" -> TRC_MIN - TRP_MIN - 3
                      [] st'[b] = "R" -> TRC_MIN - TRP_MIN - wcnt'[b] - 1
                      [] OTHER -> TRC_MIN - TRP_MIN - wcnt'[b] - 2)
    BY DEF RowOf
  <2> HIDE DEF O, A, C
  <2>4. wcnt[b] \in Nat /\ st[b] \in States /\ (st[b] = "R" => wcnt[b] \in {0, 1})
    BY DEF Types, TypeOK, Ownership
  <2>5. /\ C = 0 => Down(C) = 0
        /\ C # 0 => Down(C) = C - 1
        /\ wcnt[b] # 0 => Down(wcnt[b]) = wcnt[b] - 1
        /\ wcnt[b] = 0 => Down(wcnt[b]) = 0
    BY <2>1, <2>4, DownIs
  <2>6. TRC_MIN >= TRCD_MIN /\ TRC_MIN <= TRCD_MIN + TRP_MIN + 3
        /\ TRC_MIN <= TRCD_MIN + TRP_MIN + TWR_MIN + 1
    BY TimingAssumption
  <2>7. CASE st[b] = "IDLE"
    <3>1. st'[b] \in {"IDLE", "ACT"}
      BY <2>7, BankStep
    <3>2. QED
      BY <2>1, <2>2, <2>5, <2>7, <3>1, Numbers
  <2>8. CASE st[b] = "ACT"
    <3>1. st'[b] = "ACT_WAIT" /\ wcnt'[b] = TRCD_MIN - 2
      BY <2>8, BankStep
    <3>2. QED
      BY <2>1, <2>2, <2>5, <2>8, <3>1, Numbers
  <2>9. CASE st[b] = "ACT_WAIT"
    <3>1. \/ st'[b] \in {"R_CMD", "W_CMD"} /\ wcnt[b] = 0
          \/ st'[b] = "ACT_WAIT" /\ wcnt'[b] = Down(wcnt[b])
      BY <2>9, BankStep, Asks DEF Begins
    <3>2. QED
      BY <2>1, <2>2, <2>4, <2>5, <2>6, <2>9, <3>1, Numbers
  <2>10. CASE st[b] = "R_CMD"
    <3>1. st'[b] = "R_DQM"
      BY <2>10, BankStep
    <3>2. QED
      BY <2>1, <2>2, <2>6, <2>10, <3>1, Numbers
  <2>11. CASE st[b] = "R_DQM"
    <3>1. st'[b] = "R" /\ wcnt'[b] = 1
      BY <2>11, BankStep
    <3>2. QED
      BY <2>1, <2>2, <2>5, <2>6, <2>11, <3>1, Numbers
  <2>12. CASE st[b] = "R"
    <3>1. \/ wcnt[b] = 0 /\ st'[b] = "IDLE" /\ TRP_MIN = 2
          \/ wcnt[b] = 0 /\ st'[b] = "PRE" /\ wcnt'[b] = TRP_MIN - 3
          \/ wcnt[b] = 1 /\ st'[b] = "R" /\ wcnt'[b] = 0
      BY <2>4, <2>5, <2>12, BankStep
    <3>2. QED
      BY <2>1, <2>2, <2>5, <2>6, <2>12, <3>1, Numbers
  <2>13. CASE st[b] = "W_CMD"
    <3>1. \/ BEATS(b) = 2 /\ st'[b] = "W_CMD_2"
          \/ BEATS(b) = 1 /\ st'[b] = "W_REC" /\ wcnt'[b] = TWR_MIN - 1
      BY <2>13, BankStep DEF BEATS
    <3>2. QED
      BY <2>1, <2>2, <2>5, <2>6, <2>13, <3>1, Numbers
  <2>14. CASE st[b] = "W_CMD_2"
    <3>1. st'[b] = "W_REC" /\ wcnt'[b] = TWR_MIN - 1
      BY <2>14, BankStep
    <3>2. QED
      BY <2>1, <2>2, <2>5, <2>6, <2>14, <3>1, Numbers
  <2>15. CASE st[b] = "W_REC"
    <3>1. \/ wcnt[b] = 0 /\ st'[b] = "PRE" /\ wcnt'[b] = TRP_MIN - 2
          \/ wcnt[b] # 0 /\ st'[b] = "W_REC" /\ wcnt'[b] = wcnt[b] - 1
      BY <2>5, <2>15, BankStep
    <3>2. QED
      BY <2>1, <2>2, <2>4, <2>5, <2>6, <2>15, <3>1, Numbers
  <2>16. CASE st[b] = "PRE"
    <3>1. \/ wcnt[b] = 0 /\ st'[b] = "IDLE"
          \/ wcnt[b] # 0 /\ st'[b] = "PRE" /\ wcnt'[b] = wcnt[b] - 1
      BY <2>5, <2>16, BankStep
    <3>2. QED
      BY <2>1, <2>2, <2>4, <2>5, <2>16, <3>1, Numbers
  <2>17. QED
    BY <2>4, <2>7, <2>8, <2>9, <2>10, <2>11, <2>12, <2>13, <2>14, <2>15, <2>16 DEF States
<1>2. ASSUME state' = "REFRESH", refresh_wait' = TRC_MIN, NEW b \in Bank
      PROVE  Closing(b)' = 0 /\ Age(b)' >= TRC_MIN - 1
  <2>1. ~Refresh
    <3>1. SUFFICES ASSUME Refresh PROVE FALSE
      OBVIOUS
    <3>2. refresh_wait \in 0 .. TRC_MIN /\ refresh_wait' = refresh_wait - 1
      BY <3>1 DEF Refresh, Types, TypeOK
    <3>3. QED
      BY <1>2, <3>2, Numbers
  <2>2. st[b] = "IDLE"
    BY <1>2, <2>1 DEF Active, baidle
  <2>3. Closing(b) <= 1 /\ Age(b) >= TRC_MIN - 2
    BY <2>2 DEF Rows, RowOf
  <2>4. /\ Closing(b)' = Down(Closing(b)) /\ Closing(b) \in Nat
        /\ Age(b)' = IF Age(b) < TRC_MIN THEN Age(b) + 1 ELSE Age(b)
        /\ Age(b) \in 0 .. TRC_MIN
    BY <2>2, RowStep
  <2>5. Down(Closing(b)) = 0
    BY <2>3, <2>4, DownIs
  <2>6. QED
    BY <2>3, <2>4, <2>5, Numbers
<1>3. ASSUME NEW b \in Bank, NEW d \in Bank, st'[b] = "ACT", d # b
      PROVE  Age(d)' >= 1
  <2>1. bbssch[0] = FREE
    BY <1>3, ReadJustSent, Selection
  <2>2. st[d] # "ACT"
    BY <2>1, Numbers DEF Ownership
  <2>3. /\ Age(d)' = IF Age(d) < TRC_MIN THEN Age(d) + 1 ELSE Age(d)
        /\ Age(d) \in 0 .. TRC_MIN
    BY <2>2, RowStep
  <2>4. QED
    BY <2>3, Numbers
<1>4. QED
  BY <1>1, <1>2, <1>3 DEF Rows

(* When a bank begins, no other is sending, and nothing has been sent.     *)
LEMMA QuietWhenBeginning ==
  ASSUME Controller, Next, NEW b \in Bank, Begins(b)
  PROVE  /\ bbssch[0] = FREE
         /\ \A d \in Bank : st[d] \in {"IDLE", "ACT_WAIT", "R", "W_REC", "PRE"}
         /\ command'.c \notin {"ACTIVE", "READ", "WRITE"}
<1> USE DEF Next, Controller
<1>1. bbssch[0] = FREE
  BY Selection
<1>2. \A d \in Bank : st[d] \in {"IDLE", "ACT_WAIT", "R", "W_REC", "PRE"}
  BY <1>1, Numbers DEF Ownership, Types, TypeOK, States
<1>3. command'.ba \in Bank
  BY CommandStep DEF Commands
<1>4. QED
  BY <1>1, <1>2, <1>3, CommandStep

(* What is left of bursts and refreshes stays as short as it must be.      *)
LEMMA BurstsStay ==
  ASSUME Controller, Bursts, Next
  PROVE  Bursts'
<1> USE DEF Next, Controller
<1>0. Prechg \in Nat /\ prechg' = Down(Prechg) /\ Refreshing \in Nat
      /\ auto_refresh' = Down(Refreshing)
  BY ChipStep
<1>1. Prechg' = IF command'.c = "READ" THEN 3
                ELSE IF command'.c = "WRITE" /\ command'.ap THEN 2 ELSE Down(Prechg)
  BY <1>0 DEF Prechg
<1>2. Refreshing' = IF state = "REFRESH" /\ refresh_wait = TRC_MIN THEN TRC_MIN
                    ELSE Down(Refreshing)
  BY <1>0, CommandStep DEF Refreshing
<1>3. /\ Prechg = 0 => Down(Prechg) = 0
      /\ Prechg # 0 => Down(Prechg) = Prechg - 1
      /\ Refreshing = 0 => Down(Refreshing) = 0
      /\ Refreshing # 0 => Down(Refreshing) = Refreshing - 1
  BY <1>0, DownIs
<1>4. command'.ba \in Bank
  BY CommandStep DEF Commands
<1>5. Prechg' <= 3
  BY <1>0, <1>1, <1>3 DEF Bursts
<1>6. ASSUME bbssch'[0] = FREE PROVE Prechg' <= 2
  <2>1. command'.c # "READ"
    <3>1. SUFFICES ASSUME command'.c = "READ" PROVE FALSE
      OBVIOUS
    <3>2. st[command'.ba] = "R_CMD"
      BY <1>4, <3>1, CommandStep
    <3>3. bbssch[0] = command'.ba /\ bbssch[1] = command'.ba /\ command'.ba # FREE
      BY <1>4, <3>2, Numbers DEF Ownership
    <3>4. bbssch'[0] = bbssch[1]
      BY <3>3, NextPlaces
    <3>5. QED
      BY <1>6, <3>3, <3>4
  <2>2. QED
    BY <1>0, <1>1, <1>3, <2>1 DEF Bursts
<1>7. ASSUME NEW b \in Bank, st'[b] \in {"ACT", "R_CMD", "W_CMD", "W_CMD_2"}
      PROVE  Prechg' <= 1
  <2>1. CASE Begins(b)
    <3>1. bbssch[0] = FREE /\ command'.c \notin {"ACTIVE", "READ", "WRITE"}
      BY <2>1, QuietWhenBeginning
    <3>2. QED
      BY <1>0, <1>1, <1>3, <3>1 DEF Bursts
  <2>2. CASE ~Begins(b)
    <3>1. st[b] = "W_CMD" /\ BEATS(b) = 2
      BY <1>7, <2>2, ReadJustSent
    <3>2. command'.c = "WRITE" /\ ~command'.ap
      BY <3>1, CommandStep
    <3>3. QED
      BY <1>0, <1>1, <1>3, <3>1, <3>2 DEF Bursts
  <2>3. QED
    BY <2>1, <2>2
<1>8. ASSUME state' = "REFRESH", Active
      PROVE  Prechg' <= 1 /\ Refreshing' = 0 /\ refresh_wait' = TRC_MIN
  <2>1. state = "ACTIVE" /\ refresh_wait' = TRC_MIN /\ \A b \in Bank : st[b] = "IDLE"
    BY <1>8 DEF Active, baidle
  <2>2. command'.c \notin {"ACTIVE", "READ", "WRITE"}
    BY <1>4, <2>1, CommandStep
  <2>3. bbssch[0] = FREE
    <3>1. bbssch[0] \in Bank \cup {FREE}
      BY DEF Types, TypeOK
    <3>2. bbssch[0] \notin Bank
      BY <2>1 DEF Ownership, Owning
    <3>3. QED
      BY <3>1, <3>2
  <2>4. QED
    BY <1>0, <1>1, <1>2, <1>3, <2>1, <2>2, <2>3 DEF Bursts
<1>9. ASSUME Refresh
      PROVE  /\ refresh_wait' # TRC_MIN
             /\ state' = "REFRESH" => Refreshing' <= refresh_wait' + 1
             /\ state' = "ACTIVE" => Refreshing' <= 1
  <2>1. /\ refresh_wait \in 0 .. TRC_MIN /\ refresh_wait' = refresh_wait - 1
        /\ Refreshing <= refresh_wait + 1 /\ state = "REFRESH" /\ refresh_wait >= 1
        /\ state' = "ACTIVE" => refresh_wait = 1 /\ refresh_wait # TRC_MIN
    BY <1>9 DEF Refresh, Bursts, Types, TypeOK, Stopped
  <2>2. QED
    BY <1>0, <1>2, <1>3, <2>1, Numbers
<1>10. ASSUME Active, state' = "ACTIVE" PROVE Refreshing' <= 1
  BY <1>0, <1>2, <1>3, <1>10 DEF Active, Bursts
<1>11. ASSUME NEW b \in Bank, st'[b] # "IDLE" PROVE Refreshing' = 0
  <2>1. CASE st[b] # "IDLE"
    <3>1. Refreshing = 0 /\ state # "REFRESH"
      BY <2>1 DEF Bursts, Stopped
    <3>2. QED
      BY <1>2, <1>3, <3>1
  <2>2. CASE st[b] = "IDLE"
    <3>1. ~bapause
      BY <1>11, <2>2, BankStep, Asks DEF Begins
    <3>2. state = "ACTIVE"
      BY <3>1 DEF bapause
    <3>3. QED
      BY <1>0, <1>2, <1>3, <3>2 DEF Bursts
  <2>3. QED
    BY <2>1, <2>2
<1>12. state' = "REFRESH" => Refreshing' <= refresh_wait' + 1
  <2>1. Active => (state' = "REFRESH" => Refreshing' <= refresh_wait' + 1)
    BY <1>8, Numbers
  <2>2. QED
    BY <1>9, <2>1
<1>13. QED
  BY <1>5, <1>6, <1>7, <1>8, <1>9, <1>10, <1>11, <1>12 DEF Bursts

(* The command that leaves the register next is legal.                     *)
LEMMA LegalStays ==
  ASSUME Controller, Rows, Bursts, Next
  PROVE  LegalCommand'
<1> USE DEF Next, Controller
<1>1. command'.ba \in Bank
  BY CommandStep DEF Commands
<1>2. /\ \A b \in Bank :
           /\ b \in row_open' <=> Opened(b)
           /\ Age(b) \in 0 .. TRC_MIN /\ Closing(b) \in Nat
           /\ age'[b] = IF Age(b) < TRC_MIN THEN Age(b) + 1 ELSE Age(b)
           /\ closing'[b] = Down(Closing(b))
      /\ Prechg \in Nat /\ prechg' = Down(Prechg)
      /\ Refreshing \in Nat /\ auto_refresh' = Down(Refreshing)
  BY ChipStep
<1>3. ASSUME command'.c # "NOP" PROVE prechg' = 0 /\ auto_refresh' = 0
  <2>1. Prechg <= 1 /\ Refreshing = 0
    <3>1. CASE command'.c = "AUTO_REFRESH"
      BY <3>1, CommandStep DEF Bursts
    <3>2. CASE command'.c # "AUTO_REFRESH"
      <4>1. command'.c \in {"ACTIVE", "READ", "WRITE"}
        BY <1>3, <3>2, CommandStep DEF Commands
      <4>2. st[command'.ba] \in {"ACT", "R_CMD", "W_CMD", "W_CMD_2"}
        BY <1>1, <4>1, CommandStep
      <4>3. QED
        BY <1>1, <4>2 DEF Bursts
    <3>3. QED
      BY <3>1, <3>2
  <2>2. QED
    BY <1>2, <2>1, DownIs
<1>4. ASSUME command'.c = "ACTIVE" PROVE LegalActive'
  <2>0. PICK b \in Bank : b = command'.ba
    BY <1>1
  <2>1. st[b] = "ACT"
    BY <1>4, <2>0, CommandStep
  <2>2. ~Opened(b) /\ Closing(b) <= 0 /\ Age(b) >= TRC_MIN - 1
    BY <2>1 DEF Rows, RowOf
  <2>3. b \notin row_open' /\ closing'[b] = 0 /\ age'[b] >= TRC_MIN
    BY <1>2, <2>1, <2>2, DownIs, Numbers
  <2>4. ASSUME NEW d \in Bank \ {b} PROVE age'[d] >= TRRD_MIN
    <3>1. Age(d) >= 1
      BY <2>1, <2>4 DEF Rows
    <3>2. QED
      BY <1>2, <3>1, Numbers, TimingAssumption
  <2>5. QED
    BY <2>0, <2>3, <2>4 DEF LegalActive
<1>5. ASSUME command'.c \in {"READ", "WRITE"} PROVE LegalAccess'
  <2>0. PICK b \in Bank : b = command'.ba
    BY <1>1
  <2>1. st[b] \in {"R_CMD", "W_CMD", "W_CMD_2"}
    BY <1>5, <2>0, CommandStep
  <2>2. Opened(b) /\ Age(b) >= TRCD_MIN - 1
    BY <2>1 DEF Rows, RowOf
  <2>3. b \in row_open' /\ age'[b] >= TRCD_MIN /\ age'[b] \in Nat
    BY <1>2, <2>1, <2>2, Numbers, TimingAssumption
  <2>4. ToPrecharge' \in {2, TWR_MIN}
    BY Numbers DEF ToPrecharge
  <2>5. age'[b] + ToPrecharge' >= TRAS_MIN
    BY <2>3, <2>4, Numbers, TimingAssumption
  <2>6. QED
    BY <2>0, <2>3, <2>5 DEF LegalAccess
<1>6. ASSUME command'.c = "AUTO_REFRESH" PROVE LegalRefresh'
  <2>1. state = "REFRESH" /\ refresh_wait = TRC_MIN
    BY <1>6, CommandStep
  <2>2. ASSUME NEW b \in Bank
        PROVE  b \notin row_open' /\ closing'[b] = 0 /\ age'[b] >= TRC_MIN
    <3>1. Closing(b) = 0 /\ Age(b) >= TRC_MIN - 1 /\ ~Opened(b)
      BY <2>1 DEF Rows, RowOf, Stopped
    <3>2. QED
      BY <1>2, <3>1, DownIs, Numbers
  <2>3. QED
    BY <2>2 DEF LegalRefresh
<1>7. QED
  BY <1>3, <1>4, <1>5, <1>6 DEF LegalCommand, Quiet

(* The shift register of a read holds one bit at most, and moves it down.  *)
LEMMA ShiftOne ==
  /\ Shift({}) = {}
  /\ Shift({0}) = {}
  /\ \A k \in 1 .. 4 : Shift({k}) = {k - 1}
BY DEF Shift

(* Requests, answers and reads on their way, a cycle later.                *)
LEMMA AnswerStep ==
  ASSUME Controller, Next, NEW b \in Bank
  PROVE  /\ BEATS(b) \in {1, 2}
         /\ rq'[b] <=> (rq[b] /\ ~(st[b] = "IDLE" /\ Begins(b))) \/ REQ(b)
         /\ ready'[b] <=> \/ 0 \in data_ready_delay[b]
                          \/ BEATS(b) = 2 /\ st'[b] = "W_CMD_2"
                          \/ BEATS(b) = 1 /\ st'[b] = "W_CMD"
         /\ data_ready_delay'[b] =
              Shift(data_ready_delay[b]) \cup (IF st[b] = "R_CMD" THEN {BEATS(b) + 2} ELSE {})
         /\ Waits(b) => open_req'[b] /\ ~REQ(b) /\ rnw'[b] = rnw[b]
         /\ ~Waits(b) => (REQ(b) <=> open_req'[b] /\ (~open_req[b] \/ ready[b]))
<1> USE DEF Next, Controller
<1>1. bbsba_d' = bbsba /\ BEATS(b) \in {1, 2}
  BY SchedulerStep DEF BEATS
<1>2. rqc(b) <=> st[b] = "IDLE" /\ Begins(b)
  BY <1>1, Asks DEF rqc, Selected, Begins
<1>3. st'[b] = "W_CMD" => bbsba = b
  BY ReadJustSent DEF Begins
<1>4. st'[b] = "W_CMD_2" => bbsba = b
  BY ReadJustSent, Heard
<1>5. rq'[b] <=> (rq[b] /\ ~(st[b] = "IDLE" /\ Begins(b))) \/ REQ(b)
  BY <1>2 DEF BanksClock
<1>6. ready'[b] <=> \/ 0 \in data_ready_delay[b]
                    \/ BEATS(b) = 2 /\ st'[b] = "W_CMD_2"
                    \/ BEATS(b) = 1 /\ st'[b] = "W_CMD"
  <2>1. ready'[b] <=> 0 \in data_ready_delay[b] \/ (Selected(b) /\ LastBeat(b))
    BY DEF BanksClock
  <2>2. Selected(b) <=> bbsba = b
    BY <1>1 DEF Selected
  <2>3. QED
    BY <1>1, <1>3, <1>4, <2>1, <2>2 DEF LastBeat
<1>7. data_ready_delay'[b] =
        Shift(data_ready_delay[b]) \cup (IF st[b] = "R_CMD" THEN {BEATS(b) + 2} ELSE {})
  <2>1. st[b] = "R_CMD" => bbsba = b
    BY Heard
  <2>2. data_ready_delay'[b] = Shift(data_ready_delay[b])
          \cup (IF Selected(b) /\ st[b] = "R_CMD" THEN {ReadLatency(b)} ELSE {})
    BY DEF BanksClock
  <2>3. ReadLatency(b) = BEATS(b) + 2
    BY <1>1, Numbers DEF ReadLatency
  <2>4. QED
    BY <1>1, <2>1, <2>2, <2>3 DEF Selected
<1>8. Waits(b) => open_req'[b] /\ ~REQ(b) /\ rnw'[b] = rnw[b]
  BY DEF Clients, Waits, REQ
<1>9. QED
  BY <1>1, <1>5, <1>6, <1>7, <1>8 DEF REQ

(* One answer for every request, none without.                             *)
LEMMA AnswersStay ==
  ASSUME Controller, Answers, Next
  PROVE  Answers'
<1> USE DEF Next, Controller
<1> SUFFICES
      ASSUME NEW b \in Bank
      PROVE
        /\ ready'[b] => open_req'[b]
        /\ rq'[b] => Waits(b)' /\ st'[b] \notin Working(b) /\ data_ready_delay'[b] = {}
        /\ st'[b] \in Working(b) => Waits(b)' /\ data_ready_delay'[b] = {}
        /\ data_ready_delay'[b] # {} => Waits(b)' /\ rnw'[b]
        /\ st'[b] = "R_CMD" => rnw'[b]
        /\ st'[b] \in {"W_CMD", "W_CMD_2"} => ~rnw'[b]
        /\ st'[b] = "R_DQM" => data_ready_delay'[b] = {BEATS(b) + 2}
        /\ st'[b] = "R" => data_ready_delay'[b] = {BEATS(b) + wcnt'[b]}
        /\ st'[b] \notin {"R_DQM", "R"} =>
             data_ready_delay'[b] \in {{}} \cup {{k} : k \in 0 .. BEATS(b) - 1}
  BY DEF Answers, Working, BEATS
<1> DEFINE D == data_ready_delay[b]
           E == data_ready_delay'[b]
           W == open_req'[b] /\ ~ready'[b]
<1>1. /\ BEATS(b) \in {1, 2}
      /\ rq'[b] <=> (rq[b] /\ ~(st[b] = "IDLE" /\ Begins(b))) \/ REQ(b)
      /\ ready'[b] <=> \/ 0 \in D
                       \/ BEATS(b) = 2 /\ st'[b] = "W_CMD_2"
                       \/ BEATS(b) = 1 /\ st'[b] = "W_CMD"
      /\ E = Shift(D) \cup (IF st[b] = "R_CMD" THEN {BEATS(b) + 2} ELSE {})
      /\ Waits(b) => open_req'[b] /\ ~REQ(b) /\ rnw'[b] = rnw[b]
      /\ ~Waits(b) => (REQ(b) <=> open_req'[b] /\ (~open_req[b] \/ ready[b]))
  BY AnswerStep
<1>2. Waits(b)' <=> W
  BY DEF Waits
<1>3. st[b] \in States /\ (st[b] = "R" => wcnt[b] \in {0, 1})
  BY DEF Types, TypeOK, Ownership
<1>4. /\ rq[b] => Waits(b) /\ st[b] \notin Working(b) /\ D = {}
      /\ st[b] \in Working(b) => Waits(b) /\ D = {}
      /\ D # {} => Waits(b) /\ rnw[b]
      /\ st[b] = "R_CMD" => rnw[b]
      /\ st[b] \in {"W_CMD", "W_CMD_2"} => ~rnw[b]
      /\ st[b] = "R_DQM" => D = {BEATS(b) + 2}
      /\ st[b] = "R" => D = {BEATS(b) + wcnt[b]}
      /\ st[b] \notin {"R_DQM", "R"} => D \in {{}} \cup {{k} : k \in 0 .. BEATS(b) - 1}
  BY DEF Answers
<1>5. Begins(b) => (st[b] = "IDLE" /\ rq[b]) \/ st[b] = "ACT_WAIT"
  BY Asks DEF Begins
<1> HIDE DEF D, E
<1>6. CASE D # {}
  <2>1. /\ Waits(b) /\ ~rq[b] /\ rnw[b] /\ ~rq'[b] /\ rnw'[b] /\ open_req'[b]
        /\ st[b] \notin {"ACT", "ACT_WAIT", "R_CMD"}
        /\ ~(st[b] = "W_CMD" /\ BEATS(b) = 2)
        /\ st[b] \notin {"W_CMD", "W_CMD_2"}
    BY <1>1, <1>4, <1>6 DEF Working
  <2>2. st'[b] \notin {"ACT", "ACT_WAIT", "R_CMD", "W_CMD", "W_CMD_2", "R_DQM"}
    BY <1>5, <2>1, ReadJustSent
  <2>3. ready'[b] <=> 0 \in D
    BY <1>1, <2>2
  <2>4. E = Shift(D)
    BY <1>1, <2>1
  <2>5. /\ D = {0} \/ \E k \in 1 .. 4 : D = {k} /\ E = {k - 1}
        /\ D = {0} => E = {} /\ st'[b] # "R"
        /\ st'[b] = "R" => E = {BEATS(b) + wcnt'[b]}
        /\ st'[b] # "R" => E \in {{}} \cup {{k} : k \in 0 .. BEATS(b) - 1}
    <3>1. CASE st[b] = "R_DQM"
      <4>1. st'[b] = "R" /\ wcnt'[b] = 1 /\ D = {BEATS(b) + 2}
        BY <1>4, <3>1, BankStep
      <4>2. BEATS(b) + 2 \in 1 .. 4 /\ (BEATS(b) + 2) - 1 = BEATS(b) + 1
        BY <1>1
      <4>3. E = {BEATS(b) + 1}
        BY <2>4, <4>1, <4>2, ShiftOne
      <4>4. D # {0}
        BY <4>1, <4>2
      <4>5. \E k \in 1 .. 4 : D = {k} /\ E = {k - 1}
        BY <4>1, <4>2, <4>3
      <4>6. E = {BEATS(b) + wcnt'[b]}
        BY <1>1, <4>1, <4>3
      <4>7. QED
        BY <4>1, <4>4, <4>5, <4>6
    <3>2. CASE st[b] = "R" /\ wcnt[b] = 1
      <4>1. st'[b] = "R" /\ wcnt'[b] = 0 /\ D = {BEATS(b) + 1}
        BY <1>4, <3>2, ReadJustSent
      <4>2. BEATS(b) + 1 \in 1 .. 4 /\ (BEATS(b) + 1) - 1 = BEATS(b)
        BY <1>1
      <4>3. E = {BEATS(b)}
        BY <2>4, <4>1, <4>2, ShiftOne
      <4>4. D # {0}
        BY <4>1, <4>2
      <4>5. \E k \in 1 .. 4 : D = {k} /\ E = {k - 1}
        BY <4>1, <4>2, <4>3
      <4>6. E = {BEATS(b) + wcnt'[b]}
        BY <1>1, <4>1, <4>3
      <4>7. QED
        BY <4>1, <4>4, <4>5, <4>6
    <3>3. CASE st[b] = "R" /\ wcnt[b] = 0
      <4>1. st'[b] # "R" /\ D = {BEATS(b)}
        BY <1>1, <1>4, <3>3, BankStep
      <4>2. BEATS(b) \in 1 .. 4 /\ BEATS(b) - 1 \in 0 .. BEATS(b) - 1
        BY <1>1
      <4>3. E = {BEATS(b) - 1}
        BY <2>4, <4>1, <4>2, ShiftOne
      <4>4. D # {0}
        BY <4>1, <4>2
      <4>5. E \in {{k} : k \in 0 .. BEATS(b) - 1}
        BY <4>2, <4>3
      <4>6. \E k \in 1 .. 4 : D = {k} /\ E = {k - 1}
        BY <4>1, <4>2, <4>3
      <4>7. QED
        BY <4>1, <4>4, <4>5, <4>6
    <3>4. CASE st[b] \notin {"R_DQM", "R"}
      <4>1. PICK k \in 0 .. BEATS(b) - 1 : D = {k}
        BY <1>4, <1>6, <3>4
      <4>2. st'[b] # "R"
        <5>1. st[b] \in {"IDLE", "W_REC", "PRE"}
          BY <1>3, <2>1, <3>4 DEF States
        <5>2. QED
          BY <5>1, BankStep
      <4>3. CASE k = 0
        BY <2>4, <4>1, <4>2, <4>3, ShiftOne
      <4>4. CASE k # 0
        <5>1. k \in 1 .. 4 /\ k - 1 \in 0 .. BEATS(b) - 1
          BY <1>1, <4>1, <4>4
        <5>2. E = {k - 1}
          BY <2>4, <4>1, <5>1, ShiftOne
        <5>3. QED
          BY <4>1, <4>2, <5>1, <5>2
      <4>5. QED
        BY <4>3, <4>4
    <3>5. QED
      BY <1>3, <3>1, <3>2, <3>3, <3>4
  <2>6. E # {} => ~ready'[b]
    BY <2>3, <2>5
  <2>7. st'[b] \notin Working(b)
    BY <2>2 DEF Working
  <2>8. QED
    BY <1>2, <2>1, <2>2, <2>5, <2>6, <2>7 DEF E
<1>7. CASE D = {} /\ st[b] \in Working(b)
  <2>1. Waits(b) /\ ~rq[b] /\ ~rq'[b] /\ open_req'[b] /\ rnw'[b] = rnw[b]
    BY <1>1, <1>4, <1>7
  <2>2. E = IF st[b] = "R_CMD" THEN {BEATS(b) + 2} ELSE {}
    BY <1>1, <1>7, ShiftOne
  <2>3. ready'[b] <=> \/ BEATS(b) = 2 /\ st'[b] = "W_CMD_2"
                      \/ BEATS(b) = 1 /\ st'[b] = "W_CMD"
    BY <1>1, <1>7
  <2>4. \/ st[b] = "ACT" /\ st'[b] = "ACT_WAIT"
        \/ st[b] = "ACT_WAIT" /\ st'[b] = "ACT_WAIT"
        \/ st[b] = "ACT_WAIT" /\ st'[b] = "R_CMD" /\ rnw[b]
        \/ st[b] = "ACT_WAIT" /\ st'[b] = "W_CMD" /\ ~rnw[b]
        \/ st[b] = "R_CMD" /\ st'[b] = "R_DQM" /\ rnw[b]
        \/ st[b] = "W_CMD" /\ BEATS(b) = 2 /\ st'[b] = "W_CMD_2" /\ ~rnw[b]
    BY <1>4, <1>7, BankStep DEF Working
  <2>5. QED
    BY <1>1, <1>2, <2>1, <2>2, <2>3, <2>4 DEF E, Working
<1>8. CASE D = {} /\ st[b] \notin Working(b)
  <2>1. /\ st[b] \notin {"ACT", "ACT_WAIT", "R_CMD", "R_DQM", "R"}
        /\ ~(st[b] = "W_CMD" /\ BEATS(b) = 2)
    BY <1>4, <1>8 DEF Working
  <2>2. E = {}
    BY <1>1, <1>8, <2>1, ShiftOne
  <2>3. \/ st'[b] = "ACT" /\ st[b] = "IDLE" /\ Begins(b) /\ rq[b]
        \/ st'[b] \in {"IDLE", "W_REC", "PRE"} /\ ~Begins(b)
    BY <1>1, <1>3, <1>5, <2>1, BankStep DEF States
  <2>4. ~ready'[b]
    BY <1>1, <1>8, <2>3
  <2>5. CASE Waits(b)
    <3>1. open_req'[b] /\ ~REQ(b)
      BY <1>1, <2>5
    <3>2. QED
      BY <1>1, <1>2, <2>2, <2>3, <2>4, <3>1 DEF E, Working
  <2>6. CASE ~Waits(b)
    <3>1. ~rq[b]
      BY <1>4, <2>6
    <3>2. rq'[b] => open_req'[b]
      BY <1>1, <2>6, <3>1
    <3>3. QED
      BY <1>2, <2>2, <2>3, <2>4, <3>1, <3>2 DEF E, Working
  <2>7. QED
    BY <2>5, <2>6
<1>9. QED
  BY <1>6, <1>7, <1>8

(* A word is something.                                                    *)
LEMMA Something ==
  \A b, k : <<b, k>> # NONE
BY DEF NONE

(* Each word moves on to where its bank will look for it.                  *)
LEMMA WordsStay ==
  ASSUME Controller, Answers, Sent, Words, Next
  PROVE  Words'
<1> USE DEF Next, Controller
<1>1. /\ dq_out'[0] = dq_out[1]
      /\ dq_out'[1] = (IF command.c = "READ" THEN <<command.ba, 0>> ELSE dq_out[2])
      /\ dq_out'[2] = (IF command.c = "READ" THEN <<command.ba, 1>> ELSE NONE)
  BY ChipStep
<1>2. command.ba \in Bank /\ command'.ba \in Bank
  BY CommandStep DEF Types, Commands
<1>3. command.c = "READ" => st[command.ba] = "R_DQM" /\ bbsdact = {1, 2}
  BY <1>2 DEF Sent, DataBusTaken
<1>4. ASSUME command.c = "READ" PROVE {0, 1} \subseteq bbsdact'
  <2>1. \A b \in Bank : ~Begins(b)
    BY <1>2, <1>3, <1>4, QuietWhenBeginning
  <2>2. bbsdact' = Shift({1, 2})
    BY <1>3, <1>4, <2>1, SchedulerStep
  <2>3. QED
    BY <2>2, Shifted
<1>5. ASSUME NEW b \in Bank
      PROVE  dqout'[b] = (CASE st'[b] = "W_CMD" -> <<b, 0>>
                            [] st'[b] = "W_CMD_2" -> <<b, 1>>
                            [] OTHER -> NONE)
  <2>1. st'[b] \in {"W_CMD", "W_CMD_2"} => Selected(b)
    <3>1. st'[b] \in {"W_CMD", "W_CMD_2"} => bbsba = b
      BY ReadJustSent, Heard DEF Begins
    <3>2. QED
      BY <3>1, SchedulerStep DEF Selected
  <2>2. dqout'[b] = IF Selected(b) /\ st'[b] = "W_CMD" THEN <<b, 0>>
                    ELSE IF Selected(b) /\ st'[b] = "W_CMD_2" THEN <<b, 1>> ELSE NONE
    BY DEF BanksClock
  <2>3. QED
    BY <2>1, <2>2
<1>6. /\ dqo' = (IF command'.c = "WRITE"
                 THEN <<command'.ba, IF command'.ap THEN BEATS(command'.ba) - 1 ELSE 0>>
                 ELSE NONE)
      /\ dqo' # NONE => dq_out[1] = NONE
  <2>0. \A b \in Bank : /\ st[b] = "W_CMD" => dqout[b] = <<b, 0>>
                        /\ st[b] = "W_CMD_2" => dqout[b] = <<b, 1>>
                        /\ dqout[b] # NONE <=> st[b] \in {"W_CMD", "W_CMD_2"}
    <3> SUFFICES ASSUME NEW b \in Bank
                 PROVE  /\ st[b] = "W_CMD" => dqout[b] = <<b, 0>>
                        /\ st[b] = "W_CMD_2" => dqout[b] = <<b, 1>>
                        /\ dqout[b] # NONE <=> st[b] \in {"W_CMD", "W_CMD_2"}
      OBVIOUS
    <3>1. dqout[b] = (CASE st[b] = "W_CMD" -> <<b, 0>>
                        [] st[b] = "W_CMD_2" -> <<b, 1>>
                        [] OTHER -> NONE)
      BY DEF Words
    <3>2. <<b, 0>> # NONE /\ <<b, 1>> # NONE
      BY Something
    <3>3. QED
      BY <3>1, <3>2
  <2>1. CASE \E b \in Bank : st[b] \in {"W_CMD", "W_CMD_2"}
    <3>1. PICK b \in Bank : st[b] \in {"W_CMD", "W_CMD_2"}
      BY <2>1
    <3>2. \A d \in Bank : st[d] \in {"W_CMD", "W_CMD_2"} => d = b
      BY <3>1, Heard
    <3>3. dqo' = dqout[b]
      BY <2>0, <3>1, <3>2 DEF DataBusClock
    <3>4. /\ command'.c = "WRITE" /\ command'.ba = b
          /\ st[b] = "W_CMD" => (command'.ap <=> BEATS(b) = 1)
          /\ st[b] = "W_CMD_2" => (command'.ap <=> BEATS(b) = 2)
          /\ st[b] = "W_CMD_2" => BEATS(b) = 2
      BY <3>1, CommandStep DEF Ownership
    <3>5. dqout[b] = <<b, IF command'.ap THEN BEATS(b) - 1 ELSE 0>>
      <4>1. CASE st[b] = "W_CMD"
        BY <2>0, <3>4, <4>1 DEF BEATS
      <4>2. CASE st[b] = "W_CMD_2"
        BY <2>0, <3>4, <4>2
      <4>3. QED
        BY <3>1, <4>1, <4>2
    <3>6. dq_out[1] = NONE
      BY <3>1 DEF Words
    <3>7. QED
      BY <3>3, <3>4, <3>5, <3>6
  <2>2. CASE \A b \in Bank : st[b] \notin {"W_CMD", "W_CMD_2"}
    <3>1. dqo' = NONE
      BY <2>0, <2>2 DEF DataBusClock
    <3>2. command'.c # "WRITE"
      BY <1>2, <2>2, CommandStep
    <3>3. QED
      BY <3>1, <3>2
  <2>3. QED
    BY <2>1, <2>2
<1>7. dq_out'[2] # NONE => {0, 1} \subseteq bbsdact'
  BY <1>1, <1>4
<1>8. ASSUME dq_out'[1] # NONE PROVE 0 \in bbsdact'
  <2>1. CASE command.c = "READ"
    BY <1>4, <2>1
  <2>2. CASE command.c # "READ"
    <3>1. 1 \in bbsdact
      BY <1>1, <1>8, <2>2 DEF Words
    <3>2. bbsdact \subseteq 0 .. 4
      BY DEF Types, TypeOK
    <3>3. 0 \in 0 .. 3 /\ 0 + 1 \in bbsdact
      BY <3>1
    <3>4. 0 \in Shift(bbsdact)
      BY <3>2, <3>3, Shifted
    <3>5. QED
      BY <3>4, SchedulerStep
  <2>3. QED
    BY <2>1, <2>2
<1>9. ASSUME NEW b \in Bank, st'[b] \in {"W_CMD", "W_CMD_2"}
      PROVE  \A i \in 0 .. 2 : dq_out'[i] = NONE
  <2>1. command.c # "READ" /\ dq_out[1] = NONE /\ dq_out[2] = NONE
    <3>1. CASE st'[b] = "W_CMD"
      <4>1. Begins(b) /\ st[b] = "ACT_WAIT" /\ ~rnw[b]
        BY <3>1, ReadJustSent
      <4>2. 0 \notin bbsdact
        BY <4>1, Selection, Asks DEF Begins
      <4>3. command.c # "READ"
        BY <1>2, <1>3, <4>1, QuietWhenBeginning
      <4>4. QED
        BY <4>2, <4>3 DEF Words
    <3>2. CASE st'[b] = "W_CMD_2"
      <4>1. st[b] = "W_CMD"
        BY <3>2, ReadJustSent
      <4>2. bbssch[0] = b /\ bbssch[1] = b /\ b # FREE
        BY <4>1, Numbers DEF Ownership
      <4>3. command.c # "READ"
        BY <1>2, <1>3, <4>2 DEF Ownership
      <4>4. QED
        BY <4>1, <4>3 DEF Words
    <3>3. QED
      BY <1>9, <3>1, <3>2
  <2>2. QED
    BY <1>1, <2>1
<1>10. ASSUME NEW b \in Bank, st'[b] = "R", wcnt'[b] = 1
       PROVE  dq_out'[1] = <<b, 0>> /\ dq_out'[2] = <<b, 1>>
  <2>1. command.c = "READ" /\ command.ba = b
    BY <1>10, ReadJustSent DEF Sent
  <2>2. QED
    BY <1>1, <2>1
<1>11. ASSUME NEW b \in Bank, st'[b] = "R", wcnt'[b] = 0
       PROVE  dq_out'[0] = <<b, 0>> /\ dq_out'[1] = <<b, 1>>
  <2>1. st[b] = "R" /\ wcnt[b] = 1
    BY <1>11, ReadJustSent
  <2>2. command.c # "READ"
    BY <1>3, <2>1 DEF DataBusTaken
  <2>3. QED
    BY <1>1, <2>1, <2>2 DEF Words
<1>12. ASSUME NEW b \in Bank, st'[b] # "R"
       PROVE  /\ BEATS(b) - 1 \in data_ready_delay'[b] =>
                   dqi' = <<b, 0>> /\ dq_out'[0] = <<b, 1>>
              /\ BEATS(b) = 2 /\ 0 \in data_ready_delay'[b] =>
                   dqi' = <<b, 1>> /\ dout'[b][0] = <<b, 0>>
  <2> DEFINE D == data_ready_delay[b]
             E == data_ready_delay'[b]
  <2>1. /\ BEATS(b) \in {1, 2}
        /\ E = Shift(D) \cup (IF st[b] = "R_CMD" THEN {BEATS(b) + 2} ELSE {})
    BY AnswerStep
  <2>2. D \subseteq 0 .. 4
    BY <2>1, Numbers DEF Types, TypeOK
  <2>3. \A k \in 0 .. 1 : k \in E => k + 1 \in D
    BY <2>1, <2>2, Shifted
  <2>4. /\ st[b] = "R_DQM" => D = {BEATS(b) + 2}
        /\ st[b] = "R" => D = {BEATS(b) + wcnt[b]} /\ wcnt[b] \in {0, 1}
        /\ st[b] \notin {"R_DQM", "R"} => D \in {{}} \cup {{k} : k \in 0 .. BEATS(b) - 1}
    BY DEF Answers, Ownership
  <2>5. dqi' = IF dq_out[0] # NONE THEN dq_out[0] ELSE dqo
    BY DEF DataBusClock
  <2>6. dout'[b][0] = IF BEATS(b) - 1 \in D THEN dqi ELSE dout[b][0]
    BY <2>1 DEF BanksClock
  <2> HIDE DEF D, E
  <2>7. ASSUME BEATS(b) - 1 \in E
        PROVE  dqi' = <<b, 0>> /\ dq_out'[0] = <<b, 1>>
    <3>1. BEATS(b) \in D
      BY <2>1, <2>3, <2>7
    <3>2. st[b] = "R" /\ wcnt[b] = 0
      BY <2>1, <2>4, <3>1
    <3>3. dq_out[0] = <<b, 0>> /\ dq_out[1] = <<b, 1>>
      BY <3>2 DEF Words
    <3>4. QED
      BY <1>1, <2>5, <3>3, Something
  <2>8. ASSUME BEATS(b) = 2, 0 \in E
        PROVE  dqi' = <<b, 1>> /\ dout'[b][0] = <<b, 0>>
    <3>1. 1 \in D
      BY <2>3, <2>8
    <3>2. st[b] # "R"
      BY <2>4, <2>8, <3>1
    <3>3. dqi = <<b, 0>> /\ dq_out[0] = <<b, 1>>
      BY <2>8, <3>1, <3>2 DEF Words, D
    <3>4. QED
      BY <2>5, <2>6, <2>8, <3>1, <3>3, Something
  <2>9. QED
    BY <2>7, <2>8 DEF E
<1>13. dqo' # NONE => dq_out'[0] = NONE
  BY <1>1, <1>6
<1>14. QED
  BY <1>5, <1>6, <1>7, <1>8, <1>9, <1>10, <1>11, <1>12, <1>13 DEF Words, BEATS

(* A read that reports READY has its words.                                *)
LEMMA ReadDataStays ==
  ASSUME Controller, Answers, Words, Next
  PROVE  ReadDataAligned'
<1> USE DEF Next, Controller
<1> SUFFICES ASSUME NEW b \in Bank, ready'[b], rnw'[b]
             PROVE  \A k \in 0 .. BEATS(b) - 1 : dout'[b][k] = <<b, k>>
  BY DEF ReadDataAligned, BEATS
<1> DEFINE D == data_ready_delay[b]
<1>1. Answers'
  BY AnswersStay
<1>2. BEATS(b) \in {1, 2}
  BY AnswerStep
<1>3. 0 \in D
  <2>1. st'[b] \notin {"W_CMD", "W_CMD_2"}
    BY <1>1 DEF Answers
  <2>2. QED
    BY <2>1, AnswerStep
<1>4. st[b] # "R" /\ D = {0}
  <2>1. /\ st[b] = "R_DQM" => D = {BEATS(b) + 2}
        /\ st[b] = "R" => D = {BEATS(b) + wcnt[b]} /\ wcnt[b] \in {0, 1}
        /\ st[b] \notin {"R_DQM", "R"} => D \in {{}} \cup {{k} : k \in 0 .. BEATS(b) - 1}
    BY DEF Answers, Ownership
  <2> HIDE DEF D
  <2>2. QED
    BY <1>2, <1>3, <2>1
<1>5. dout'[b] = [k \in 0 .. BEATS(b) - 1 |->
                    IF BEATS(b) - 1 - k \in D THEN dqi ELSE dout[b][k]]
  BY DEF BanksClock
<1>6. CASE BEATS(b) = 1
  <2>1. dqi = <<b, 0>>
    BY <1>3, <1>4, <1>6 DEF Words
  <2>2. QED
    BY <1>3, <1>5, <1>6, <2>1
<1>7. CASE BEATS(b) = 2
  <2>1. dqi = <<b, 1>> /\ dout[b][0] = <<b, 0>>
    BY <1>3, <1>4, <1>7 DEF Words
  <2> HIDE DEF D
  <2>2. dout'[b][0] = dout[b][0] /\ dout'[b][1] = dqi
    BY <1>4, <1>5, <1>7
  <2>3. QED
    BY <1>7, <2>1, <2>2
<1>8. QED
  BY <1>2, <1>6, <1>7

-----------------------------------------------------------------------------
(* At the start nothing is asked for, and the device is at rest.           *)
LEMMA InitHolds ==
  ASSUME Init
  PROVE  IInv
<1> USE DEF Init, ChipInit
<1>0. \A b \in Bank : BEATS(b) \in {1, 2}
  BY DEF BEATS
<1>1. TypeOK
  <2>1. /\ load.gap \in Nat /\ load.spacing \in Nat /\ TRC_MIN \in Nat
        /\ 0 \in 0 .. load.gap /\ 0 \in 0 .. load.spacing + LINE_END /\ 0 \in 0 .. TRC_MIN
    BY SdramAssumption, Numbers DEF LINE_END
  <2>2. /\ rq \in [Bank -> BOOLEAN] /\ rnw \in [Bank -> BOOLEAN]
        /\ st \in [Bank -> States] /\ wcnt \in [Bank -> 0 .. 15]
        /\ \A b \in Bank : data_ready_delay[b] \subseteq 0 .. CAS_LATENCY + BEATS(b)
        /\ ready \in [Bank -> BOOLEAN] /\ open_req \in [Bank -> BOOLEAN]
    BY DEF States
  <2>3. /\ bbsba_d \in 0 .. 3 /\ bbssch \in [0 .. 3 -> Bank \cup {FREE}]
        /\ bbscact \subseteq 0 .. 3 /\ bbsdact \subseteq 0 .. 3
    OBVIOUS
  <2>4. QED
    BY <2>1, <2>2, <2>3 DEF TypeOK
<1>2. Types
  BY <1>1, Numbers DEF Types, Commands, Nop
<1>3. Schedule /\ Ownership /\ DataBusTaken /\ Stopped
  BY <1>0, Numbers DEF Schedule, Ownership, DataBusTaken, Stopped, Owning, FREE
<1>4. Answers
  BY <1>0 DEF Answers, Waits, Working
<1>5. Sent
  BY DEF Sent, Activated, Nop
<1>6. Rows
  BY Numbers DEF Rows, RowOf, Opened, Age, Closing, Activated, Accessed, Nop
<1>7. Bursts
  BY Numbers DEF Bursts, Prechg, Refreshing, Nop
<1>8. Words
  BY Numbers DEF Words, Nop, NONE
<1>9. LegalCommand
  BY DEF LegalCommand, Nop
<1>10. ReadDataAligned
  BY DEF ReadDataAligned
<1>11. QED
  BY <1>2, <1>3, <1>4, <1>5, <1>6, <1>7, <1>8, <1>9, <1>10 DEF IInv, Controller

(* A step that changes nothing keeps the invariant.                        *)
LEMMA Nothing ==
  ASSUME IInv, UNCHANGED vars
  PROVE  IInv'
<1> USE DEF vars, bankvars, mainvars, schedvars, chipvars
<1>1. Controller'
  BY DEF IInv, Controller, Types, TypeOK, Schedule, Ownership, DataBusTaken, Stopped
<1>2. Answers' /\ Sent'
  BY DEF IInv, Answers, Waits, Working, Sent, Activated
<1>3. Rows'
  <2>1. \A b \in Bank : /\ Opened(b)' <=> Opened(b)
                        /\ Age(b)' = Age(b) /\ Closing(b)' = Closing(b)
    BY DEF Opened, Age, Closing, Activated, Accessed, ToPrecharge
  <2>2. QED
    BY <2>1 DEF IInv, Rows, RowOf
<1>4. Bursts' /\ Words'
  BY DEF IInv, Bursts, Prechg, Refreshing, Words
<1>5. LegalCommand' /\ ReadDataAligned'
  BY DEF IInv, LegalCommand, Quiet, LegalActive, LegalAccess, ToPrecharge, LegalRefresh,
         ReadDataAligned
<1>6. QED
  BY <1>1, <1>2, <1>3, <1>4, <1>5 DEF IInv

(* The invariant is inductive.                                             *)
LEMMA Inductive ==
  ASSUME IInv, [Next]_vars
  PROVE  IInv'
<1>1. CASE Next
  <2>1. /\ Controller /\ Answers /\ Sent /\ Rows /\ Bursts /\ Words
        /\ SchedulerClock /\ BanksClock /\ (Active \/ Refresh)
    BY <1>1 DEF IInv, Next
  <2>2. Types'
    BY <1>1, <2>1, TypesStay DEF Controller
  <2>3. Schedule' /\ Ownership' /\ DataBusTaken' /\ Stopped'
    BY <2>1, ScheduleStays, OwnershipStays, DataBusStays, StoppedStays DEF Controller
  <2>4. Answers' /\ Sent'
    BY <1>1, <2>1, AnswersStay, SentStays
  <2>5. Rows' /\ Bursts' /\ LegalCommand'
    BY <1>1, <2>1, RowsStay, BurstsStay, LegalStays
  <2>6. Words' /\ ReadDataAligned'
    BY <1>1, <2>1, WordsStay, ReadDataStays
  <2>7. QED
    BY <2>2, <2>3, <2>4, <2>5, <2>6 DEF IInv, Controller
<1>2. CASE UNCHANGED vars
  BY <1>2, Nothing
<1>3. QED
  BY <1>1, <1>2

(* The invariant holds throughout.                                         *)
LEMMA Invariance == Spec => []IInv
<1>1. Init => IInv
  BY InitHolds
<1>2. IInv /\ [Next]_vars => IInv'
  BY Inductive
<1>3. QED
  BY <1>1, <1>2, PTL DEF Spec

-----------------------------------------------------------------------------
(* Every register of the controller keeps to its kind: counters to their   *)
(* width, the schedule to banks that are there.                            *)
THEOREM TypeCorrect == Spec => []TypeOK
<1>1. IInv => TypeOK
  BY DEF IInv, Controller, Types
<1>2. QED
  BY <1>1, Invariance, PTL

(* Whatever the clients ask for and whenever refreshes fall due, the       *)
(* device is never given a command it may not have yet: the wait counters  *)
(* of the banks and the schedule keep every time of the data sheet.        *)
THEOREM DeviceTimingKept == Spec => []TimingRespected
<1>1. IInv => TimingRespected
  BY DEF IInv, TimingRespected
<1>2. QED
  BY <1>1, Invariance, PTL

(* A bank that issues a command is the one the multiplexer passes on, and  *)
(* no refresh is in the way: none is dropped.                              *)
THEOREM CommandsReachThePins == Spec => []NoCommandLost
<1>1. IInv => NoCommandLost
  <2> SUFFICES ASSUME IInv, NEW b \in Bank, r_cmd(b) # Nop
               PROVE  bbsba = b /\ state = "ACTIVE"
    BY DEF NoCommandLost
  <2>1. st[b] \in {"ACT", "R_CMD", "W_CMD", "W_CMD_2"}
    BY DEF r_cmd
  <2>2. QED
    BY <2>1, Heard DEF IInv, Controller
<1>2. QED
  BY <1>1, Invariance, PTL

(* Words of different banks, and words read and written, never meet on the *)
(* data bus; each is there in the cycle in which device or bank takes it.  *)
THEOREM DataBusIsExact == Spec => []DataBusExact
<1>1. IInv => DataBusExact
  <2> SUFFICES ASSUME IInv PROVE DataBusExact
    OBVIOUS
  <2> USE DEF IInv
  <2>1. dqo = NONE \/ dq_out[0] = NONE
    BY DEF Words
  <2>2. ASSUME NEW b \in Bank, NEW d \in Bank, dqout[b] # NONE, dqout[d] # NONE
        PROVE  b = d
    <3>1. st[b] \in {"W_CMD", "W_CMD_2"} /\ st[d] \in {"W_CMD", "W_CMD_2"}
      BY <2>2 DEF Words
    <3>2. bbssch[0] = b /\ bbssch[0] = d
      BY <3>1 DEF Controller, Ownership
    <3>3. QED
      BY <3>2
  <2>3. WriteDataAligned
    BY DEF WriteDataAligned, Words
  <2>4. ReadDataAligned
    OBVIOUS
  <2>5. QED
    BY <2>1, <2>2, <2>3, <2>4 DEF DataBusExact, DataBusFree
<1>2. QED
  BY <1>1, Invariance, PTL

(* A bank answers only what was asked of it, and once.                     *)
THEOREM OneAnswerPerRequest == Spec => []ReadyAnswers
<1>1. IInv => ReadyAnswers
  <2> SUFFICES ASSUME IInv, NEW b \in Bank, ready[b]
               PROVE  /\ open_req[b] /\ ~rq[b]
                      /\ data_ready_delay[b] = {}
                      /\ st[b] \notin {"ACT", "ACT_WAIT", "R_CMD", "R_DQM"}
    BY DEF ReadyAnswers
  <2>1. open_req[b] /\ ~Waits(b)
    BY DEF IInv, Answers, Waits
  <2>2. ~rq[b] /\ data_ready_delay[b] = {} /\ st[b] \notin Working(b)
    BY <2>1 DEF IInv, Answers
  <2>3. st[b] # "R_DQM"
    BY <2>2 DEF IInv, Answers
  <2>4. QED
    BY <2>1, <2>2, <2>3 DEF Working
<1>2. QED
  BY <1>1, Invariance, PTL

=============================================================================
