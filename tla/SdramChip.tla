----------------------------- MODULE SdramChip -----------------------------
(***************************************************************************)
(* The SDRAM device as its controller sees it: which rows are open, how    *)
(* long ago, what is still being precharged or refreshed, and when it      *)
(* drives the data bus.  Follows the simulation model as4c32m16sb.sv, with *)
(* the write recovery time TWR of sdram_defs.svh added.  Memory contents   *)
(* are abstracted to tokens: a word on the bus is <<bank, beat>>.          *)
(***************************************************************************)
EXTENDS Integers

CONSTANTS
  Bank,          \* the banks in use, a subset of 0 .. 3
  BURST_LENGTH, CAS_LATENCY,
  TRC_MIN, TRRD_MIN, TRCD_MIN, TRP_MIN, TWR_MIN, TRAS_MIN

ASSUME ChipAssumption ==
  /\ Bank \subseteq 0 .. 3 /\ Bank # {}
  /\ BURST_LENGTH \in Nat \ {0} /\ CAS_LATENCY \in Nat \ {0}
  /\ {TRC_MIN, TRRD_MIN, TRCD_MIN, TRP_MIN, TWR_MIN, TRAS_MIN} \subseteq Nat \ {0}

VARIABLES
  command,       \* command register of the controller: [c, ba, ap]
  row_open,      \* banks with an open row
  age,           \* cycles since the row of a bank was activated (to TRC_MIN)
  closing,       \* cycles until a precharging bank may be activated
  prechg,        \* cycles left of a burst that ends in an auto-precharge
  auto_refresh,  \* cycles left of a refresh
  dq_out         \* dq_out[i]: word driven on DQ in i cycles, 0 being now

chipvars == <<row_open, age, closing, prechg, auto_refresh, dq_out>>

NONE == <<>>
Nop == [c |-> "NOP", ba |-> 0, ap |-> FALSE]

Down(n) == IF n = 0 THEN 0 ELSE n - 1

Activated(b) == command.c = "ACTIVE" /\ command.ba = b
Accessed(b)  == command.c \in {"READ", "WRITE"} /\ command.ba = b

(* Cycles from a READ or WRITE with auto-precharge to the precharge.       *)
ToPrecharge == IF command.c = "READ" THEN BURST_LENGTH ELSE TWR_MIN

ChipClock ==
  /\ row_open' = CASE command.c = "ACTIVE" -> row_open \cup {command.ba}
                   [] command.c \in {"READ", "WRITE"} /\ command.ap
                        -> row_open \ {command.ba}
                   [] command.c = "PRECHARGE" -> {}
                   [] OTHER -> row_open
  /\ age' = [b \in Bank |-> IF Activated(b) THEN 1
                            ELSE IF age[b] < TRC_MIN THEN age[b] + 1 ELSE age[b]]
  /\ closing' = [b \in Bank |->
       IF Accessed(b) /\ command.ap THEN ToPrecharge + TRP_MIN - 1
       ELSE IF command.c = "PRECHARGE" THEN TRP_MIN - 1
       ELSE Down(closing[b])]
  /\ prechg' = CASE command.c = "READ" /\ command.ap -> BURST_LENGTH
                 [] command.c = "WRITE" /\ command.ap -> 1
                 [] OTHER -> Down(prechg)
  /\ auto_refresh' = IF command.c = "AUTO_REFRESH" THEN TRC_MIN - 1
                     ELSE Down(auto_refresh)
  /\ dq_out' = [i \in DOMAIN dq_out |->
       IF command.c = "READ" /\ i >= CAS_LATENCY - 1
       THEN <<command.ba, i - CAS_LATENCY + 1>>
       ELSE IF i + 1 \in DOMAIN dq_out THEN dq_out[i + 1] ELSE NONE]

ChipInit ==
  /\ row_open = {}
  /\ age = [b \in Bank |-> TRC_MIN]
  /\ closing = [b \in Bank |-> 0]
  /\ prechg = 0
  /\ auto_refresh = 0
  /\ dq_out = [i \in 0 .. CAS_LATENCY + BURST_LENGTH - 2 |-> NONE]

(***************************************************************************)
(* What the device requires of the command it is given in this cycle (the  *)
(* assertions of as4c32m16sb.sv).                                          *)
(***************************************************************************)
Quiet == prechg = 0 /\ auto_refresh = 0

LegalActive ==
  LET b == command.ba IN
    /\ b \notin row_open
    /\ closing[b] = 0
    /\ age[b] >= TRC_MIN
    /\ \A d \in Bank \ {b} : age[d] >= TRRD_MIN

LegalAccess ==
  LET b == command.ba IN
    /\ b \in row_open
    /\ age[b] >= TRCD_MIN
    /\ command.ap => age[b] + ToPrecharge >= TRAS_MIN

LegalRefresh ==
  \A b \in Bank : b \notin row_open /\ closing[b] = 0 /\ age[b] >= TRC_MIN

LegalCommand ==
  /\ command.c # "NOP" => Quiet
  /\ command.c = "ACTIVE" => LegalActive
  /\ command.c \in {"READ", "WRITE"} => LegalAccess
  /\ command.c = "AUTO_REFRESH" => LegalRefresh

=============================================================================
