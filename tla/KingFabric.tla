----------------------------- MODULE KingFabric -----------------------------
(***************************************************************************)
(* The memory fabric of KING (HuC6272) for one KRAM bank: the arbiter      *)
(* that lets CN clients share one DRAM controller (huc6272_fabric_bank.sv).*)
(* Client 0 is the background fetch engine, which asks anew on every pixel *)
(* clock and never waits (huc6272_fetch.sv); the others raise a request    *)
(* and hold it until they are acknowledged.                                *)
(*                                                                         *)
(* A step is one rising edge of CLK.  A state shows the registers and the  *)
(* inputs during one clock cycle; the operators named after wires (Req,    *)
(* CmAck, DmcReq...) are the combinational values of that cycle.           *)
(*                                                                         *)
(* A definition named X_Y is X with a plausible mistake Y; it is not part  *)
(* of the specification, and shows that a property would notice.           *)
(***************************************************************************)
EXTENDS Integers

CONSTANTS
  CN,        \* number of clients, 0 having the highest priority
  MinDck,    \* fewest CLK cycles between two DCK pulses
  MaxDck,    \* most CLK cycles between two DCK pulses
  MaxLat,    \* most CLK cycles from dmc_m_req to dmc_m_ack
  MinReset   \* fewest CLK cycles RESn stays low

ASSUME FabricAssumption ==
  /\ CN \in Nat \ {0}
  /\ MinDck \in Nat /\ MinDck >= 3
  /\ MaxDck \in Nat /\ MaxDck >= MinDck
  /\ MaxLat \in Nat \ {0}
  /\ MinReset \in Nat /\ MinReset > MaxLat

VARIABLES
  resn,        \* RESn, low while the machine is reset
  low,         \* cycles RESn has been low (bounded by MinReset)
  since,       \* cycles since the last DCK pulse; the pulse itself is 0
  dck_d,       \* registers of the arbiter ...
  prio_sel_d,
  prio_act_d,
  ack_d,
  ack_pend_d,
  cm_req,      \* the request line of every client
  wait         \* cycles until the DRAM answers, counting this one; 0 = idle

vars == <<resn, low, since, dck_d, prio_sel_d, prio_act_d, ack_d, ack_pend_d,
          cm_req, wait>>

Client == 0 .. CN - 1
Holder == 1 .. CN - 1

DCK == since = 0
DmcAck == wait = 1

-----------------------------------------------------------------------------
(* Combinational part of the arbiter.                                      *)

IsHighest_Reversed(c) == cm_req[c] /\ \A d \in c + 1 .. CN - 1 : ~cm_req[d]

IsHighest(c) == cm_req[c] /\ \A d \in 0 .. c - 1 : ~cm_req[d]

PrioHiValid == \E c \in Client : cm_req[c]

PrioHi == IF \E c \in Client : IsHighest(c)
          THEN CHOOSE c \in Client : IsHighest(c)
          ELSE 0

PrioSel == IF dck_d /\ ~prio_act_d /\ PrioHiValid THEN PrioHi ELSE prio_sel_d

Req == dck_d /\ cm_req[PrioSel]

AckPend_Forgets == DmcAck /\ ~ack_d

AckPend == (ack_pend_d \/ DmcAck) /\ ~ack_d

Ack_Blind == DCK
Ack_Registered == (ack_d \/ ack_pend_d) /\ DCK

Ack == (ack_d \/ AckPend) /\ DCK

PrioAct == (prio_act_d /\ ~Ack) \/ Req

DmcReq_Level == PrioAct

DmcReq == PrioAct /\ ~prio_act_d

CmAck(c) == c = PrioSel /\ Ack

-----------------------------------------------------------------------------
(* What a clock edge does to each part.                                    *)

ArbiterClock ==
  /\ prio_sel_d' = PrioSel
  /\ prio_act_d' = PrioAct
  /\ ack_d' = Ack
  /\ ack_pend_d' = AckPend

ArbiterReset ==
  /\ prio_sel_d' = 0
  /\ prio_act_d' = FALSE
  /\ ack_d' = FALSE
  /\ ack_pend_d' = FALSE

(* The DRAM behind the fabric answers a request within MaxLat cycles and   *)
(* is not reset with the machine.  A request restarts it.                  *)
MemoryClock ==
  IF DmcReq THEN wait' \in 1 .. MaxLat
            ELSE wait' = IF wait = 0 THEN 0 ELSE wait - 1

(* The fetch engine reloads its request on DCK whether or not it was       *)
(* acknowledged; every other client keeps its request until it is.         *)
ClientClock ==
  /\ cm_req' \in [Client -> BOOLEAN]
  /\ ~DCK => cm_req'[0] = cm_req[0]
  /\ \A c \in Holder : cm_req[c] /\ ~CmAck(c) => cm_req'[c]

PixelClock ==
  \/ /\ since < MaxDck - 1
     /\ since' = since + 1
  \/ /\ since >= MinDck - 1
     /\ since' = 0

Run ==
  /\ resn
  /\ ArbiterClock
  /\ ClientClock
  /\ PixelClock
  /\ resn' \in BOOLEAN
  /\ low' = 0

(* RESn is low: the arbiter, the clients and the pixel clock are held.     *)
Reset ==
  /\ ~resn
  /\ ArbiterReset
  /\ cm_req' = [c \in Client |-> FALSE]
  /\ since' = 1
  /\ low' = IF low < MinReset THEN low + 1 ELSE low
  /\ resn' \in BOOLEAN
  /\ resn' => low = MinReset

Init ==
  /\ resn = FALSE
  /\ low = 0
  /\ since = 1
  /\ dck_d = FALSE
  /\ prio_sel_d = 0
  /\ prio_act_d = FALSE
  /\ ack_d = FALSE
  /\ ack_pend_d = FALSE
  /\ cm_req = [c \in Client |-> FALSE]
  /\ wait = 0

Next ==
  /\ dck_d' = DCK
  /\ MemoryClock
  /\ Run \/ Reset

Spec == Init /\ [][Next]_vars

(* The clock never stops.                                                  *)
FairSpec == Spec /\ WF_vars(Next)

-----------------------------------------------------------------------------
(* Properties.                                                             *)

(* Every register and line has a value of its width; counters keep to      *)
(* their bounds.                                                           *)
TypeOK ==
  /\ resn \in BOOLEAN
  /\ low \in 0 .. MinReset
  /\ since \in 0 .. MaxDck - 1
  /\ dck_d \in BOOLEAN
  /\ prio_sel_d \in Client
  /\ prio_act_d \in BOOLEAN
  /\ ack_d \in BOOLEAN
  /\ ack_pend_d \in BOOLEAN
  /\ cm_req \in [Client -> BOOLEAN]
  /\ wait \in 0 .. MaxLat

(* The controller watches for a rising edge of dmc_m_req and holds one     *)
(* access: the arbiter never starts a second one while the first runs, and *)
(* an access that a reset left running has ended before the next starts.   *)
OneAccess == DmcReq => wait = 0

(* A client that holds its request is acknowledged only while it asks, and *)
(* only when the DRAM has finished an access since the last                *)
(* acknowledgement: an answer left over from before a reset, or from a     *)
(* fetch that gave up, is never taken for its own.                         *)
AckEarned ==
  \A c \in Holder : resn /\ CmAck(c) => cm_req[c] /\ prio_act_d /\ wait \in {0, 1}

(* The address, data and byte enables of the DRAM are those of the         *)
(* selected client at every cycle: the selection does not move as long as  *)
(* the access it started is running.                                       *)
SelectionHeld == [][resn /\ wait' > 0 => PrioSel' = PrioSel]_vars

(* The fetch engine cannot wait for a late answer (the assertion "late     *)
(* M_ACK" of huc6272_fetch.sv): on each DCK on which it still asks, it is  *)
(* acknowledged.  Holds when the DRAM answers within a DCK period.         *)
VideoOnTime == resn /\ DCK /\ cm_req[0] => CmAck(0)

(* No request is lost: whoever holds one is acknowledged, or a client of   *)
(* higher priority is, unless the machine is reset.                        *)
Served ==
  \A c \in Holder : cm_req[c] ~> (~resn \/ \E d \in 0 .. c : CmAck(d))

=============================================================================
