-------------------------- MODULE KingFabricProofs --------------------------
(***************************************************************************)
(* Proofs about the KRAM arbiter, for any number of clients, any DCK rate  *)
(* and any DRAM latency the assumption of KingFabric allows.               *)
(***************************************************************************)
EXTENDS MCKingFabric, TLAPS

(* The strengthening.  An access is in progress exactly while the DRAM is  *)
(* working or its answer waits for DCK; a holder in service still asks; a  *)
(* reset that has lasted `low' cycles leaves at most MaxLat + 1 - low of   *)
(* the access it cut off.                                                  *)
AckState ==
  /\ dck_d => since = 1
  /\ ack_d => dck_d /\ ~prio_act_d /\ wait = 0
  /\ ack_pend_d /\ ~ack_d => prio_act_d
  /\ wait > 0 => ~ack_pend_d

InService ==
  resn \/ low = 0 =>
    /\ prio_act_d <=> (wait > 0 \/ (ack_pend_d /\ ~ack_d))
    /\ prio_act_d /\ prio_sel_d \in Holder => cm_req[prio_sel_d]

Drained ==
  ~resn /\ low > 0 =>
    /\ ~prio_act_d /\ ~ack_pend_d /\ ~ack_d
    /\ \A c \in Client : ~cm_req[c]
    /\ wait = 0 \/ wait <= MaxLat + 1 - low

IInv == TypeOK /\ AckState /\ InService /\ Drained

(* As long as the DRAM answers within a DCK period: the access in progress *)
(* ends by the next DCK, and a fetch request is granted in the cycle it is *)
(* raised.                                                                 *)
Prompt ==
  resn => /\ prio_act_d => \/ since = 0 /\ wait <= 1
                           \/ since >= 2 /\ (wait = 0 \/ wait <= MinDck + 1 - since)
          /\ cm_req[0] => dck_d \/ (prio_act_d /\ prio_sel_d = 0)

-----------------------------------------------------------------------------

(* The priority encoder yields a client.                                   *)
LEMMA PrioHiType == PrioHi \in Client
<1>1. 0 \in Client
  BY FabricAssumption DEF Client
<1>2. CASE \E c \in Client : IsHighest(c)
  BY <1>2 DEF PrioHi
<1>3. CASE ~ \E c \in Client : IsHighest(c)
  BY <1>1, <1>3 DEF PrioHi
<1>4. QED
  BY <1>2, <1>3

(* The selected client is one of the clients.                              *)
LEMMA PrioSelType == TypeOK => PrioSel \in Client
BY PrioHiType DEF PrioSel, TypeOK

(* No client has a number below 0, so client 0 is the highest when it asks.*)
LEMMA PrioHiZero == TypeOK /\ cm_req[0] => PrioHi = 0
<1>1. 0 \in Client
  BY FabricAssumption DEF Client
<1>2. ASSUME cm_req[0]
      PROVE  IsHighest(0)
  BY <1>2 DEF IsHighest
<1>3. ASSUME cm_req[0], NEW c \in Client, IsHighest(c)
      PROVE  c = 0
  BY <1>3 DEF IsHighest, Client
<1>4. QED
  BY <1>1, <1>2, <1>3 DEF PrioHi

(* The wires are Boolean.                                                  *)
LEMMA WireTypes ==
  TypeOK => /\ Ack \in BOOLEAN /\ AckPend \in BOOLEAN
            /\ Req \in BOOLEAN /\ PrioAct \in BOOLEAN
<1>1. SUFFICES ASSUME TypeOK
               PROVE  /\ Ack \in BOOLEAN /\ AckPend \in BOOLEAN
                      /\ Req \in BOOLEAN /\ PrioAct \in BOOLEAN
  OBVIOUS
<1>2. AckPend \in BOOLEAN
  BY <1>1 DEF AckPend, TypeOK, DmcAck
<1>3. Ack \in BOOLEAN
  BY <1>1, <1>2 DEF Ack, TypeOK, DCK
<1>4. Req \in BOOLEAN
  BY <1>1, PrioSelType DEF Req, TypeOK
<1>5. QED
  BY <1>1, <1>2, <1>3, <1>4 DEF PrioAct, TypeOK

(* A clock edge keeps every register in its range.                         *)
LEMMA TypeStep == TypeOK /\ [Next]_vars => TypeOK'
<1> SUFFICES ASSUME TypeOK, [Next]_vars
             PROVE  TypeOK'
  OBVIOUS
<1>1. CASE UNCHANGED vars
  BY <1>1 DEF vars, TypeOK
<1>2. ASSUME Next
      PROVE  dck_d' \in BOOLEAN /\ wait' \in 0 .. MaxLat
  BY <1>2, FabricAssumption DEF Next, TypeOK, DCK, MemoryClock
<1>3. CASE Next /\ Run
  <2>1. prio_sel_d' \in Client
    BY <1>3, PrioSelType DEF Run, ArbiterClock
  <2>2. prio_act_d' \in BOOLEAN /\ ack_d' \in BOOLEAN /\ ack_pend_d' \in BOOLEAN
    BY <1>3, WireTypes DEF Run, ArbiterClock
  <2>3. since' \in 0 .. MaxDck - 1
    BY <1>3, FabricAssumption DEF Run, PixelClock, TypeOK
  <2>4. cm_req' \in [Client -> BOOLEAN] /\ resn' \in BOOLEAN
    BY <1>3 DEF Run, ClientClock
  <2>5. low' \in 0 .. MinReset
    BY <1>3, FabricAssumption DEF Run
  <2>6. QED
    BY <1>2, <1>3, <2>1, <2>2, <2>3, <2>4, <2>5 DEF TypeOK
<1>4. CASE Next /\ Reset
  <2>1. prio_sel_d' \in Client
    BY <1>4, FabricAssumption DEF Reset, ArbiterReset, Client
  <2>2. since' \in 0 .. MaxDck - 1 /\ low' \in 0 .. MinReset
    BY <1>4, FabricAssumption DEF Reset, TypeOK
  <2>3. cm_req' \in [Client -> BOOLEAN] /\ resn' \in BOOLEAN
    BY <1>4 DEF Reset
  <2>4. QED
    BY <1>2, <1>4, <2>1, <2>2, <2>3 DEF TypeOK, Reset, ArbiterReset
<1>5. QED
  BY <1>1, <1>3, <1>4 DEF Next

(* The invariant holds when the machine is switched on, held in reset.     *)
LEMMA InitIInv == Init => IInv
<1> SUFFICES ASSUME Init
             PROVE  IInv
  OBVIOUS
<1>1. TypeOK
  <2>1. 0 \in Client /\ 0 \in 0 .. MinReset /\ 0 \in 0 .. MaxLat
    BY FabricAssumption DEF Client
  <2>2. 1 \in 0 .. MaxDck - 1
    BY FabricAssumption
  <2>3. QED
    BY <2>1, <2>2 DEF Init, TypeOK
<1>2. AckState /\ InService /\ Drained
  BY DEF Init, AckState, InService, Drained
<1>3. QED
  BY <1>1, <1>2 DEF IInv

(* How the wires depend on the state the invariant describes: DCK and its  *)
(* delayed copy exclude each other, so an acknowledgement and a new grant  *)
(* never meet in one cycle.                                                *)
LEMMA WireFacts ==
  ASSUME IInv
  PROVE  /\ Ack <=> (DCK /\ ~ack_d /\ (ack_pend_d \/ wait = 1))
         /\ Ack => ~Req
         /\ prio_act_d => PrioSel = prio_sel_d
         /\ DmcReq <=> (Req /\ ~prio_act_d)
<1> USE DEF IInv, TypeOK, AckState
<1>1. Ack <=> (DCK /\ ~ack_d /\ (ack_pend_d \/ wait = 1))
  BY DEF Ack, AckPend, DCK, DmcAck
<1>2. Ack => ~Req
  BY <1>1 DEF Req, DCK
<1>3. prio_act_d => PrioSel = prio_sel_d
  BY DEF PrioSel
<1>4. DmcReq <=> (Req /\ ~prio_act_d)
  BY WireTypes DEF DmcReq, PrioAct
<1>5. QED
  BY <1>1, <1>2, <1>3, <1>4

(* A request reaches the DRAM only when it is idle: in normal operation    *)
(* because the arbiter knows it is, in reset because nobody asks.          *)
LEMMA RequestWhenIdle ==
  ASSUME IInv, DmcReq
  PROVE  wait = 0 /\ (resn \/ low = 0) /\ ~AckPend
<1>1. Req /\ ~prio_act_d /\ dck_d
  BY WireFacts DEF Req
<1>2. resn \/ low = 0
  BY <1>1, PrioSelType DEF IInv, Drained, Req, TypeOK
<1>3. wait = 0
  BY <1>1, <1>2 DEF IInv, InService, TypeOK
<1>4. ~AckPend
  BY <1>1, <1>2, <1>3 DEF IInv, AckState, AckPend, DmcAck
<1>5. QED
  BY <1>2, <1>3, <1>4

(* A clock edge out of reset preserves the invariant.                      *)
LEMMA RunStep ==
  ASSUME IInv, Next, Run
  PROVE  AckState' /\ InService' /\ Drained'
<1> USE FabricAssumption
<1>1. TypeOK /\ TypeOK'
  BY TypeStep DEF IInv
<1>2. /\ prio_sel_d' = PrioSel /\ prio_act_d' = PrioAct
      /\ ack_d' = Ack /\ ack_pend_d' = AckPend /\ dck_d' = DCK
      /\ resn /\ low' = 0
  BY DEF Run, ArbiterClock, Next
<1>3. IF DmcReq THEN wait' \in 1 .. MaxLat
                ELSE wait' = IF wait = 0 THEN 0 ELSE wait - 1
  BY DEF Next, MemoryClock
<1>4. dck_d' => since' = 1
  <2>1. dck_d' => since = 0
    BY <1>2 DEF DCK
  <2>2. since = 0 => since' = 1
    BY <1>1 DEF Run, PixelClock, TypeOK
  <2>3. QED
    BY <2>1, <2>2
<1>5. ack_d' => dck_d' /\ ~prio_act_d' /\ wait' = 0
  <2> SUFFICES ASSUME Ack
               PROVE  DCK /\ ~PrioAct /\ wait' = 0
    BY <1>2
  <2>1. DCK /\ ~ack_d /\ ~Req /\ ~DmcReq
    BY WireFacts
  <2>2. ~PrioAct
    BY <2>1 DEF PrioAct
  <2>3. wait <= 1
    BY <2>1, <1>1, WireFacts DEF IInv, AckState, TypeOK
  <2>4. QED
    BY <2>1, <2>2, <2>3, <1>3, <1>1 DEF TypeOK
<1>6. wait' > 0 => ~ack_pend_d'
  <2>1. CASE DmcReq
    BY <2>1, <1>2, RequestWhenIdle
  <2>2. CASE ~DmcReq
    BY <2>2, <1>1, <1>2, <1>3 DEF AckPend, DmcAck, IInv, AckState, TypeOK
  <2>3. QED
    BY <2>1, <2>2
<1>7. prio_act_d' <=> (wait' > 0 \/ (ack_pend_d' /\ ~ack_d'))
  <2>1. CASE DmcReq
    <3>1. prio_act_d'
      BY <2>1, <1>2 DEF DmcReq
    <3>2. wait' > 0
      BY <2>1, <1>3
    <3>3. QED
      BY <3>1, <3>2
  <2>2. CASE ~DmcReq /\ Ack
    BY <2>2, <1>1, <1>2, <1>3, <1>5
  <2>3. CASE ~DmcReq /\ ~Ack
    <3>1. prio_act_d' <=> prio_act_d
      BY <2>3, <1>1, <1>2, WireFacts, WireTypes DEF PrioAct, TypeOK
    <3>2. (wait' > 0 \/ ack_pend_d') <=> (wait > 0 \/ (ack_pend_d /\ ~ack_d))
      <4>1. ack_pend_d' <=> ((ack_pend_d \/ wait = 1) /\ ~ack_d)
        BY <1>1, <1>2 DEF AckPend, DmcAck, TypeOK
      <4>2. wait' > 0 <=> wait > 1
        BY <2>3, <1>1, <1>3 DEF TypeOK
      <4>3. ack_d => wait = 0
        BY DEF IInv, AckState
      <4>4. QED
        BY <4>1, <4>2, <4>3, <1>1 DEF TypeOK
    <3>3. QED
      BY <3>1, <3>2, <2>3, <1>2 DEF IInv, InService
  <2>4. QED
    BY <2>1, <2>2, <2>3
<1>8. prio_act_d' /\ prio_sel_d' \in Holder => cm_req'[prio_sel_d']
  <2> SUFFICES ASSUME PrioAct, PrioSel \in Holder
               PROVE  cm_req'[PrioSel]
    BY <1>2
  <2>1. ~Ack
    BY <1>2, <1>5
  <2>2. cm_req[PrioSel]
    BY <1>2, <2>1, WireFacts DEF PrioAct, Req, IInv, InService
  <2>3. QED
    BY <2>1, <2>2 DEF Run, ClientClock, CmAck
<1>9. ack_pend_d' /\ ~ack_d' => prio_act_d'
  BY <1>7
<1>10. QED
  BY <1>2, <1>4, <1>5, <1>6, <1>7, <1>8, <1>9, <1>1
     DEF AckState, InService, Drained, TypeOK

(* A clock edge in reset preserves the invariant.                          *)
LEMMA ResetStep ==
  ASSUME IInv, Next, Reset
  PROVE  AckState' /\ InService' /\ Drained'
<1> USE FabricAssumption
<1>1. TypeOK /\ TypeOK'
  BY TypeStep DEF IInv
<1>2. /\ ~prio_act_d' /\ ~ack_d' /\ ~ack_pend_d' /\ since' = 1
      /\ \A c \in Client : ~cm_req'[c]
  BY DEF Reset, ArbiterReset
<1>3. wait' <= MaxLat
  BY <1>1 DEF TypeOK
<1>4. ASSUME low > 0
      PROVE  wait' = 0 \/ wait' <= MaxLat - low
  <2>1. ~DmcReq
    BY <1>4, RequestWhenIdle DEF Reset
  <2>2. QED
    BY <2>1, <1>4, <1>1 DEF Next, MemoryClock, IInv, Drained, Reset, TypeOK
<1>5. wait' = 0 \/ wait' <= MaxLat + 1 - low'
  BY <1>1, <1>3, <1>4 DEF Reset, TypeOK
<1>6. resn' => wait' = 0
  BY <1>1, <1>4 DEF Reset, TypeOK
<1>7. AckState'
  BY <1>2 DEF AckState
<1>8. InService'
  BY <1>1, <1>2, <1>6 DEF InService, TypeOK, Reset
<1>9. Drained'
  BY <1>1, <1>2, <1>5 DEF Drained, TypeOK
<1>10. QED
  BY <1>7, <1>8, <1>9

(* The strengthened invariant is inductive.                                *)
LEMMA Inductive == IInv /\ [Next]_vars => IInv'
<1> SUFFICES ASSUME IInv, [Next]_vars
             PROVE  IInv'
  OBVIOUS
<1>1. TypeOK'
  BY TypeStep DEF IInv
<1>2. CASE Next
  BY <1>1, <1>2, RunStep, ResetStep DEF Next, IInv
<1>3. CASE UNCHANGED vars
  BY <1>1, <1>3
     DEF vars, IInv, AckState, InService, Drained, Client, Holder
<1>4. QED
  BY <1>2, <1>3

(* Every behaviour of the arbiter satisfies the invariant.                 *)
THEOREM Invariance == Spec => []IInv
<1>1. QED
  BY InitIInv, Inductive, PTL DEF Spec

(* Type correctness of the arbiter, its clients and the DRAM behind it.    *)
THEOREM TypeCorrect == Spec => []TypeOK
<1>1. IInv => TypeOK
  BY DEF IInv
<1>2. QED
  BY <1>1, Invariance, PTL

(* The DRAM controller never gets a second request while it works on the   *)
(* first, resets included.                                                 *)
THEOREM NeverTwoAccesses == Spec => []OneAccess
<1>1. IInv => OneAccess
  BY RequestWhenIdle DEF OneAccess
<1>2. QED
  BY <1>1, Invariance, PTL

(* An acknowledgement to a client that holds its request is always the     *)
(* answer to that request.                                                 *)
THEOREM NoStrayAck == Spec => []AckEarned
<1>1. IInv => AckEarned
  <2> SUFFICES ASSUME IInv, NEW c \in Holder, resn, CmAck(c)
               PROVE  cm_req[c] /\ prio_act_d /\ wait \in {0, 1}
    BY DEF AckEarned
  <2>1. /\ DCK /\ ~ack_d /\ (ack_pend_d \/ wait = 1)
        /\ c = PrioSel
    BY WireFacts DEF CmAck
  <2>2. prio_act_d
    BY <2>1 DEF IInv, InService, TypeOK
  <2>3. cm_req[c]
    BY <2>1, <2>2, WireFacts DEF IInv, InService
  <2>4. wait \in {0, 1}
    BY <2>1 DEF IInv, AckState, TypeOK
  <2>5. QED
    BY <2>2, <2>3, <2>4
<1>2. QED
  BY <1>1, Invariance, PTL

(* The address, data and byte enables the DRAM sees do not move from one   *)
(* client to another while it works.                                       *)
THEOREM SelectionStays == Spec => SelectionHeld
<1>1. IInv /\ IInv' /\ [Next]_vars => [resn /\ wait' > 0 => PrioSel' = PrioSel]_vars
  <2> SUFFICES ASSUME IInv, IInv', Next, resn, wait' > 0
               PROVE  PrioSel' = PrioSel
    OBVIOUS
  <2>1. Run
    BY DEF Next, Reset
  <2>2. low' = 0
    BY <2>1 DEF Run
  <2>3. prio_act_d'
    BY <2>2 DEF IInv, InService
  <2>4. PrioSel' = prio_sel_d'
    BY <2>3 DEF PrioSel
  <2>5. prio_sel_d' = PrioSel
    BY <2>1 DEF Run, ArbiterClock
  <2>6. QED
    BY <2>4, <2>5
<1>2. QED
  BY <1>1, Invariance, PTL DEF Spec, SelectionHeld

-----------------------------------------------------------------------------
(* The fetch engine.                                                       *)

(* Promptness is preserved by a step on which the DRAM is faster than the  *)
(* pixel clock.                                                            *)
LEMMA PromptStep ==
  ASSUME wait' < MinDck, IInv, IInv', Prompt, [Next]_vars
  PROVE  Prompt'
<1> USE FabricAssumption
<1>1. CASE UNCHANGED vars
  BY <1>1 DEF vars, Prompt
<1>2. CASE Next /\ Reset
  BY <1>2 DEF Reset, ArbiterReset, Prompt, Client
<1>3. CASE Next /\ Run
  <2>1. /\ prio_sel_d' = PrioSel /\ prio_act_d' = PrioAct /\ dck_d' = DCK
        /\ resn /\ PixelClock
    BY <1>3 DEF Run, ArbiterClock, Next
  <2>2. IF DmcReq THEN wait' \in 1 .. MaxLat
                  ELSE wait' = IF wait = 0 THEN 0 ELSE wait - 1
    BY <1>3 DEF Next, MemoryClock
  <2>3. ASSUME PrioAct
        PROVE  \/ since' = 0 /\ wait' <= 1
               \/ since' >= 2 /\ (wait' = 0 \/ wait' <= MinDck + 1 - since')
    <3>1. CASE DmcReq
      <4>1. since = 1
        BY <3>1, WireFacts DEF IInv, AckState, Req
      <4>2. since' = 2
        BY <4>1, <2>1 DEF PixelClock, IInv, TypeOK
      <4>3. QED
        BY <3>1, <4>2, <2>2
    <3>2. CASE ~DmcReq
      <4>1. prio_act_d
        BY <3>2, <2>3 DEF DmcReq
      <4>2. since # 0
        <5>1. SUFFICES ASSUME since = 0 PROVE FALSE
          OBVIOUS
        <5>2. wait <= 1
          BY <4>1, <2>1, <5>1 DEF Prompt
        <5>3. ~dck_d /\ ~ack_d
          BY <5>1 DEF IInv, AckState
        <5>4. Ack
          BY <4>1, <5>1, <5>2, <5>3, <2>1, WireFacts
             DEF IInv, InService, TypeOK, DCK
        <5>5. QED
          BY <5>3, <5>4, <2>3 DEF PrioAct, Req
      <4>3. since >= 2 /\ (wait = 0 \/ wait <= MinDck + 1 - since)
        BY <4>1, <4>2, <2>1 DEF Prompt
      <4>4. wait' = IF wait = 0 THEN 0 ELSE wait - 1
        BY <3>2, <2>2
      <4>5. CASE since' = since + 1
        BY <4>3, <4>4, <4>5 DEF IInv, TypeOK
      <4>6. CASE since >= MinDck - 1 /\ since' = 0
        BY <4>3, <4>4, <4>6 DEF IInv, TypeOK
      <4>7. QED
        BY <4>5, <4>6, <2>1 DEF PixelClock
    <3>3. QED
      BY <3>1, <3>2
  <2>4. ASSUME cm_req'[0]
        PROVE  dck_d' \/ (PrioAct /\ PrioSel = 0)
    <3>1. CASE DCK
      BY <3>1, <2>1
    <3>2. CASE ~DCK
      <4>1. cm_req[0] /\ ~Ack
        BY <3>2, <2>4, <1>3 DEF Run, ClientClock, Ack
      <4>2. CASE prio_act_d
        <5>1. since # 1
          BY <4>2, <2>1 DEF Prompt, IInv, TypeOK
        <5>2. prio_sel_d = 0
          BY <4>1, <5>1, <2>1 DEF Prompt, IInv, AckState
        <5>3. QED
          BY <4>1, <4>2, <5>2, WireFacts DEF PrioAct
      <4>3. CASE ~prio_act_d
        <5>1. dck_d
          BY <4>1, <4>3, <2>1 DEF Prompt
        <5>2. PrioHiValid
          BY <4>1 DEF PrioHiValid, Client
        <5>3. PrioSel = 0
          BY <4>1, <4>3, <5>1, <5>2, PrioHiZero DEF PrioSel, IInv
        <5>4. QED
          BY <4>1, <5>1, <5>3 DEF PrioAct, Req
      <4>4. QED
        BY <4>2, <4>3
    <3>3. QED
      BY <3>1, <3>2
  <2>5. QED
    BY <2>1, <2>3, <2>4 DEF Prompt
<1>4. QED
  BY <1>1, <1>2, <1>3 DEF Next

(* Promptness brings the acknowledgement that huc6272_fetch.sv asserts.    *)
LEMMA PromptOnTime == IInv /\ Prompt => VideoOnTime
<1> USE FabricAssumption
<1> SUFFICES ASSUME IInv, Prompt, resn, DCK, cm_req[0]
             PROVE  CmAck(0)
  BY DEF VideoOnTime
<1>1. since = 0 /\ ~dck_d /\ ~ack_d
  BY DEF DCK, IInv, AckState
<1>2. prio_act_d /\ prio_sel_d = 0 /\ wait <= 1
  BY <1>1 DEF Prompt
<1>3. Ack
  BY <1>1, <1>2, WireFacts DEF IInv, InService, TypeOK, DCK
<1>4. QED
  BY <1>2, <1>3, WireFacts DEF CmAck

(* If the DRAM always answers in fewer cycles than a pixel period has, the *)
(* assertion of huc6272_fetch.sv never fires, whatever the other clients   *)
(* of the bank do.                                                         *)
THEOREM FetchNeverLate == MaxLat < MinDck => (Spec => []VideoOnTime)
<1> SUFFICES ASSUME MaxLat < MinDck
             PROVE  Spec => []VideoOnTime
  OBVIOUS
<1>1. Init => Prompt
  BY DEF Init, Prompt
<1>2. IInv /\ IInv' /\ Prompt /\ [Next]_vars => Prompt'
  <2>1. IInv' => wait' < MinDck
    BY FabricAssumption DEF IInv, TypeOK
  <2>2. QED
    BY <2>1, PromptStep
<1>3. QED
  BY <1>1, <1>2, PromptOnTime, Invariance, PTL DEF Spec

(* In the instance whose DRAM may be timely or late, the fetch engine is   *)
(* on time before a timely one: what matters is the time of the answers    *)
(* that really come, not the largest that the fabric allows.               *)
THEOREM FetchOnTimeWhenTimely == MCSpec => []VideoWhenTimely
<1> DEFINE TimelyPrompt == timely => Prompt
<1>1. MCInit => Init /\ TimelyPrompt
  BY DEF MCInit, Init, Prompt
<1>2. [MCNext]_<<vars, timely>> => [Next]_vars
  BY DEF MCNext, vars
<1>3. IInv /\ IInv' /\ TimelyPrompt /\ [MCNext]_<<vars, timely>> => TimelyPrompt'
  <2> SUFFICES ASSUME IInv, IInv', timely => Prompt, [MCNext]_<<vars, timely>>, timely'
               PROVE  Prompt'
    OBVIOUS
  <2>1. CASE UNCHANGED <<vars, timely>>
    BY <2>1 DEF vars, Prompt
  <2>2. CASE MCNext
    <3>1. Prompt /\ wait' < MinDck /\ [Next]_vars
      BY <2>2 DEF MCNext
    <3>2. QED
      BY <3>1, PromptStep
  <2>3. QED
    BY <2>1, <2>2
<1>4. IInv /\ TimelyPrompt => VideoWhenTimely
  BY PromptOnTime DEF VideoWhenTimely
<1>5. MCSpec => Spec
  BY <1>1, <1>2, PTL DEF MCSpec, Spec
<1>6. QED
  BY <1>1, <1>3, <1>4, <1>5, Invariance, PTL DEF MCSpec

(***************************************************************************)
(* The arbiter implements KramServer: priority, no preemption and no lost  *)
(* request follow for every fabric the assumption allows.                  *)
(***************************************************************************)
THEOREM FabricRefinesServer == Spec => Server!Spec
<1> USE FabricAssumption
<1>1. Init => Server!Init
  BY DEF Init, Server!Init, Owner, Server!Free, Server!Client, Client
<1>2. IInv /\ [Next]_vars => [Server!Next]_(Server!vars)
  <2> SUFFICES ASSUME IInv, [Next]_vars
               PROVE  [Server!Next]_(Server!vars)
    OBVIOUS
  <2>1. CASE UNCHANGED vars
    BY <2>1 DEF vars, Server!vars, Owner
  <2>2. CASE Next /\ Reset
    BY <2>2 DEF Reset, ArbiterReset, Server!Next, Server!Clear, Owner,
                Server!Free, Server!Client, Client
  <2>3. CASE Next /\ Run
    <3>1. /\ prio_sel_d' = PrioSel /\ prio_act_d' = PrioAct
          /\ resn /\ ClientClock
      BY <2>3 DEF Run, ArbiterClock
    <3>2. PrioSel \in Client /\ PrioSel # CN
      BY PrioSelType DEF IInv, Client
    <3>3. CASE prio_act_d /\ Ack
      <4>1. Owner = prio_sel_d /\ Owner' = CN
        BY <3>1, <3>3, WireFacts DEF Owner, PrioAct
      <4>2. \A c \in Client \ {0, prio_sel_d} : cm_req[c] => cm_req'[c]
        BY <3>1, <3>3, WireFacts DEF ClientClock, CmAck, Client, Holder
      <4>3. Server!Release
        BY <4>1, <4>2, <3>1, <3>2, <3>3, WireFacts
           DEF Server!Release, Server!Asking, Server!Free, Server!Client,
               ClientClock, Client, IInv, TypeOK
      <4>4. QED
        BY <4>3 DEF Server!Next
    <3>4. CASE ~(prio_act_d /\ Ack)
      <4>1. ~Ack
        BY <3>1, <3>4, WireFacts DEF IInv, InService, TypeOK
      <4>2. \A c \in Client \ {0, CN} : cm_req[c] => cm_req'[c]
        BY <3>1, <4>1 DEF ClientClock, CmAck, Client, Holder
      <4>3. Server!Asking(CN)
        BY <4>2, <3>1 DEF Server!Asking, Server!Client, ClientClock, Client
      <4>4. CASE prio_act_d \/ ~Req
        <5>1. prio_act_d' <=> prio_act_d
          BY <3>1, <4>1, <4>4, WireTypes DEF PrioAct, IInv, TypeOK
        <5>2. Owner' = Owner
          BY <5>1, <3>1, WireFacts DEF Owner
        <5>3. QED
          BY <4>3, <5>2 DEF Server!Next, Server!Ask, Server!Free
      <4>5. CASE ~prio_act_d /\ Req
        <5>1. Owner = CN /\ Owner' = PrioSel
          BY <4>5, <3>1 DEF Owner, PrioAct
        <5>2. dck_d /\ cm_req[PrioSel]
          BY <4>5 DEF Req
        <5>3. PrioSel = PrioHi
          BY <4>5, <5>2, <3>2 DEF PrioSel, PrioHiValid
        <5>4. \A d \in 0 .. PrioSel - 1 : ~cm_req[d]
          <6>1. CASE \E c \in Client : IsHighest(c)
            <7>1. IsHighest(PrioHi)
              BY <6>1 DEF PrioHi
            <7>2. QED
              BY <7>1, <5>3 DEF IsHighest
          <6>2. CASE ~ \E c \in Client : IsHighest(c)
            BY <6>2, <5>3 DEF PrioHi
          <6>3. QED
            BY <6>1, <6>2
        <5>5. Server!Grant(PrioSel)
          BY <5>1, <5>2, <5>4, <4>3 DEF Server!Grant, Server!Free
        <5>6. QED
          BY <5>5, <3>2 DEF Server!Next, Server!Client, Client
      <4>6. QED
        BY <4>4, <4>5
    <3>5. QED
      BY <3>3, <3>4
  <2>4. QED
    BY <2>1, <2>2, <2>3 DEF Next
<1>3. QED
  BY <1>1, <1>2, Invariance, PTL DEF Spec, Server!Spec

=============================================================================
