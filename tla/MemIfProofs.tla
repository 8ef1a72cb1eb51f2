---------------------------- MODULE MemIfProofs ----------------------------
(***************************************************************************)
(* Proofs about channel 1 of the memory interface, for any time the bank   *)
(* takes for a stage of an access and any rest of the loader/saver.        *)
(***************************************************************************)
EXTENDS MemIf, TLAPS

Sources == [who : {"NONE", "LS", "CPU"}, we : BOOLEAN]

CpuSource == [who |-> "CPU", we |-> cpu_we]
LsSource == [who |-> "LS", we |-> ls_pend = "WE"]

Types ==
  /\ TypeOK
  /\ {cpu_we, served, cut} \subseteq BOOLEAN
  /\ pause \in Nat
  /\ {src_d, row, col} \subseteq Sources

(* Who has the channel.  ch1_ready_d is low exactly while the bank works;  *)
(* the loader/saver lets go with READY, the CPU only when it has seen it.  *)
Channel ==
  /\ ch1_ready_d <=> bank = "IDLE"
  /\ ~(mem_act /\ ls_act)
  /\ ls_act => bank # "IDLE" /\ ls_pend # "NO"
  /\ bank # "IDLE" /\ ~cut => mem_act \/ ls_act
  /\ bank = "IDLE" => ~cut
  /\ mem_act /\ resn => ~cut

(* The bus cycle of the CPU.  A reset comes with an enabled edge of        *)
(* CPU_CLK and lasts four cycles at least, enough to clear mem_pend_req    *)
(* and mem_act.                                                            *)
Cycle ==
  /\ ~resn => cpu = "IDLE"
  /\ cpu = "IDLE" /\ mem_act => ~resn
  /\ cpu = "IDLE" /\ mem_pend_req => ~resn /\ phase = 0
  /\ mem_pend_req => mem_readyn
  /\ mem_act /\ mem_pend_req => bank = "ASKED"
  /\ ~mem_readyn => cpu # "T1"
  /\ ~mem_readyn /\ mem_act => phase = 0 /\ ch1_ready_d

(* In T1 the bank cannot have come further than one stage in each cycle.   *)
InT1 ==
  mem_act /\ cpu = "T1" => \/ phase = 1 /\ bank = "ASKED"
                           \/ phase = 2 /\ bank \in {"ASKED", "OPEN"}
                           \/ phase = 3 /\ bank \in {"ASKED", "OPEN", "COMMAND"}

(* What the bank has latched is of the one it works for.                   *)
Latched ==
  /\ ls_act =>
       /\ src_d = LsSource
       /\ bank \in {"OPEN", "COMMAND", "READY"} => row = LsSource
       /\ bank \in {"COMMAND", "READY"} => col = LsSource
  /\ mem_act /\ ~cut =>
       /\ bank # "IDLE" /\ resn => src_d = CpuSource
       /\ bank \in {"OPEN", "COMMAND", "READY"} => row = CpuSource
       /\ bank \in {"COMMAND", "READY"} => col = CpuSource

(* The CPU's access has been carried out when its READY is kept for it.    *)
Done ==
  /\ mem_act /\ resn /\ bank = "IDLE" => served
  /\ ~mem_readyn /\ cpu = "T2" => served

IInv == Types /\ Channel /\ Cycle /\ InT1 /\ Latched /\ Done

-----------------------------------------------------------------------------
(* The invariant holds at the start.                                       *)
LEMMA InitInv == Init => IInv
<1> SUFFICES ASSUME Init PROVE IInv
  OBVIOUS
<1>1. Nobody \in Sources
  BY DEF Sources, Nobody
<1>2. pause \in Nat /\ rest \in 0 .. pause
  BY MemIfAssumption DEF Init
<1>3. stage \in 0 .. MaxStage /\ ls_dwell \in 0 .. 7 /\ phase \in 0 .. 3
  BY MemIfAssumption DEF Init
<1>4. Types
  BY <1>1, <1>2, <1>3 DEF Init, Types, TypeOK
<1>5. Channel /\ Cycle /\ InT1 /\ Latched /\ Done
  BY DEF Init, Channel, Cycle, InT1, Latched, Done
<1>6. QED
  BY <1>4, <1>5 DEF IInv

(* A step keeps the types.                                                 *)
LEMMA TypesStep == IInv /\ Next => Types'
<1> SUFFICES ASSUME Types, Next PROVE Types'
  BY DEF IInv
<1> USE DEF Types, TypeOK
<1>1. phase' \in 0 .. 3
  BY DEF Next
<1>2. /\ resn' \in BOOLEAN /\ cpu' \in {"IDLE", "T1", "T2"} /\ cpu_we' \in BOOLEAN
  BY DEF Next, CpuRuns, CpuReset
<1>3. /\ ls_pend' \in {"NO", "RD", "WE"} /\ pause' \in Nat /\ rest' \in 0 .. pause'
  BY DEF Next, LoaderSaver
<1>4. ls_dwell' \in 0 .. 7
  BY DEF Next, ArbiterClock, Dwell
<1>5. {mem_pend_req', mem_act', mem_readyn', ls_act', ch1_ready_d'} \subseteq BOOLEAN
  BY DEF Next, ArbiterClock, ch1_ready, READY
<1>6. Source \in Sources /\ Nobody \in Sources
  BY DEF Source, Sources, Nobody
<1>7. /\ bank' \in {"IDLE", "ASKED", "OPEN", "COMMAND", "READY"}
      /\ stage' \in 0 .. MaxStage
      /\ {src_d', row', col'} \subseteq Sources
  BY <1>6, MemIfAssumption DEF Next, BankClock, READY
<1>8. {served', cut'} \subseteq BOOLEAN
  BY DEF Next, Observe
<1>9. QED
  BY <1>1, <1>2, <1>3, <1>4, <1>5, <1>7, <1>8

(* A step keeps the ownership of the channel.                              *)
LEMMA ChannelStep == IInv /\ Next => Channel'
<1> SUFFICES ASSUME IInv, Next PROVE Channel'
  OBVIOUS
<1> USE DEF IInv, Types, TypeOK
<1>1. QED
  BY DEF Channel, Next, ArbiterClock, BankClock, LoaderSaver, Observe, CpuRuns, CpuReset,
     Cycle, ch1_ready, ch1_act, ch1_req, REQ, READY, mem_req, ls_req, ls_done, ls_act_dwell, mem_start_req

-----------------------------------------------------------------------------

(* The CPU is reset, stays so, waits, goes on to T2, or ends its cycle.    *)
LEMMA CpuMoves ==
  ASSUME IInv, Next
  PROVE  /\ \/ cpu' = "IDLE" /\ ~resn' /\ resn /\ phase = 3
            \/ cpu' = cpu /\ ~resn /\ (resn' => phase = 3)
            \/ cpu' = cpu /\ resn /\ resn' /\ (phase = 3 => cpu = "T2" /\ mem_readyn)
            \/ cpu = "T1" /\ cpu' = "T2" /\ resn /\ resn' /\ phase = 3
            \/ resn /\ resn' /\ phase = 3 /\ cpu' \in {"IDLE", "T1"}
                 /\ (cpu = "IDLE" \/ (cpu = "T2" /\ ~mem_readyn))
         /\ cpu_we' # cpu_we => resn /\ cpu' = "T1" /\ phase = 3
                                 /\ (cpu = "IDLE" \/ (cpu = "T2" /\ ~mem_readyn))
         /\ phase' = IF phase = 3 THEN 0 ELSE phase + 1
         /\ cpu' = "T1" => resn'
<1> USE DEF IInv, Types, TypeOK, Cycle
<1>1. \/ cpu' = "IDLE" /\ ~resn' /\ resn /\ phase = 3
      \/ cpu' = cpu /\ ~resn /\ (resn' => phase = 3)
      \/ cpu' = cpu /\ resn /\ resn' /\ (phase = 3 => cpu = "T2" /\ mem_readyn)
      \/ cpu = "T1" /\ cpu' = "T2" /\ resn /\ resn' /\ phase = 3
      \/ resn /\ resn' /\ phase = 3 /\ cpu' \in {"IDLE", "T1"}
           /\ (cpu = "IDLE" \/ (cpu = "T2" /\ ~mem_readyn))
  BY DEF Next, CpuRuns, CpuReset, CpuCE
<1>2. cpu_we' # cpu_we => resn /\ cpu' = "T1" /\ phase = 3
                           /\ (cpu = "IDLE" \/ (cpu = "T2" /\ ~mem_readyn))
  BY DEF Next, CpuRuns, CpuReset, CpuCE
<1>3. phase' = IF phase = 3 THEN 0 ELSE phase + 1
  BY DEF Next
<1>4. cpu' = "T1" => resn'
  BY <1>1
<1>5. QED
  BY <1>1, <1>2, <1>3, <1>4

(* The CPU keeps the channel, or gets it from an idle bank.                *)
LEMMA ActMoves ==
  ASSUME IInv, Next
  PROVE  /\ mem_pend_req' = ((mem_pend_req \/ cpu = "T1") /\ resn /\ ~mem_act)
         /\ mem_act' =>
              \/ mem_act /\ resn /\ ~(bank \in {"IDLE", "READY"} /\ ~mem_readyn)
              \/ /\ ~mem_act /\ ~ls_act /\ ~ls_req /\ mem_readyn
                 /\ bank = "IDLE" /\ bank' = "ASKED"
                 /\ cpu = "T1" \/ mem_pend_req
         /\ mem_readyn' = IF phase = 3
                          THEN cpu = "IDLE" \/ ~(mem_act /\ bank \in {"IDLE", "READY"})
                          ELSE mem_readyn
         /\ ch1_ready_d' = ch1_ready
<1> USE DEF IInv, Types, TypeOK, READY
<1>1. mem_act => (ch1_ready <=> bank \in {"IDLE", "READY"})
  BY DEF ch1_ready, ch1_act, Channel
<1>2. mem_pend_req' = ((mem_pend_req \/ cpu = "T1") /\ resn /\ ~mem_act)
  BY DEF Next, ArbiterClock, mem_start_req
<1>3. mem_act' =>
        \/ mem_act /\ resn /\ ~(ch1_ready /\ ~mem_readyn)
        \/ /\ ~mem_act /\ ~ls_act /\ ~ls_req /\ mem_readyn
           /\ bank = "IDLE" /\ bank' = "ASKED"
           /\ cpu = "T1" \/ mem_pend_req
  BY DEF Next, ArbiterClock, BankClock, Channel, REQ, ch1_act, mem_req, mem_start_req
<1>4. mem_readyn' = IF phase = 3 THEN cpu = "IDLE" \/ ~(mem_act /\ ch1_ready) ELSE mem_readyn
  BY DEF Next, ArbiterClock, CpuCE, mem_rdy
<1>5. ch1_ready_d' = ch1_ready
  BY DEF Next, ArbiterClock
<1>6. mem_readyn' = IF phase = 3
                    THEN cpu = "IDLE" \/ ~(mem_act /\ bank \in {"IDLE", "READY"})
                    ELSE mem_readyn
  BY <1>1, <1>4
<1>7. QED
  BY <1>1, <1>2, <1>3, <1>5, <1>6

(* The bank stays where it is, or goes one stage on.                       *)
LEMMA BankMoves ==
  ASSUME IInv, Next
  PROVE  /\ src_d' = Source
         /\ \/ bank = "IDLE" /\ bank' \in {"IDLE", "ASKED"} /\ row' = row /\ col' = col
            \/ bank = "ASKED" /\ bank' = "OPEN" /\ row' = src_d /\ col' = col
            \/ bank = "OPEN" /\ bank' = "COMMAND" /\ row' = row /\ col' = src_d
            \/ bank = "COMMAND" /\ bank' = "READY" /\ row' = row /\ col' = col
            \/ /\ bank \in {"ASKED", "OPEN", "COMMAND"}
               /\ bank' = bank /\ row' = row /\ col' = col
            \/ bank = "READY" /\ bank' = "IDLE"
BY DEF Next, BankClock, READY

(* A step keeps the bus cycle of the CPU.                                  *)
LEMMA CycleStep == IInv /\ Next => Cycle'
<1> SUFFICES ASSUME IInv, Next PROVE Cycle'
  OBVIOUS
<1> USE DEF IInv, Types, TypeOK, Cycle
<1>1. ~resn' => cpu' = "IDLE"
  BY CpuMoves
<1>2. cpu' = "IDLE" /\ mem_act' => ~resn'
  BY CpuMoves, ActMoves
<1>3. cpu' = "IDLE" /\ mem_pend_req' => ~resn' /\ phase' = 0
  <2> SUFFICES ASSUME cpu' = "IDLE", mem_pend_req' PROVE ~resn' /\ phase' = 0
    OBVIOUS
  <2>1. resn /\ (mem_pend_req \/ cpu = "T1")
    BY ActMoves
  <2>2. cpu # "IDLE" /\ ~(cpu = "T2" /\ ~mem_readyn)
    BY <2>1
  <2>3. QED
    BY <2>1, <2>2, CpuMoves
<1>4. mem_pend_req' => mem_readyn'
  BY ActMoves
<1>5. mem_act' /\ mem_pend_req' => bank' = "ASKED"
  BY ActMoves
<1>6. ~mem_readyn' => cpu' # "T1"
  BY CpuMoves, ActMoves
<1>7. ~mem_readyn' /\ mem_act' => phase' = 0 /\ ch1_ready_d'
  <2>1. CASE ~mem_readyn
    BY <2>1, ActMoves DEF Channel
  <2>2. CASE mem_readyn
    <3> SUFFICES ASSUME ~mem_readyn' PROVE phase' = 0 /\ ch1_ready_d'
      OBVIOUS
    <3>1. phase = 3 /\ mem_act /\ bank \in {"IDLE", "READY"}
      BY <2>2, ActMoves
    <3>2. ch1_ready
      BY <3>1 DEF Channel, ch1_ready, ch1_act, READY
    <3>3. QED
      BY <3>1, <3>2, ActMoves, CpuMoves
  <2>3. QED
    BY <2>1, <2>2
<1>8. QED
  BY <1>1, <1>2, <1>3, <1>4, <1>5, <1>6, <1>7

(* The access of a CPU in T1 has not come to its end.                      *)
LEMMA InT1Step == IInv /\ Next => InT1'
<1> SUFFICES ASSUME IInv, Next, mem_act', cpu' = "T1"
             PROVE  \/ phase' = 1 /\ bank' = "ASKED"
                    \/ phase' = 2 /\ bank' \in {"ASKED", "OPEN"}
                    \/ phase' = 3 /\ bank' \in {"ASKED", "OPEN", "COMMAND"}
  BY DEF InT1
<1> USE DEF IInv, Types, TypeOK, Cycle
<1>1. cpu = "T1" /\ phase # 3
  BY CpuMoves, ActMoves
<1>2. phase' = phase + 1
  BY <1>1, CpuMoves
<1>3. CASE mem_act
  BY <1>1, <1>2, <1>3, BankMoves DEF InT1
<1>4. CASE ~mem_act
  BY <1>1, <1>2, <1>4, ActMoves
<1>5. QED
  BY <1>3, <1>4

(* What the bank latches is of the one that has the channel.               *)
LEMMA LatchedStep == IInv /\ Next => Latched'
<1> SUFFICES ASSUME IInv, Next PROVE Latched'
  OBVIOUS
<1> USE DEF IInv, Types, TypeOK
<1>1. ASSUME ls_act'
      PROVE  /\ src_d' = LsSource'
             /\ bank' \in {"OPEN", "COMMAND", "READY"} => row' = LsSource'
             /\ bank' \in {"COMMAND", "READY"} => col' = LsSource'
  <2>1. ~ls_done /\ ls_pend # "NO" /\ (ls_act \/ (ls_req /\ bank = "IDLE" /\ bank' = "ASKED"))
    BY <1>1 DEF Next, ArbiterClock, BankClock, Channel, ch1_act, REQ, ls_req, READY
  <2>2. LsSource' = LsSource
    BY <2>1 DEF Next, LoaderSaver, LsSource
  <2>3. Source = LsSource
    BY <2>1 DEF Source, LsSource
  <2>4. bank # "READY" \/ ~ls_act
    BY <2>1 DEF ls_done, READY
  <2>5. QED
    BY <2>1, <2>2, <2>3, <2>4, BankMoves DEF Latched, Channel
<1>2. ASSUME mem_act', ~cut'
      PROVE  /\ bank' # "IDLE" /\ resn' => src_d' = CpuSource'
             /\ bank' \in {"OPEN", "COMMAND", "READY"} => row' = CpuSource'
             /\ bank' \in {"COMMAND", "READY"} => col' = CpuSource'
  <2>1. bank' # "IDLE" => ~cut /\ ~(mem_act /\ ~resn)
    BY <1>2 DEF Next, Observe
  <2>2. cpu_we' = cpu_we
    BY <1>2, CpuMoves, ActMoves DEF Cycle
  <2>3. CpuSource' = CpuSource
    BY <2>2 DEF CpuSource
  <2>4. CASE ~mem_act
    <3>1. bank' = "ASKED" /\ ~ls_act /\ ~ls_req /\ (cpu = "T1" \/ mem_pend_req)
      BY <1>2, <2>4, ActMoves
    <3>2. resn' => cpu # "IDLE"
      BY <3>1, CpuMoves DEF Cycle
    <3>3. resn' => Source = CpuSource
      BY <3>1, <3>2 DEF Source, CpuSource
    <3>4. QED
      BY <2>3, <3>1, <3>3, BankMoves
  <2>5. CASE mem_act
    <3>1. bank' # "IDLE" => bank # "IDLE" /\ resn /\ ~cut
      <4>1. bank = "IDLE" => bank' = "IDLE"
        BY <2>5 DEF Next, BankClock, READY, REQ, ch1_req, mem_req, ls_req
      <4>2. QED
        BY <2>1, <2>5, <4>1
    <3>2. resn => Source = CpuSource
      BY <2>5 DEF Source, CpuSource, ls_req, Channel, Cycle
    <3>3. QED
      BY <2>3, <2>5, <3>1, <3>2, BankMoves DEF Latched
  <2>6. QED
    BY <2>4, <2>5
<1>3. QED
  BY <1>1, <1>2 DEF Latched

(* READY is noted for the CPU in T2, and kept while it waits.              *)
LEMMA DoneStep == IInv /\ Next => Done'
<1> SUFFICES ASSUME IInv, Next PROVE Done'
  OBVIOUS
<1> USE DEF IInv, Types, TypeOK
<1>1. served /\ cpu' # "T1" => served'
  BY DEF Next, Observe
<1>2. bank = "READY" /\ mem_act /\ resn /\ cpu' # "T1" => served'
  <2> SUFFICES ASSUME bank = "READY", mem_act, resn, cpu' # "T1" PROVE served'
    OBVIOUS
  <2>1. row = CpuSource /\ col = CpuSource
    BY DEF Latched, Channel
  <2>2. QED
    BY <2>1 DEF Next, Observe, READY, CpuSource
<1>3. mem_act' /\ resn' /\ bank' = "IDLE" => served'
  <2> SUFFICES ASSUME mem_act', resn', bank' = "IDLE" PROVE served'
    OBVIOUS
  <2>1. mem_act /\ resn /\ bank \in {"IDLE", "READY"}
    BY ActMoves, BankMoves
  <2>2. cpu' # "T1"
    <3>1. InT1'
      BY InT1Step
    <3>2. QED
      BY <3>1 DEF InT1
  <2>3. QED
    BY <1>1, <1>2, <2>1, <2>2 DEF Done
<1>4. ~mem_readyn' /\ cpu' = "T2" => served'
  <2> SUFFICES ASSUME ~mem_readyn', cpu' = "T2" PROVE served'
    OBVIOUS
  <2>1. CASE ~mem_readyn
    BY <1>1, <2>1, CpuMoves DEF Done, Cycle
  <2>2. CASE mem_readyn
    <3>1. mem_act /\ resn /\ bank \in {"IDLE", "READY"}
      BY <2>2, ActMoves, CpuMoves DEF Cycle
    <3>2. QED
      BY <1>1, <1>2, <3>1 DEF Done
  <2>3. QED
    BY <2>1, <2>2
<1>5. QED
  BY <1>3, <1>4 DEF Done

(* The invariant is inductive, stuttering steps included.                  *)
LEMMA Inductive == IInv /\ [Next]_vars => IInv'
<1> SUFFICES ASSUME IInv, [Next]_vars PROVE IInv'
  OBVIOUS
<1>1. CASE Next
  BY <1>1, TypesStep, ChannelStep, CycleStep, InT1Step, LatchedStep, DoneStep DEF IInv
<1>2. CASE UNCHANGED vars
  BY <1>2 DEF vars, cpuvars, lsvars, memvars, bankvars, IInv, Types, TypeOK, Channel,
     Cycle, InT1, Latched, Done, CpuSource, LsSource
<1>3. QED
  BY <1>1, <1>2

(* Every reachable state satisfies it.                                     *)
LEMMA Invariance == Spec => []IInv
BY InitInv, Inductive, PTL DEF Spec

-----------------------------------------------------------------------------
(* Registers of the memory interface keep to their types.                  *)
THEOREM MemIfTypeCorrect == Spec => []TypeOK
<1>1. IInv => TypeOK
  BY DEF IInv, Types
<1>2. QED
  BY <1>1, Invariance, PTL

(* The bank gets a request only when it is idle (memif_sdram.sv:140-180),  *)
(* also when the CPU that asked for its last access was reset meanwhile.   *)
THEOREM OneRequestAtATime == Spec => []OneRequest
<1>1. IInv => OneRequest
  BY DEF IInv, Channel, OneRequest, REQ
<1>2. QED
  BY <1>1, Invariance, PTL

(* CPU and loader/saver are each answered for their own access, carried    *)
(* out with their own address and direction.                               *)
THEOREM EachAnsweredForItsOwn == Spec => []EachAnswered
<1>1. IInv => LsAnswered
  BY DEF IInv, Latched, LsAnswered, LsSource, ls_done, READY
<1>2. IInv => CpuAnswered
  BY DEF IInv, Done, CpuAnswered
<1>3. QED
  BY <1>1, <1>2, Invariance, PTL DEF EachAnswered

(* No access takes its row from one requester and its column and data from *)
(* the other, unless the CPU is reset in the middle of it.                 *)
THEOREM AccessesWhole == Spec => []AccessWhole
<1>1. IInv => AccessWhole
  BY DEF IInv, Channel, Latched, AccessWhole, CpuSource, LsSource, Nobody
<1>2. QED
  BY <1>1, Invariance, PTL
=============================================================================
