---------------------------- MODULE KPortProofs ----------------------------
(***************************************************************************)
(* Proofs about the keypad port, for any length of the register and of a   *)
(* tick, any buttons and any use of the port by other code.                *)
(*                                                                         *)
(* Slot n of a transfer is the four cycles 4*n + 4 .. 4*n + 7 in which bit *)
(* n + 1 goes over the wire: n bits have been shifted before.              *)
(***************************************************************************)
EXTENDS KPort, TLAPS

Kinds == {"CTRL", "WLO", "WHI", "STATUS", "RLO", "RHI"}

Accesses == [kind : Kinds, left : 1 .. AccessClocks, word : Register,
             ios : BOOLEAN, trg : BOOLEAN]

Types ==
  /\ TypeOK
  /\ acc \in Accesses \cup {NoAccess}
  /\ obs \in {"NONE", "RUNS", "ENDED"} /\ seen \subseteq Words

(* The wires to the pad follow the cycle; a transfer that is observed is   *)
(* the one the sequencer works on, or one that it has finished.            *)
Wires ==
  /\ ~KP_LATCH <=> cycle \in 1 .. 4
  /\ ~KP_CLK <=> cycle >= 6 /\ cycle % 4 \in {2, 3}
  /\ obs = "RUNS" => cycle # 0
  /\ obs = "ENDED" => cycle = 0

InSlot(n) == cycle \in 4 * n + 4 .. 4 * n + 7

(* Bits n + 1 .. Bits of the word are first in reg.                        *)
Left(reg, word, n) == \A i \in 1 .. Bits - n : reg[i] = word[i + n]

(* Bits 1 .. n of the word are last in reg.                                *)
Come(reg, word, n) == \A j \in 1 .. n : reg[Bits - n + j] = word[j]

(* Listening: there is one state of the buttons of which the pad has still *)
(* what the port has not shifted in.                                       *)
Reads(n) ==
  \E w \in seen :
    /\ Left(sr, w, n) /\ Come(data_sr, w, n)
    /\ cycle % 4 \in {2, 3} => data_in_latched = w[n + 1]

Listening ==
  obs = "RUNS" /\ ios /\ resn /\ cycle >= 5 =>
    \A n \in 0 .. Bits - 1 : InSlot(n) => Reads(n)

(* Sending: the port's register goes round, and what has left it is in the *)
(* device.                                                                 *)
Sends(n) ==
  /\ Left(data_sr, sent, n) /\ Come(data_sr, sent, n) /\ Come(received, sent, n)
  /\ cycle % 4 \in {2, 3} => data_in_latched = sent[n + 1] /\ dout_latched = sent[n + 1]

Sending ==
  obs = "RUNS" /\ ~ios =>
    /\ cycle <= 4 => data_sr = sent
    /\ cycle >= 5 => \A n \in 0 .. Bits - 1 : InSlot(n) => Sends(n)

IInv == Types /\ Wires /\ Listening /\ Sending /\ TransferExact

-----------------------------------------------------------------------------
(* The cycles of a slot, and what is left of them by 4.                    *)
LEMMA SlotCycles ==
  ASSUME NEW n \in Nat, NEW r \in 0 .. 3
  PROVE  (4 * n + 4 + r) % 4 = r /\ (4 * n + 4 + r + 1) % 4 = (r + 1) % 4
OBVIOUS

(* A cycle from 4 on is in a slot.                                         *)
LEMMA SlotOf ==
  ASSUME NEW c \in 4 .. 4 * Bits + 3
  PROVE  \E n \in 0 .. Bits - 1, r \in 0 .. 3 : c = 4 * n + 4 + r
<1>1. c = 4 * (c \div 4) + (c % 4) /\ c % 4 \in 0 .. 3 /\ c \div 4 \in Int
  BY KPortAssumption
<1>2. c \div 4 - 1 \in 0 .. Bits - 1
  BY <1>1, KPortAssumption
<1>3. c = 4 * (c \div 4 - 1) + 4 + (c % 4)
  BY <1>1
<1>4. QED
  BY <1>1, <1>2, <1>3

(* A sequence of Bits bits is a register.                                  *)
LEMMA IsRegister ==
  ASSUME NEW s \in Seq(BOOLEAN), Len(s) = Bits
  PROVE  s \in Register
BY DEF Register

(* A shift drops the first bit and takes a last one.                       *)
LEMMA ShiftedIs ==
  ASSUME NEW reg \in Register, NEW bit \in BOOLEAN
  PROVE  /\ Shifted(reg, bit) \in Register
         /\ \A i \in 1 .. Bits - 1 : Shifted(reg, bit)[i] = reg[i + 1]
         /\ Shifted(reg, bit)[Bits] = bit
<1>1. reg \in Seq(BOOLEAN) /\ Len(reg) = Bits
  BY KPortAssumption DEF Register
<1>2. /\ Tail(reg) \in Seq(BOOLEAN) /\ Len(Tail(reg)) = Bits - 1
      /\ \A i \in 1 .. Bits - 1 : Tail(reg)[i] = reg[i + 1]
  BY <1>1, KPortAssumption
<1>3. /\ Append(Tail(reg), bit) \in Seq(BOOLEAN)
      /\ Len(Append(Tail(reg), bit)) = Bits
      /\ \A i \in 1 .. Bits - 1 : Append(Tail(reg), bit)[i] = Tail(reg)[i]
      /\ Append(Tail(reg), bit)[Bits] = bit
  BY <1>1, <1>2, KPortAssumption
<1>4. Append(Tail(reg), bit) \in Register
  BY <1>3, IsRegister
<1>5. ASSUME NEW i \in 1 .. Bits - 1
      PROVE  Append(Tail(reg), bit)[i] = reg[i + 1]
  BY <1>2, <1>3, Zenon
<1> DEFINE shifted == Append(Tail(reg), bit)
<1> HIDE DEF shifted
<1>6. /\ shifted \in Register
      /\ \A i \in 1 .. Bits - 1 : shifted[i] = reg[i + 1]
      /\ shifted[Bits] = bit
  BY <1>3, <1>4, <1>5 DEF shifted
<1>7. Shifted(reg, bit) = shifted
  BY DEF Shifted, shifted
<1>8. QED
  BY <1>6, <1>7

(* A register with a whole word in it is the word.                         *)
LEMMA AllCome ==
  ASSUME NEW reg \in Register, NEW word \in Register, Come(reg, word, Bits)
  PROVE  reg = word
<1>1. Bits \in Nat
  BY KPortAssumption
<1>2. \A j \in 1 .. Bits : reg[j] = word[j]
  BY <1>1 DEF Come
<1>3. /\ reg = [i \in 1 .. Bits |-> reg[i]]
      /\ word = [i \in 1 .. Bits |-> word[i]]
  BY Zenon DEF Register
<1>4. [i \in 1 .. Bits |-> reg[i]] = [i \in 1 .. Bits |-> word[i]]
  BY <1>2, Zenon
<1>5. QED
  BY <1>3, <1>4, Zenon

(* Two halves make a register.                                             *)
LEMMA HalvesMake ==
  ASSUME NEW a \in Register, NEW b \in Register
  PROVE  Lo(a) \o Hi(b) \in Register
<1> DEFINE h == Bits \div 2
<1>1. h \in 1 .. Bits /\ Bits = 2 * h /\ Bits \in Nat
  BY KPortAssumption
<1> HIDE DEF h
<1>2. a \in Seq(BOOLEAN) /\ Len(a) = Bits /\ b \in Seq(BOOLEAN) /\ Len(b) = Bits
  BY <1>1 DEF Register
<1>3. SubSeq(a, 1, h) \in Seq(BOOLEAN) /\ Len(SubSeq(a, 1, h)) = h
  BY <1>1, <1>2
<1>4. SubSeq(b, h + 1, Bits) \in Seq(BOOLEAN) /\ Len(SubSeq(b, h + 1, Bits)) = h
  BY <1>1, <1>2
<1>5. /\ SubSeq(a, 1, h) \o SubSeq(b, h + 1, Bits) \in Seq(BOOLEAN)
      /\ Len(SubSeq(a, 1, h) \o SubSeq(b, h + 1, Bits)) = Bits
  BY <1>1, <1>3, <1>4
<1>6. SubSeq(a, 1, h) \o SubSeq(b, h + 1, Bits) \in Register
  BY <1>5, IsRegister
<1>7. Lo(a) \o Hi(b) = SubSeq(a, 1, h) \o SubSeq(b, h + 1, Bits)
  BY Zenon DEF Lo, Hi, h
<1>8. QED
  BY <1>6, <1>7, Zenon

(* A shift takes a register from one slot to the next.                     *)
LEMMA ShiftMoves ==
  ASSUME NEW reg \in Register, NEW bit \in BOOLEAN, NEW word \in Register,
         NEW n \in 0 .. Bits - 1
  PROVE  /\ Left(reg, word, n) => Left(Shifted(reg, bit), word, n + 1)
         /\ Come(reg, word, n) /\ bit = word[n + 1] => Come(Shifted(reg, bit), word, n + 1)
<1> DEFINE s == Shifted(reg, bit)
<1>1. /\ \A i \in 1 .. Bits - 1 : s[i] = reg[i + 1]
      /\ s[Bits] = bit
  BY ShiftedIs
<1>2. Bits \in Nat
  BY KPortAssumption
<1> HIDE DEF s
<1>3. ASSUME Left(reg, word, n), NEW i \in 1 .. Bits - (n + 1)
      PROVE  s[i] = word[i + (n + 1)]
  BY <1>1, <1>2, <1>3 DEF Left
<1>4. ASSUME Come(reg, word, n), bit = word[n + 1], NEW j \in 1 .. n + 1
      PROVE  s[Bits - (n + 1) + j] = word[j]
  <2>1. CASE j = n + 1
    BY <1>1, <1>2, <1>4, <2>1
  <2>2. CASE j \in 1 .. n
    BY <1>1, <1>2, <1>4, <2>2 DEF Come
  <2>3. QED
    BY <1>2, <2>1, <2>2
<1>5. QED
  BY <1>3, <1>4 DEF Left, Come, s

-----------------------------------------------------------------------------
(* The registers have values of their kinds.                               *)
LEMMA Constants ==
  /\ Bits \in Nat /\ Bits >= 2 /\ TickLen \in Nat /\ TickLen >= 2
  /\ AccessClocks \in Nat /\ AccessClocks >= 1
  /\ Words \subseteq Register /\ Zeros \in Register
BY KPortAssumption DEF Register, Zeros

(* The sequencer counts to the end of a transfer and no further.           *)
LEMMA Counts ==
  Types /\ Sequencer =>
    /\ ccnt' \in 0 .. TickLen - 1
    /\ cycle' \in 0 .. 4 * Bits + 3
    /\ {busy', KP_LATCH', KP_CLK', data_in_latched'} \subseteq BOOLEAN
    /\ busy' <=> cycle' # 0
<1> SUFFICES ASSUME Types, Sequencer
    PROVE /\ ccnt' \in 0 .. TickLen - 1
          /\ cycle' \in 0 .. 4 * Bits + 3
          /\ {busy', KP_LATCH', KP_CLK', data_in_latched'} \subseteq BOOLEAN
          /\ busy' <=> cycle' # 0
  OBVIOUS
<1> USE Constants
<1>1. ccnt' \in 0 .. TickLen - 1
  BY DEF Types, TypeOK, Sequencer
<1>2. sr[1] \in BOOLEAN /\ data_sr[1] \in BOOLEAN
  BY DEF Types, TypeOK, Register
<1>3. data_in \in BOOLEAN
  BY <1>2 DEF data_in, KP_DIN, KP_DOUT
<1>a. {run, ~port_latch, ~clkout} \subseteq BOOLEAN /\ (run => cycle # 4 * Bits + 3)
  BY DEF run, done
<1>4. CASE ~tick
  BY <1>1, <1>4 DEF Types, TypeOK, Sequencer
<1>5. CASE tick
  <2>0. cycle \in 0 .. 4 * Bits + 3
    BY DEF Types, TypeOK
  <2>1. /\ cycle' = IF run THEN cycle + 1 ELSE 0
        /\ busy' = run /\ KP_LATCH' = ~port_latch /\ KP_CLK' = ~clkout
        /\ data_in_latched' = IF data_latch THEN data_in ELSE data_in_latched
    BY <1>5 DEF Sequencer
  <2>2. cycle' \in 0 .. 4 * Bits + 3 /\ (run <=> cycle' # 0)
    BY <1>a, <2>0, <2>1
  <2>3. {busy', KP_LATCH', KP_CLK', data_in_latched'} \subseteq BOOLEAN
    BY <1>3, <1>a, <2>1 DEF Types, TypeOK
  <2>4. busy' <=> cycle' # 0
    BY <2>1, <2>2, Zenon
  <2>5. QED
    BY <1>1, <2>2, <2>3, <2>4
<1>6. QED
  BY <1>4, <1>5

(* The data register is one, whatever is written.                          *)
LEMMA DataType ==
  Types /\ PortClock =>
    /\ data_sr' \in Register
    /\ {trg_set', trg', kend', ios'} \subseteq BOOLEAN
<1> SUFFICES ASSUME Types, PortClock
    PROVE /\ data_sr' \in Register
          /\ {trg_set', trg', kend', ios'} \subseteq BOOLEAN
  OBVIOUS
<1>1. data_sr \in Register /\ data_in_latched \in BOOLEAN
  BY DEF Types, TypeOK
<1>2. acc.kind \in Kinds => acc.word \in Register /\ acc.ios \in BOOLEAN
  BY DEF Types, Accesses, NoAccess, Kinds
<1>3. CASE ~resn
  BY <1>3, Constants DEF PortClock, PortReset
<1>4. CASE resn
  <2>1. Registers
    BY <1>4 DEF PortClock
  <2>2. data_sr' \in Register
    <3>1. Shifted(data_sr, data_in_latched) \in Register
      BY <1>1, ShiftedIs
    <3>2. acc.kind \in {"WLO", "WHI"} =>
            /\ Lo(acc.word) \o Hi(data_sr) \in Register
            /\ Lo(data_sr) \o Hi(acc.word) \in Register
      BY <1>1, <1>2, HalvesMake DEF Kinds
    <3>3. QED
      BY <1>1, <2>1, <3>1, <3>2 DEF Registers
  <2>3. {trg_set', trg', kend'} \subseteq BOOLEAN
    BY <2>1 DEF Registers, Trg, kend_p, trg_reset
  <2>4. ios' \in BOOLEAN
    BY <1>2, <2>1 DEF Registers, Kinds, Types, TypeOK
  <2>5. QED
    BY <2>2, <2>3, <2>4
<1>5. QED
  BY <1>3, <1>4

(* An access is one of those the program and other code make.              *)
LEMMA AccessType ==
  Types /\ ProgramClock => acc' \in Accesses \cup {NoAccess}
<1> SUFFICES ASSUME Types, ProgramClock
    PROVE acc' \in Accesses \cup {NoAccess}
  OBVIOUS
<1>1. \A k \in Kinds, w \in Register, i, t \in BOOLEAN : Access(k, w, i, t) \in Accesses
  BY Constants DEF Access, Accesses
<1>2. CASE ~resn
  BY <1>2 DEF ProgramClock
<1>3. CASE resn /\ acc = NoAccess /\ Request
  BY <1>1, <1>3, Constants DEF Request, Starts, Kinds
<1>4. CASE resn /\ acc = NoAccess /\ Stray
  BY <1>1, <1>4, Constants DEF Stray, Kinds, Types, TypeOK
<1>5. CASE resn /\ acc # NoAccess /\ AccessClock
  <2>1. acc \in Accesses
    BY <1>5 DEF Types
  <2>2. acc.left > 1 => [acc EXCEPT !.left = @ - 1] \in Accesses
    BY <2>1, Constants DEF Accesses
  <2>3. QED
    BY <1>5, <2>2 DEF AccessClock
<1>6. QED
  BY <1>2, <1>3, <1>4, <1>5 DEF ProgramClock

(* Every step keeps the kinds of the registers.                            *)
LEMMA TypesStep == IInv /\ Next => Types'
<1> SUFFICES ASSUME IInv, Next PROVE Types'
  OBVIOUS
<1>0. Types
  BY DEF IInv
<1>1. PICK HMI \in Words : PadClock(HMI) /\ Observe(HMI)
  BY DEF Next
<1>2. resn' \in BOOLEAN /\ PortClock /\ DeviceClock /\ ProgramClock
  BY DEF Next
<1>3. /\ ccnt' \in 0 .. TickLen - 1
      /\ cycle' \in 0 .. 4 * Bits + 3
      /\ {busy', KP_LATCH', KP_CLK', data_in_latched'} \subseteq BOOLEAN
      /\ busy' <=> cycle' # 0
  <2>1. CASE resn
    BY <1>0, <1>2, <2>1, Counts DEF PortClock
  <2>2. CASE ~resn
    <3>1. PortReset
      BY <1>2, <2>2 DEF PortClock
    <3>2. ccnt' \in 0 .. TickLen - 1 /\ cycle' \in 0 .. 4 * Bits + 3
      BY <3>1, Constants DEF PortReset
    <3>3. /\ {busy', KP_LATCH', KP_CLK', data_in_latched'} \subseteq BOOLEAN
          /\ busy' <=> cycle' # 0
      BY <3>1, Zenon DEF PortReset
    <3>4. QED
      BY <3>2, <3>3
  <2>3. QED
    BY <2>1, <2>2
<1>4. data_sr' \in Register /\ {trg_set', trg', kend', ios'} \subseteq BOOLEAN
  BY <1>0, <1>2, DataType
<1>5. sr' \in Register
  <2>1. Shifted(sr, FALSE) \in Register
    BY <1>0, ShiftedIs DEF Types, TypeOK
  <2>2. QED
    BY <1>0, <1>1, <2>1, Constants DEF PadClock, Types, TypeOK
<1>6. received' \in Register /\ dout_latched' \in BOOLEAN
  <2>1. Shifted(received, dout_latched) \in Register /\ dout_latched \in BOOLEAN
    BY <1>0, ShiftedIs DEF Types, TypeOK
  <2>2. data_sr'[1] \in BOOLEAN
    BY <1>4, Constants DEF Register
  <2>3. (KP_DOUT)' \in BOOLEAN
    BY <2>2 DEF KP_DOUT
  <2>4. QED
    BY <1>0, <1>2, <2>1, <2>3, Constants DEF DeviceClock, Types, TypeOK
<1>7. sent' \in Register /\ obs' \in {"NONE", "RUNS", "ENDED"}
  BY <1>0, <1>1, Constants DEF Observe, Types, TypeOK
<1>8. acc' \in Accesses \cup {NoAccess}
  BY <1>0, <1>2, AccessType
<1>9. seen' \subseteq Words
  BY <1>0, <1>1, <1>7 DEF Observe, Types
<1>10. QED
  BY <1>2, <1>3, <1>4, <1>5, <1>6, <1>7, <1>8, <1>9 DEF Types, TypeOK

-----------------------------------------------------------------------------
(* What a step does to the cycle, and to the transfer that is observed.    *)
LEMMA CycleMoves ==
  Types /\ resn /\ Next =>
    \/ ~tick /\ UNCHANGED <<cycle, KP_LATCH, KP_CLK, data_in_latched>>
    \/ /\ tick /\ cycle' = (IF run THEN cycle + 1 ELSE 0)
       /\ (KP_LATCH' <=> ~port_latch) /\ (KP_CLK' <=> ~clkout)
       /\ data_in_latched' = IF data_latch THEN data_in ELSE data_in_latched
       /\ run <=> ~done /\ (cycle # 0 \/ go)
<1> SUFFICES ASSUME Types, resn, Next
    PROVE \/ ~tick /\ UNCHANGED <<cycle, KP_LATCH, KP_CLK, data_in_latched>>
          \/ /\ tick /\ cycle' = (IF run THEN cycle + 1 ELSE 0)
             /\ (KP_LATCH' <=> ~port_latch) /\ (KP_CLK' <=> ~clkout)
             /\ data_in_latched' = IF data_latch THEN data_in ELSE data_in_latched
             /\ run <=> ~done /\ (cycle # 0 \/ go)
  OBVIOUS
<1>1. Sequencer
  BY DEF Next, PortClock
<1>2. run <=> ~done /\ (cycle # 0 \/ go)
  BY DEF run, Types, TypeOK
<1>3. tick => (KP_LATCH' <=> ~port_latch) /\ (KP_CLK' <=> ~clkout)
  BY <1>1, Zenon DEF Sequencer
<1>4. QED
  BY <1>1, <1>2, <1>3 DEF Sequencer

(* A transfer begins, or goes on, only in a step that does not spoil it.   *)
LEMMA Observed ==
  ASSUME Types, Next, obs' # "NONE"
  PROVE  /\ resn /\ ios' = ios
         /\ data_sr' = IF shift /\ tick THEN Shifted(data_sr, data_in_latched) ELSE data_sr
         /\ \/ tick /\ go /\ obs' = "RUNS" /\ sent' = data_sr
            \/ /\ ~(tick /\ go) /\ sent' = sent /\ seen \subseteq seen'
               /\ \/ obs = "RUNS" /\ obs' = "RUNS" /\ ~trg_reset
                  \/ obs = "RUNS" /\ obs' = "ENDED" /\ trg_reset
                  \/ obs = "ENDED" /\ obs' = "ENDED" /\ seen' = seen
<1>1. PICK HMI \in Words : Observe(HMI)
  BY DEF Next
<1>2. resn /\ ~Spoils
  BY <1>1 DEF Observe
<1>3. Registers
  BY <1>2 DEF Next, PortClock
<1>4. ios' = ios
  BY <1>2, <1>3 DEF Registers, Spoils
<1>5. data_sr' = IF shift /\ tick THEN Shifted(data_sr, data_in_latched) ELSE data_sr
  BY <1>2, <1>3 DEF Registers, Spoils
<1>6. CASE tick /\ go
  <2>1. obs' = "RUNS" /\ sent' = data_sr
    BY <1>1, <1>2, <1>6 DEF Observe
  <2>2. QED
    BY <1>2, <1>4, <1>5, <1>6, <2>1
<1>7. CASE ~(tick /\ go)
  <2>1. obs' = IF obs = "RUNS" /\ trg_reset THEN "ENDED" ELSE obs
    BY <1>1, <1>2, <1>7 DEF Observe
  <2>2. sent' = sent
    BY <1>1, <1>7, <2>1 DEF Observe
  <2>3. seen' = IF obs' = "RUNS" THEN seen \cup {HMI} ELSE seen
    BY <1>1, <1>7, <2>1 DEF Observe, Types
  <2>4. obs \in {"NONE", "RUNS", "ENDED"}
    BY DEF Types
  <2>5. QED
    BY <1>2, <1>4, <1>5, <1>7, <2>1, <2>2, <2>3, <2>4
<1>8. QED
  BY <1>6, <1>7

(* Every step keeps the wires as the sequencer has them.                    *)
LEMMA WiresStep == IInv /\ Next => Wires'
<1> SUFFICES ASSUME IInv, Next PROVE Wires'
  OBVIOUS
<1>0. Types /\ Wires
  BY DEF IInv
<1>1. cycle \in 0 .. 4 * Bits + 3 /\ Bits \in Nat
  BY <1>0, Constants DEF Types, TypeOK
<1>2. ~KP_LATCH' <=> cycle' \in 1 .. 4
  <2>1. CASE ~resn
    BY <2>1 DEF Next, PortClock, PortReset
  <2>2. CASE resn /\ tick
    <3>1. KP_LATCH' <=> ~port_latch
      BY <1>0, <2>2, CycleMoves
    <3>2. cycle' = (IF run THEN cycle + 1 ELSE 0) /\ (port_latch <=> run /\ cycle <= 3)
      BY <1>0, <2>2, CycleMoves DEF port_latch
    <3>3. port_latch <=> cycle' \in 1 .. 4
      BY <1>1, <3>2
    <3>4. QED
      BY <3>1, <3>3
  <2>3. CASE resn /\ ~tick
    BY <1>0, <2>3, CycleMoves DEF Wires
  <2>4. QED
    BY <2>1, <2>2, <2>3
<1>3. ~KP_CLK' <=> cycle' >= 6 /\ cycle' % 4 \in {2, 3}
  <2>1. CASE ~resn
    BY <2>1 DEF Next, PortClock, PortReset
  <2>2. CASE resn /\ tick
    <3>1. (KP_CLK' <=> ~clkout) /\ cycle' = (IF run THEN cycle + 1 ELSE 0)
      BY <1>0, <2>2, CycleMoves
    <3>2. clkout <=> cycle >= 5 /\ (cycle + 1) % 4 \in {2, 3}
      BY DEF clkout, xfer
    <3>3. CASE run
      BY <1>1, <3>1, <3>2, <3>3
    <3>4. CASE ~run
      <4>1. cycle = 0 \/ cycle = 4 * Bits + 3
        BY <1>0, <2>2, <3>4, CycleMoves DEF done
      <4>2. (4 * Bits + 4) % 4 = 0
        BY <1>1
      <4>3. ~clkout
        BY <1>1, <3>2, <4>1, <4>2
      <4>4. QED
        BY <3>1, <3>4, <4>3
    <3>5. QED
      BY <3>3, <3>4
  <2>3. CASE resn /\ ~tick
    BY <1>0, <2>3, CycleMoves DEF Wires
  <2>4. QED
    BY <2>1, <2>2, <2>3
<1>4. ASSUME obs' = "RUNS" PROVE cycle' # 0
  BY <1>0, <1>1, <1>4, Observed, CycleMoves DEF Wires, trg_reset, done, go
<1>5. ASSUME obs' = "ENDED" PROVE cycle' = 0
  BY <1>0, <1>1, <1>5, Observed, CycleMoves DEF Wires, trg_reset, done, go
<1>6. QED
  BY <1>2, <1>3, <1>4, <1>5 DEF Wires

-----------------------------------------------------------------------------
(* A tick in a slot: the bit is latched and put on the wire with the first *)
(* edge of KP_CLK, and shifted with the second.                            *)
LEMMA SlotTick ==
  ASSUME IInv, Next, resn, tick, (cycle # 0 /\ run) \/ done,
         NEW n \in 0 .. Bits - 1, NEW r \in 0 .. 3, cycle = 4 * n + 4 + r
  PROVE  /\ data_latch <=> r = 1
         /\ shift <=> r = 3
         /\ cycle % 4 = r
         /\ cycle # 4 => ~(~KP_LATCH /\ KP_LATCH')
         /\ KP_CLK /\ ~KP_CLK' <=> r = 1
         /\ ~KP_CLK /\ KP_CLK' <=> r = 3
<1>0. Types /\ Wires /\ Wires'
  BY WiresStep DEF IInv
<1>1. n \in Nat /\ Bits \in Nat /\ cycle \in Nat
  BY Constants
<1>2. cycle % 4 = r /\ (cycle + 1) % 4 = (r + 1) % 4
  BY <1>1, SlotCycles
<1>3. (data_latch <=> r = 1) /\ (shift <=> r = 3)
  BY <1>1, <1>2 DEF data_latch, shift, xfer
<1>4. ~KP_CLK <=> r \in {2, 3}
  BY <1>0, <1>1, <1>2 DEF Wires
<1>5. cycle' = IF done THEN 0 ELSE cycle + 1
  BY <1>0, CycleMoves
<1>6. ~KP_CLK' <=> r \in {1, 2}
  <2>1. CASE done
    BY <1>0, <1>1, <1>5, <2>1 DEF Wires, done
  <2>2. CASE ~done
    BY <1>0, <1>1, <1>2, <1>5, <2>2 DEF Wires
  <2>3. QED
    BY <2>1, <2>2
<1>7. cycle # 4 => KP_LATCH
  BY <1>0, <1>1 DEF Wires
<1>8. QED
  BY <1>2, <1>3, <1>4, <1>6, <1>7

(* Between the ticks of a transfer nothing moves.                          *)
LEMMA NoTick ==
  ASSUME IInv, Next, obs' # "NONE", ~tick
  PROVE  /\ UNCHANGED <<cycle, data_in_latched, data_sr, received, dout_latched>>
         /\ resn' => sr' = sr
<1>1. UNCHANGED <<cycle, KP_LATCH, KP_CLK, data_in_latched, data_sr>>
  BY Observed, CycleMoves DEF IInv
<1>2. UNCHANGED <<received, dout_latched>>
  BY <1>1 DEF Next, DeviceClock
<1>3. resn' => sr' = sr
  BY <1>1 DEF Next, PadClock
<1>4. QED
  BY <1>1, <1>2, <1>3

(* Every step keeps the bits of the device that have been seen.             *)
LEMMA ListeningStep == IInv /\ Next => Listening'
<1> SUFFICES ASSUME IInv, Next, obs' = "RUNS", ios', resn', cycle' >= 5,
                    NEW n \in 0 .. Bits - 1, InSlot(n)'
             PROVE  Reads(n)'
  BY DEF Listening
<1>0. Types /\ Wires /\ Listening /\ Wires' /\ Types'
  BY WiresStep, TypesStep DEF IInv
<1>1. PICK HMI \in Words : PadClock(HMI) /\ Observe(HMI)
  BY DEF Next
<1>2. resn /\ ios
  BY <1>0, Observed
<1>3. cycle \in 0 .. 4 * Bits + 3 /\ Bits \in Nat
  BY <1>0, Constants DEF Types, TypeOK
<1>4. obs = "RUNS" /\ ~trg_reset /\ seen \subseteq seen'
  <2>1. ~(tick /\ go)
    BY <1>0, <1>2, <1>3, CycleMoves DEF go, done
  <2>2. QED
    BY <1>0, <2>1, Observed
<1>5. HMI \in seen'
  BY <1>1, <1>4 DEF Observe
<1>6. CASE ~tick
  <2>1. UNCHANGED <<cycle, data_in_latched, data_sr, sr>>
    BY <1>6, NoTick
  <2>2. Reads(n)
    BY <1>0, <1>2, <1>4, <2>1 DEF Listening, InSlot
  <2>3. QED
    BY <1>4, <2>1, <2>2 DEF Reads, Left, Come
<1>7. CASE tick
  <2>1. run /\ ~done /\ cycle' = cycle + 1 /\ cycle >= 4
    BY <1>0, <1>2, <1>3, <1>4, <1>7, CycleMoves DEF Wires, trg_reset
  <2>2. CASE cycle = 4
    <3>1. sr' = HMI /\ n = 0 /\ cycle' % 4 = 1
      <4>1. ~KP_LATCH /\ KP_LATCH'
        BY <1>0, <2>1, <2>2 DEF Wires
      <4>2. QED
        BY <1>1, <1>3, <2>1, <2>2, <4>1 DEF PadClock, InSlot
    <3>2. Left(sr', HMI, 0) /\ Come(data_sr', HMI, 0)
      BY <1>3, <3>1 DEF Left, Come
    <3>3. QED
      BY <1>5, <3>1, <3>2 DEF Reads, Left, Come
  <2>3. CASE cycle >= 5
    <3>0. cycle \in 4 .. 4 * Bits + 3
      BY <1>3, <2>3
    <3>1. PICK m \in 0 .. Bits - 1, r \in 0 .. 3 : cycle = 4 * m + 4 + r
      BY <3>0, SlotOf, Zenon
    <3>2. PICK w \in seen : /\ Left(sr, w, m) /\ Come(data_sr, w, m)
                            /\ cycle % 4 \in {2, 3} => data_in_latched = w[m + 1]
      BY <1>0, <1>2, <1>3, <1>4, <2>3, <3>1 DEF Listening, InSlot, Reads
    <3>3. w \in Register /\ w \in seen'
      BY <1>0, <1>4, Constants DEF Types
    <3>4. /\ data_latch <=> r = 1
          /\ shift <=> r = 3
          /\ cycle % 4 = r
          /\ ~(~KP_LATCH /\ KP_LATCH')
          /\ ~KP_CLK /\ KP_CLK' <=> r = 3
      BY <1>2, <1>7, <2>1, <2>3, <3>1, SlotTick
    <3>5. cycle' % 4 = (r + 1) % 4
      BY <1>3, <2>1, <3>1, SlotCycles
    <3>6. data_sr' = IF r = 3 THEN Shifted(data_sr, data_in_latched) ELSE data_sr
      BY <1>0, <1>7, <3>4, Observed
    <3>7. sr' = IF r = 3 THEN Shifted(sr, FALSE) ELSE sr
      BY <1>1, <3>4 DEF PadClock
    <3>8. data_in_latched' = IF r = 1 THEN data_in ELSE data_in_latched
      BY <1>0, <1>2, <1>7, <3>4, CycleMoves
    <3>9. sr \in Register /\ data_sr \in Register /\ data_in_latched \in BOOLEAN
      BY <1>0 DEF Types, TypeOK
    <3>10. CASE r = 3
      <4>1. n = m + 1
        BY <1>3, <2>1, <3>1, <3>10 DEF InSlot
      <4>2. Left(sr', w, n) /\ Come(data_sr', w, n)
        BY <3>2, <3>3, <3>4, <3>6, <3>7, <3>9, <3>10, <4>1, ShiftMoves
      <4>3. cycle' % 4 = 0
        BY <3>5, <3>10
      <4>4. QED
        BY <3>3, <4>2, <4>3 DEF Reads, Left, Come
    <3>11. CASE r # 3
      <4>1. n = m
        BY <1>3, <2>1, <3>1, <3>11 DEF InSlot
      <4>2. Left(sr', w, n) /\ Come(data_sr', w, n)
        BY <3>2, <3>6, <3>7, <3>11, <4>1
      <4>3. cycle' % 4 \in {2, 3} => data_in_latched' = w[n + 1]
        <5>1. CASE r = 1
          <6>1. sr[1] = w[m + 1] /\ sr[1] \in BOOLEAN
            BY <1>3, <3>2, <3>9 DEF Left, Register
          <6>2. data_in = sr[1]
            BY <1>2, <6>1, Zenon DEF data_in, KP_DIN
          <6>3. QED
            BY <3>8, <4>1, <5>1, <6>1, <6>2
        <5>2. CASE r = 2
          BY <3>2, <3>4, <3>8, <4>1, <5>2
        <5>3. CASE r = 0
          BY <3>5, <5>3
        <5>4. QED
          BY <3>11, <5>1, <5>2, <5>3
      <4>4. QED
        BY <3>3, <4>2, <4>3 DEF Reads, Left, Come
    <3>12. QED
      BY <3>10, <3>11
  <2>4. QED
    BY <1>3, <2>1, <2>2, <2>3
<1>8. QED
  BY <1>6, <1>7

(* Every step keeps the bits that remain to be sent.                        *)
LEMMA SendingStep == IInv /\ Next => Sending'
<1> SUFFICES ASSUME IInv, Next, obs' = "RUNS", ~ios'
             PROVE  /\ cycle' <= 4 => data_sr' = sent'
                    /\ cycle' >= 5 => \A n \in 0 .. Bits - 1 : InSlot(n)' => Sends(n)'
  BY DEF Sending
<1>0. Types /\ Wires /\ Sending /\ Wires' /\ Types'
  BY WiresStep, TypesStep DEF IInv
<1>1. DeviceClock
  BY DEF Next
<1>2. resn /\ ~ios
  BY <1>0, Observed
<1>3. cycle \in 0 .. 4 * Bits + 3 /\ Bits \in Nat /\ Bits >= 2
  BY <1>0, Constants DEF Types, TypeOK
<1>4. CASE tick /\ go
  <2>1. cycle = 0 /\ cycle' = 1 /\ ~shift
    BY <1>0, <1>2, <1>3, <1>4, CycleMoves DEF go, done, shift, xfer
  <2>2. data_sr' = sent'
    BY <1>0, <1>4, <2>1, Observed
  <2>3. QED
    BY <2>1, <2>2
<1>5. CASE ~(tick /\ go)
  <2>1. obs = "RUNS" /\ ~trg_reset /\ sent' = sent
    BY <1>0, <1>5, Observed
  <2>2. CASE ~tick
    <3>1. UNCHANGED <<cycle, data_in_latched, data_sr, received, dout_latched>>
      BY <2>2, NoTick
    <3>2. QED
      BY <1>0, <1>2, <2>1, <3>1 DEF Sending, InSlot, Sends, Left, Come
  <2>3. CASE tick
    <3>1. run /\ ~done /\ cycle' = cycle + 1 /\ cycle # 0
      BY <1>0, <1>2, <1>3, <2>1, <2>3, CycleMoves DEF Wires, trg_reset
    <3>2. data_sr' = IF shift THEN Shifted(data_sr, data_in_latched) ELSE data_sr
      BY <1>0, <2>3, Observed
    <3>3. CASE cycle <= 4
      <4>1. data_sr' = sent'
        BY <1>0, <1>2, <1>3, <2>1, <3>2, <3>3 DEF shift, xfer, Sending
      <4>2. ASSUME NEW n \in 0 .. Bits - 1, InSlot(n)', cycle' >= 5
            PROVE  Sends(n)'
        <5>1. n = 0 /\ cycle' % 4 = 1
          BY <1>3, <3>1, <3>3, <4>2 DEF InSlot
        <5>2. Left(data_sr', sent', 0) /\ Come(data_sr', sent', 0) /\ Come(received', sent', 0)
          BY <1>3, <4>1 DEF Left, Come
        <5>3. QED
          BY <5>1, <5>2 DEF Sends, Left, Come
      <4>3. QED
        BY <4>1, <4>2
    <3>4. CASE cycle >= 5
      <4>0. cycle \in 4 .. 4 * Bits + 3
        BY <1>3, <3>4
      <4>1. PICK m \in 0 .. Bits - 1, r \in 0 .. 3 : cycle = 4 * m + 4 + r
        BY <4>0, SlotOf, Zenon
      <4>2. Sends(m)
        BY <1>0, <1>2, <1>3, <2>1, <3>4, <4>1 DEF Sending, InSlot
      <4>3. /\ data_latch <=> r = 1
            /\ shift <=> r = 3
            /\ cycle % 4 = r
            /\ ~(~KP_LATCH /\ KP_LATCH')
            /\ KP_CLK /\ ~KP_CLK' <=> r = 1
            /\ ~KP_CLK /\ KP_CLK' <=> r = 3
        BY <1>2, <2>3, <3>1, <3>4, <4>1, SlotTick
      <4>4. cycle' % 4 = (r + 1) % 4
        BY <1>3, <3>1, <4>1, SlotCycles
      <4>5. received' = IF r = 3 THEN Shifted(received, dout_latched) ELSE received
        BY <1>1, <4>3 DEF DeviceClock
      <4>6. dout_latched' = IF r = 1 THEN ~(KP_DOUT') ELSE dout_latched
        BY <1>1, <4>3 DEF DeviceClock
      <4>7. data_in_latched' = IF r = 1 THEN data_in ELSE data_in_latched
        BY <1>0, <1>2, <2>3, <4>3, CycleMoves
      <4>8. /\ data_sr \in Register /\ received \in Register /\ sent \in Register
            /\ data_in_latched \in BOOLEAN /\ dout_latched \in BOOLEAN
        BY <1>0 DEF Types, TypeOK
      <4>9. ~(cycle' <= 4)
        BY <3>1, <3>4, <1>3
      <4>10. ASSUME NEW n \in 0 .. Bits - 1, InSlot(n)'
             PROVE  Sends(n)'
        <5>1. CASE r = 3
          <6>1. n = m + 1
            BY <1>3, <3>1, <4>1, <4>10, <5>1 DEF InSlot
          <6>2. Left(data_sr', sent', n) /\ Come(data_sr', sent', n)
            BY <2>1, <3>2, <4>2, <4>3, <4>8, <5>1, <6>1, ShiftMoves DEF Sends
          <6>3. Come(received', sent', n)
            BY <2>1, <4>2, <4>3, <4>5, <4>8, <5>1, <6>1, ShiftMoves DEF Sends
          <6>4. cycle' % 4 = 0
            BY <4>4, <5>1
          <6>5. QED
            BY <6>2, <6>3, <6>4 DEF Sends, Left, Come
        <5>2. CASE r # 3
          <6>1. n = m
            BY <1>3, <3>1, <4>1, <4>10, <5>2 DEF InSlot
          <6>2. data_sr' = data_sr /\ received' = received
            BY <3>2, <4>3, <4>5, <5>2
          <6>3. CASE r = 1
            <7>1. data_sr[1] = sent[m + 1] /\ data_sr[1] \in BOOLEAN
              BY <1>3, <4>2, <4>8 DEF Sends, Left, Register
            <7>2. xfer /\ ~done /\ xfer' /\ ~done'
              BY <1>3, <3>1, <3>4, <4>1, <6>3 DEF xfer, done
            <7>3. (~KP_DOUT) = data_sr[1] /\ (~(KP_DOUT')) = data_sr[1]
              BY <1>2, <6>2, <7>1, <7>2 DEF KP_DOUT
            <7>4. data_in = (~KP_DOUT)
              BY <1>2, Zenon DEF data_in
            <7>5. data_in_latched' = sent'[n + 1] /\ dout_latched' = sent'[n + 1]
              BY <2>1, <4>6, <4>7, <6>1, <6>3, <7>1, <7>3, <7>4
            <7>6. QED
              BY <2>1, <4>2, <6>1, <6>2, <7>5 DEF Sends, Left, Come
          <6>4. CASE r = 2
            BY <2>1, <4>2, <4>3, <4>6, <4>7, <6>1, <6>2, <6>4 DEF Sends, Left, Come
          <6>5. CASE r = 0
            <7>1. cycle' % 4 = 1
              BY <4>4, <6>5
            <7>2. QED
              BY <2>1, <4>2, <6>1, <6>2, <7>1 DEF Sends, Left, Come
          <6>6. QED
            BY <5>2, <6>3, <6>4, <6>5
        <5>3. QED
          BY <5>1, <5>2
      <4>11. QED
        BY <4>9, <4>10
    <3>5. QED
      BY <1>3, <3>3, <3>4
  <2>4. QED
    BY <2>2, <2>3
<1>6. QED
  BY <1>4, <1>5

(* The end of a transfer: the last bit completes the word.                 *)
LEMMA TransferStep == IInv /\ Next => TransferExact'
<1> SUFFICES ASSUME IInv, Next, obs' = "ENDED"
             PROVE  IF ios' THEN data_sr' \in seen' ELSE data_sr' = sent' /\ received' = sent'
  BY DEF TransferExact
<1>0. Types /\ Wires /\ Listening /\ Sending /\ TransferExact /\ Wires' /\ Types'
  BY WiresStep, TypesStep DEF IInv
<1>1. resn /\ ios' = ios /\ sent' = sent /\ seen \subseteq seen' /\ DeviceClock
  BY <1>0, Observed DEF Next
<1>2. cycle \in 0 .. 4 * Bits + 3 /\ Bits \in Nat /\ Bits >= 2
  BY <1>0, Constants DEF Types, TypeOK
<1>3. CASE obs = "ENDED"
  <2>1. cycle = 0 /\ ~shift /\ KP_LATCH /\ KP_CLK
    BY <1>0, <1>3 DEF Wires, shift, xfer
  <2>2. data_sr' = data_sr
    BY <1>0, <2>1, Observed
  <2>3. received' = received
    BY <1>1, <2>1 DEF DeviceClock
  <2>4. QED
    BY <1>0, <1>1, <1>3, <2>2, <2>3 DEF TransferExact
<1>4. CASE obs = "RUNS" /\ trg_reset
  <2>1. tick /\ done /\ cycle = 4 * (Bits - 1) + 4 + 3
    BY <1>2, <1>4 DEF trg_reset, done
  <2>2. /\ shift /\ cycle % 4 = 3
        /\ ~(~KP_LATCH /\ KP_LATCH') /\ ~KP_CLK /\ KP_CLK'
    <3>1. Bits - 1 \in 0 .. Bits - 1 /\ 3 \in 0 .. 3 /\ cycle # 4
      BY <1>2, <2>1
    <3>2. QED
      BY <1>1, <2>1, <3>1, SlotTick
  <2>3. data_sr' = Shifted(data_sr, data_in_latched)
    BY <1>0, <2>1, <2>2, Observed
  <2>4. received' = Shifted(received, dout_latched)
    BY <1>1, <2>2 DEF DeviceClock
  <2>5. /\ data_sr \in Register /\ received \in Register /\ sent \in Register
        /\ data_in_latched \in BOOLEAN /\ dout_latched \in BOOLEAN
        /\ data_sr' \in Register /\ received' \in Register
    BY <1>0 DEF Types, TypeOK
  <2>6. cycle >= 5 /\ InSlot(Bits - 1) /\ Bits - 1 \in 0 .. Bits - 1 /\ Bits - 1 + 1 = Bits
    BY <1>2, <2>1 DEF InSlot
  <2>7. CASE ios
    <3>1. Reads(Bits - 1)
      BY <1>0, <1>1, <1>4, <2>6, <2>7 DEF Listening
    <3>2. PICK w \in seen : Come(data_sr, w, Bits - 1) /\ data_in_latched = w[Bits - 1 + 1]
      BY <2>2, <3>1 DEF Reads
    <3>3. w \in Register
      BY <1>0, Constants DEF Types
    <3>4. Come(data_sr', w, Bits)
      BY <2>3, <2>5, <2>6, <3>2, <3>3, ShiftMoves
    <3>5. data_sr' = w
      BY <2>5, <3>3, <3>4, AllCome
    <3>6. QED
      BY <1>1, <2>7, <3>5
  <2>8. CASE ~ios
    <3>1. Sends(Bits - 1)
      BY <1>0, <1>4, <2>6, <2>8 DEF Sending
    <3>2. /\ Come(data_sr, sent, Bits - 1) /\ Come(received, sent, Bits - 1)
          /\ data_in_latched = sent[Bits - 1 + 1] /\ dout_latched = sent[Bits - 1 + 1]
      BY <2>2, <3>1 DEF Sends
    <3>3. Come(data_sr', sent, Bits) /\ Come(received', sent, Bits)
      BY <2>3, <2>4, <2>5, <2>6, <3>2, ShiftMoves
    <3>4. data_sr' = sent /\ received' = sent
      BY <2>5, <3>3, AllCome
    <3>5. QED
      BY <1>1, <2>8, <3>4
  <2>9. QED
    BY <2>7, <2>8
<1>5. QED
  BY <1>0, <1>3, <1>4, Observed

-----------------------------------------------------------------------------
(* The invariant holds after power-up.                                      *)
LEMMA InitInv == Init => IInv
<1> SUFFICES ASSUME Init PROVE IInv
  OBVIOUS
<1>1. Types
  <2>1. cycle \in 0 .. 4 * Bits + 3 /\ ccnt \in 0 .. TickLen - 1
    BY Constants DEF Init
  <2>2. (busy <=> cycle # 0) /\ {data_sr, sr, received, sent} \subseteq Register
    BY Constants, Zenon DEF Init
  <2>3. QED
    BY <2>1, <2>2, Constants DEF Init, Types, TypeOK
<1>2. Wires
  BY DEF Init, Wires
<1>3. Listening /\ Sending /\ TransferExact
  BY DEF Init, Listening, Sending, TransferExact
<1>4. QED
  BY <1>1, <1>2, <1>3 DEF IInv

(* The invariant is kept by every step.                                    *)
LEMMA Inductive == IInv /\ [Next]_vars => IInv'
<1>1. CASE Next
  BY <1>1, TypesStep, WiresStep, ListeningStep, SendingStep, TransferStep DEF IInv
<1>2. CASE UNCHANGED vars
  BY <1>2 DEF vars, seqvars, regvars, IInv, Types, TypeOK, Wires, Listening, InSlot, Reads,
     Left, Come, Sending, Sends, TransferExact
<1>3. QED
  BY <1>1, <1>2

(* The invariant holds in every state.                                      *)
LEMMA Invariance == Spec => []IInv
BY InitInv, Inductive, PTL DEF Spec

(* The cycle counter of the port never leaves its range, and busy says     *)
(* exactly that it counts.                                                 *)
THEOREM TypeCorrect == Spec => []TypeOK
<1>1. IInv => TypeOK
  BY DEF IInv, Types
<1>2. QED
  BY <1>1, Invariance, PTL

(* For any register and tick length, and whatever other code does to the   *)
(* port: a transfer that ends has read one state of the buttons, or has    *)
(* sent its word whole.                                                    *)
THEOREM TransfersAreExact == Spec => []TransferExact
<1>1. IInv => TransferExact
  BY DEF IInv
<1>2. QED
  BY <1>1, Invariance, PTL

=============================================================================
