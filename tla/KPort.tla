------------------------------- MODULE KPort -------------------------------
(***************************************************************************)
(* The keypad port (fx_ga_kpc.sv), the pad at its other end (hmi2kp.sv)    *)
(* and the program that uses it.  A trigger starts a serial transfer: the  *)
(* pad loads its buttons when KP_LATCH rises and shifts when KP_CLK rises, *)
(* while the port shifts its data register the same way, in or out.  The   *)
(* end of a transfer sets a flag, which a read of the data clears.         *)
(*                                                                         *)
(* A step is an enabled edge of CLK, at which the port works, and the edge *)
(* without CE that follows, at which the pad sees what the port did.       *)
(* Registers are sequences of bits, the one that is shifted out first.     *)
(*                                                                         *)
(* A definition named X_Y is X with a plausible mistake Y; it is not part  *)
(* of the specification, and shows that a property would notice.           *)
(***************************************************************************)
EXTENDS Integers, Sequences

CONSTANTS
  Bits,           \* length of the data register; 32 in the source
  TickLen,        \* clocks of a tick, the 16 of ccnt in the source
  AccessClocks,   \* clocks in which an access holds RDn or WRn; 5 in fx_ga.sv
  Words,          \* what the buttons can be, and what the program sends
  StrayUses       \* what code other than the program may do to the port

ASSUME KPortAssumption ==
  /\ Bits \in 2 .. 62 /\ Bits % 2 = 0
  /\ TickLen \in Nat \ {0, 1}
  /\ AccessClocks \in Nat \ {0}
  /\ StrayUses \subseteq SUBSET {"READ", "TRIGGER", "TURN", "WRITE"}
  /\ Words # {} /\ Words \subseteq [1 .. Bits -> BOOLEAN]

VARIABLES
  resn,
  ccnt, cycle, busy, KP_LATCH, KP_CLK, data_in_latched,
  trg_set, trg, kend, ios, data_sr,
  sr,             \* the shift register of the pad
  dout_latched, received,   \* a device that listens, as in kpc_tb.sv
  prog, acc,      \* the program, and its access to the port
  stray,          \* what other code does to the port, when it likes
  \* observed:
  obs, seen, sent \* the transfer, the buttons during it, what it sends

seqvars == <<ccnt, cycle, busy, KP_LATCH, KP_CLK, data_in_latched>>
regvars == <<trg_set, trg, kend, ios, data_sr>>
vars == <<resn, seqvars, regvars, sr, dout_latched, received, prog, acc,
          stray, obs, seen, sent>>

Zeros == [i \in 1 .. Bits |-> FALSE]
Shifted(reg, bit) == Append(Tail(reg), bit)
Lo(word) == SubSeq(word, 1, Bits \div 2)
Hi(word) == SubSeq(word, Bits \div 2 + 1, Bits)

-----------------------------------------------------------------------------
(* Wires of the port.                                                      *)

tick == ccnt = TickLen - 1
go == cycle = 0 /\ trg /\ ~busy

done_Early == cycle = 4 * Bits + 2

done == cycle = 4 * Bits + 3

run_Endless == cycle # 0 \/ go \/ busy

run == (cycle # 0 \/ go \/ busy) /\ ~done
port_latch == run /\ cycle <= 3
xfer == cycle >= 5
data_latch == xfer /\ cycle % 4 = 1
shift == xfer /\ cycle % 4 = 3
clkout == xfer /\ (cycle + 1) % 4 \in {2, 3}

KP_DIN == ~sr[1]
KP_DOUT == ~(~ios /\ xfer /\ ~done /\ data_sr[1])
data_in == IF ios THEN ~KP_DIN ELSE ~KP_DOUT

trg_reset == tick /\ done
data_rd == acc.kind = "RLO"
kend_p == (kend \/ trg_reset) /\ ~data_rd    \* also INT

-----------------------------------------------------------------------------
(* Registers of the port.                                                  *)

Sequencer ==
  /\ ccnt' = (ccnt + 1) % TickLen
  /\ IF tick
     THEN /\ cycle' = IF run THEN cycle + 1 ELSE 0
          /\ busy' = run
          /\ KP_LATCH' = ~port_latch
          /\ KP_CLK' = ~clkout
          /\ data_in_latched' = IF data_latch THEN data_in ELSE data_in_latched
     ELSE UNCHANGED <<cycle, busy, KP_LATCH, KP_CLK, data_in_latched>>

Trg_Pulse == trg' = (trg_set /\ ~trg_reset)

(* The trigger is kept until a transfer ends.                              *)
Trg == trg' = ((trg \/ trg_set) /\ ~trg_reset)

Registers ==
  /\ Trg
  /\ kend' = kend_p
  /\ trg_set' = (acc.kind = "CTRL" /\ acc.trg)
  /\ ios' = IF acc.kind = "CTRL" THEN acc.ios ELSE ios
  /\ data_sr' =
       IF shift /\ tick THEN Shifted(data_sr, data_in_latched)
       ELSE CASE acc.kind = "WLO" -> Lo(acc.word) \o Hi(data_sr)
              [] acc.kind = "WHI" -> Lo(data_sr) \o Hi(acc.word)
              [] OTHER -> data_sr

PortReset ==
  /\ ccnt' = 0 /\ cycle' = 0 /\ busy' = FALSE
  /\ KP_LATCH' = TRUE /\ KP_CLK' = TRUE /\ data_in_latched' = FALSE
  /\ trg_set' = FALSE /\ trg' = FALSE /\ kend' = FALSE
  /\ ios' = TRUE /\ data_sr' = Zeros

PortClock == (resn /\ Sequencer /\ Registers) \/ (~resn /\ PortReset)

-----------------------------------------------------------------------------
(* The edge that follows: the pad, whose buttons change at any time, and   *)
(* the listening device.  RESn may change at either edge.                  *)

PadClock(HMI) ==
  sr' = IF ~resn' THEN Zeros
        ELSE IF ~KP_LATCH /\ KP_LATCH' THEN HMI
        ELSE IF ~KP_CLK /\ KP_CLK' THEN Shifted(sr, FALSE)
        ELSE sr

DeviceClock ==
  /\ dout_latched' = IF KP_CLK /\ ~KP_CLK' THEN ~KP_DOUT' ELSE dout_latched
  /\ received' = IF ~KP_LATCH /\ KP_LATCH' THEN Zeros
                 ELSE IF ~KP_CLK /\ KP_CLK' THEN Shifted(received, dout_latched)
                 ELSE received

-----------------------------------------------------------------------------
(* The program: writes what it sends, if anything, triggers, waits for the *)
(* end by the flag or the interrupt, and reads both halves.                *)

Access(kind, word, to, trigger) ==
  [kind |-> kind, left |-> AccessClocks, word |-> word, ios |-> to, trg |-> trigger]
NoAccess == [kind |-> "NONE"]

Starts(kind, next) ==
  /\ acc' = Access(kind, Zeros, FALSE, FALSE)
  /\ prog' = next

Request ==
  \/ prog = "REST" /\ UNCHANGED <<prog, acc>>
  \/ prog = "REST" /\ acc' = Access("CTRL", Zeros, TRUE, TRUE) /\ prog' = "WAIT"
  \/ \E w \in Words :
       \/ prog = "REST" /\ acc' = Access("WLO", w, FALSE, FALSE) /\ prog' = "SEND"
       \/ prog = "SEND" /\ acc' = Access("WHI", w, FALSE, FALSE) /\ prog' = "GO"
  \/ prog = "GO" /\ acc' = Access("CTRL", Zeros, FALSE, TRUE) /\ prog' = "WAIT"
  \/ prog = "WAIT" /\ Starts("STATUS", "WAIT")
  \/ prog = "WAIT" /\ kend_p /\ prog' = "LO" /\ UNCHANGED acc
  \/ prog = "LO" /\ Starts("RLO", "HI")
  \/ prog = "HI" /\ Starts("RHI", "REST")

Stray ==
  /\ UNCHANGED prog
  /\ \/ "READ" \in stray /\ acc' = Access("RLO", Zeros, FALSE, FALSE)
     \/ "TRIGGER" \in stray /\ acc' = Access("CTRL", Zeros, ios, TRUE)
     \/ "TURN" \in stray /\ acc' = Access("CTRL", Zeros, ~ios, FALSE)
     \/ /\ "WRITE" \in stray
        /\ \E w \in Words, kind \in {"WLO", "WHI"} : acc' = Access(kind, w, FALSE, FALSE)

(* An access goes on, or ends; the flag is sampled at its last clock.      *)
AccessClock ==
  /\ acc' = IF acc.left > 1 THEN [acc EXCEPT !.left = @ - 1] ELSE NoAccess
  /\ prog' = IF acc.kind = "STATUS" /\ acc.left = 1 /\ kend
             THEN "LO" ELSE prog

ProgramClock ==
  \/ ~resn /\ acc' = NoAccess /\ prog' = "REST"
  \/ resn /\ acc = NoAccess /\ (Request \/ Stray)
  \/ resn /\ acc # NoAccess /\ AccessClock

-----------------------------------------------------------------------------
(* A transfer counts until the program writes the data, or turns the       *)
(* direction around.                                                       *)
Spoils == acc.kind \in {"WLO", "WHI"} \/ (acc.kind = "CTRL" /\ acc.ios # ios)

Observe(HMI) ==
  /\ obs' = IF ~resn \/ Spoils THEN "NONE"
            ELSE IF tick /\ go THEN "RUNS"
            ELSE IF obs = "RUNS" /\ trg_reset THEN "ENDED"
            ELSE obs
  /\ seen' = CASE obs' = "NONE" -> {}
               [] obs' = "ENDED" -> seen
               [] obs' = "RUNS" -> (IF tick /\ go THEN {} ELSE seen) \cup {HMI}
  /\ sent' = IF obs' = "NONE" THEN Zeros ELSE IF tick /\ go THEN data_sr ELSE sent

Init ==
  /\ resn = FALSE
  /\ ccnt = 0 /\ cycle = 0 /\ busy = FALSE
  /\ KP_LATCH = TRUE /\ KP_CLK = TRUE /\ data_in_latched = FALSE
  /\ trg_set = FALSE /\ trg = FALSE /\ kend = FALSE /\ ios = TRUE
  /\ data_sr = Zeros /\ sr = Zeros
  /\ dout_latched = FALSE /\ received = Zeros
  /\ prog = "REST" /\ acc = NoAccess /\ stray \in StrayUses
  /\ obs = "NONE" /\ seen = {} /\ sent = Zeros

Next ==
  /\ resn' \in BOOLEAN
  /\ PortClock
  /\ DeviceClock
  /\ ProgramClock
  /\ \E HMI \in Words : PadClock(HMI) /\ Observe(HMI)
  /\ UNCHANGED stray

Spec == Init /\ [][Next]_vars /\ WF_vars(Next)

-----------------------------------------------------------------------------
(* Properties.                                                             *)

Register == [1 .. Bits -> BOOLEAN]

(* The cycle counter ends with the last bit and never wraps; registers     *)
(* have values of their kinds.                                             *)
TypeOK ==
  /\ cycle \in 0 .. 4 * Bits + 3 /\ ccnt \in 0 .. TickLen - 1
  /\ {resn, busy, KP_LATCH, KP_CLK, data_in_latched, trg_set, trg, kend, ios,
      dout_latched} \subseteq BOOLEAN
  /\ {data_sr, sr, received, sent} \subseteq Register
  /\ busy <=> cycle # 0

(* A transfer is whole.  What the port has read is what the buttons were   *)
(* at one moment of the transfer, never a mixture of two; what it has      *)
(* written arrived bit for bit, and is still in the register.  Reads of    *)
(* the port, further triggers and changing buttons do not disturb it.      *)
TransferExact ==
  obs = "ENDED" =>
    IF ios THEN data_sr \in seen ELSE data_sr = sent /\ received = sent

(* A program that triggers a transfer and reads the data only when it has  *)
(* seen the end, by flag or interrupt, always gets there.  Other code that *)
(* reads the data meanwhile may take the end away (kend_p).                *)
ResultReceived == prog = "WAIT" /\ stray = {} ~> prog = "REST"

=============================================================================
