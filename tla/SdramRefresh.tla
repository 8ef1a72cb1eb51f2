---------------------------- MODULE SdramRefresh ----------------------------
(***************************************************************************)
(* Start-up and refresh of the SDRAM (sdram.sv): the counter that paces    *)
(* both, the refreshes driven by the horizontal blank of the video, and    *)
(* the credit that lets those stand in for the ones the counter would      *)
(* force.  The banks are reduced to how long they still need to go idle    *)
(* once they are paused (Sdram models them).  A step is one edge of clk.   *)
(*                                                                         *)
(* The numbers of the source (startup of 12100 cycles, one refresh in 670, *)
(* lines of 5460 cycles with a blank of 1140) are CONSTANTS, so that the   *)
(* same arithmetic can be checked at a smaller scale.                      *)
(*                                                                         *)
(* A definition named X_Y is X with a plausible mistake Y; it is not part  *)
(* of the specification, and shows that a property would notice.           *)
(***************************************************************************)
EXTENDS Integers

CONSTANTS
  TRC_MIN, TRP_MIN,
  startup_refresh_max,   \* largest value of refresh_count
  sdram_startup_cycles,
  cycles_per_refresh, cycles_per_row, cycles_per_hbl,
  credit_max,            \* largest value of refresh_credit
  MaxBusy,               \* most cycles a paused bank needs to go idle
  PllUnlocks,            \* whether init may come again after power-on
  VideoStops             \* whether a machine reset may stop the video

refresh_per_hbl == cycles_per_row \div cycles_per_refresh + 1
refresh_sys_wcnt_cnt == cycles_per_hbl \div (refresh_per_hbl - 1)

startup_mode_cnt == startup_refresh_max - 7
startup_ref2_cnt == startup_mode_cnt - TRC_MIN
startup_ref1_cnt == startup_ref2_cnt - TRC_MIN
startup_pchg_cnt == startup_ref1_cnt - TRP_MIN
startup_first    == startup_refresh_max - sdram_startup_cycles

ASSUME RefreshAssumption ==
  /\ {TRC_MIN, TRP_MIN, MaxBusy, credit_max, cycles_per_refresh, cycles_per_row} \subseteq Nat \ {0}
  /\ TRC_MIN >= 2 /\ cycles_per_refresh > MaxBusy + TRC_MIN + 1
  /\ cycles_per_hbl \in 1 .. cycles_per_row - 1 /\ cycles_per_refresh < cycles_per_row
  /\ startup_refresh_max \in Nat /\ startup_refresh_max > 2 * cycles_per_refresh
  /\ sdram_startup_cycles \in Nat /\ startup_first \in 1 .. startup_pchg_cnt - 1
  /\ PllUnlocks \in BOOLEAN /\ VideoStops \in BOOLEAN

(* What a line leaves over when all refreshes of its blank are given.      *)
Gain == refresh_per_hbl * cycles_per_refresh - cycles_per_row

(* The relations between line, blank and interval that the requests of the *)
(* blank rely on: each is served before the next is raised, all of them    *)
(* and one more fit in a line, and two lines leave over more than a forced *)
(* refresh may be late, a full credit and one line more than a line needs. *)
ASSUME BlankAssumption ==
  /\ refresh_sys_wcnt_cnt >= MaxBusy + TRC_MIN + 2
  /\ (refresh_per_hbl + 1) * (refresh_sys_wcnt_cnt + 1) < cycles_per_row
  /\ 2 * Gain >= 2 * TRC_MIN + MaxBusy + 3
  /\ (credit_max - 1) * cycles_per_refresh + Gain >= cycles_per_row + TRC_MIN + 1

VARIABLES
  state, command,
  refresh_count, refresh_due, refresh_credit, refresh_wait,
  refresh_sys_cnt, refresh_sys, refresh_sys_wcnt,
  h, hblank_d,     \* clock within the line (the blank comes first)
  busy,            \* cycles until all banks are idle
  \* observed, not part of the controller:
  debt,            \* clocks run since start-up less those refreshes paid for
  closed,          \* the rows have been closed since init
  rows             \* lines begun with the banks active, the video steady (to 3)

timervars == <<refresh_count, refresh_due, refresh_credit, refresh_wait>>
sysvars == <<refresh_sys_cnt, refresh_sys, refresh_sys_wcnt, hblank_d>>
vars == <<state, command, timervars, sysvars, h, busy, debt, closed, rows>>

hblank == h < cycles_per_hbl
refresh_start == refresh_due \/ refresh_sys
baidle == busy = 0

-----------------------------------------------------------------------------
(* Refreshes on the horizontal blank.                                      *)

HblankBegins == state # "STARTUP" /\ hblank /\ ~hblank_d

SysRaise == refresh_sys_cnt # 0 /\ ~refresh_sys /\ refresh_sys_wcnt = 0
SysDone  == refresh_sys_cnt # 0 /\ refresh_sys /\ state = "REFRESH"

HblankClock_OneShort ==
  /\ hblank_d' = hblank
  /\ refresh_sys' = ((refresh_sys \/ SysRaise) /\ ~SysDone)
  /\ refresh_sys_cnt' = IF SysDone THEN refresh_sys_cnt - 1
                        ELSE IF HblankBegins THEN refresh_per_hbl - 1
                        ELSE refresh_sys_cnt
  /\ refresh_sys_wcnt' = IF SysRaise THEN refresh_sys_wcnt_cnt
                         ELSE IF refresh_sys_wcnt = 0 THEN 0
                         ELSE refresh_sys_wcnt - 1

HblankClock ==
  /\ hblank_d' = hblank
  /\ refresh_sys' = ((refresh_sys \/ SysRaise) /\ ~SysDone)
  /\ refresh_sys_cnt' = IF SysDone THEN refresh_sys_cnt - 1
                        ELSE IF HblankBegins THEN refresh_per_hbl
                        ELSE refresh_sys_cnt
  /\ refresh_sys_wcnt' = IF SysRaise THEN refresh_sys_wcnt_cnt
                         ELSE IF refresh_sys_wcnt = 0 THEN 0
                         ELSE refresh_sys_wcnt - 1

-----------------------------------------------------------------------------
(* Main state machine.  The counter runs in every state; a command is one  *)
(* cycle long.  While init is held the state and the counter are those of  *)
(* a new start-up; what else the state does in that cycle, it does.        *)

Goto(s, n, init) ==
  /\ state' = IF init THEN "STARTUP" ELSE s
  /\ refresh_count' = IF init THEN startup_first ELSE n

Tick_Wide(n) == n + 1

Tick(n) == (n + 1) % (startup_refresh_max + 1)

StartupCommand ==
  CASE refresh_count = startup_pchg_cnt -> "LOAD_MODE"
    [] refresh_count \in {startup_ref1_cnt, startup_ref2_cnt} -> "AUTO_REFRESH"
    [] OTHER -> "NOP"

Startup(init) ==
  /\ state = "STARTUP"
  /\ command' = StartupCommand
  /\ IF refresh_count = 0 THEN Goto("ACTIVE", 0, init)
     ELSE Goto("STARTUP", Tick(refresh_count), init)
  /\ UNCHANGED <<refresh_due, refresh_credit, refresh_wait>>

Refresh_FreeCredit(init) ==
  /\ state = "REFRESH"
  /\ Goto(IF refresh_wait = 1 THEN "ACTIVE" ELSE state, Tick(refresh_count), init)
  /\ refresh_wait' = refresh_wait - 1
  /\ IF refresh_wait = TRC_MIN
     THEN /\ command' = "AUTO_REFRESH"
          /\ refresh_due' = FALSE
          /\ refresh_credit' = IF refresh_credit < credit_max
                               THEN refresh_credit + 1 ELSE refresh_credit
     ELSE /\ command' = "NOP"
          /\ UNCHANGED <<refresh_due, refresh_credit>>

Refresh(init) ==
  /\ state = "REFRESH"
  /\ Goto(IF refresh_wait = 1 THEN "ACTIVE" ELSE state, Tick(refresh_count), init)
  /\ refresh_wait' = refresh_wait - 1
  /\ IF refresh_wait = TRC_MIN
     THEN /\ command' = "AUTO_REFRESH"
          /\ refresh_due' = FALSE
          /\ refresh_credit' = IF ~refresh_due /\ refresh_credit < credit_max
                               THEN refresh_credit + 1 ELSE refresh_credit
     ELSE /\ command' = "NOP"
          /\ UNCHANGED <<refresh_due, refresh_credit>>

IntervalOver == ~refresh_due /\ refresh_count > cycles_per_refresh

Active(init) ==
  /\ state = "ACTIVE"
  /\ command' = "NOP"    \* or the selected bank's, see Sdram
  /\ Goto(IF baidle /\ refresh_start THEN "REFRESH" ELSE state,
          IF IntervalOver THEN refresh_count - cycles_per_refresh + 1
          ELSE Tick(refresh_count), init)
  /\ refresh_wait' = IF baidle /\ refresh_start THEN TRC_MIN ELSE refresh_wait
  /\ IF IntervalOver
     THEN /\ refresh_credit' = IF refresh_credit # 0 THEN refresh_credit - 1 ELSE 0
          /\ refresh_due' = (refresh_credit = 0)
     ELSE UNCHANGED <<refresh_credit, refresh_due>>

StateMachine ==
  \E init \in {FALSE, PllUnlocks} : Startup(init) \/ Refresh(init) \/ Active(init)

-----------------------------------------------------------------------------
(* The rest of the system.                                                 *)

Banks ==
  \/ busy' = IF busy = 0 \/ state' = "STARTUP" THEN 0 ELSE busy - 1
  \/ state = "ACTIVE" /\ ~refresh_start /\ state' = state /\ busy' = MaxBusy

VideoClock ==
  \/ h' = (h + 1) % cycles_per_row
  \/ VideoStops /\ h' \in {0, h}

Observe ==
  LET paid == IF command' = "AUTO_REFRESH" THEN cycles_per_refresh ELSE 0
      left == debt + 1 - paid
      least == -(credit_max + 1) * cycles_per_refresh
  IN /\ debt' = IF state = "STARTUP" THEN -(refresh_credit * cycles_per_refresh)
                ELSE IF left < least THEN least ELSE left
     /\ closed' = (state' = "STARTUP" /\ (closed \/ command' = "PRECHARGE"))
     /\ rows' = IF "STARTUP" \in {state, state'} THEN 0
                ELSE IF h' # (h + 1) % cycles_per_row THEN 0
                ELSE IF h' = 0 /\ rows < 3 THEN rows + 1 ELSE rows

Init ==
  /\ state = "STARTUP" /\ command = "NOP"
  /\ refresh_count = startup_first
  /\ refresh_due = FALSE /\ refresh_credit = 0 /\ refresh_wait = 0
  /\ refresh_sys_cnt = 0 /\ refresh_sys = FALSE /\ refresh_sys_wcnt = 0
  /\ hblank_d \in BOOLEAN
  /\ h \in 0 .. cycles_per_row - 1
  /\ busy = 0 /\ debt = 0 /\ closed = FALSE /\ rows = 0

Next ==
  /\ HblankClock
  /\ StateMachine
  /\ Banks
  /\ VideoClock
  /\ Observe

Spec == Init /\ [][Next]_vars

-----------------------------------------------------------------------------
(* Properties.                                                             *)

(* Counters keep to their widths; the refresh wait ends at 0 and never     *)
(* wraps.                                                                  *)
TypeOK ==
  /\ state \in {"STARTUP", "ACTIVE", "REFRESH"}
  /\ refresh_count \in 0 .. startup_refresh_max
  /\ refresh_due \in BOOLEAN /\ refresh_credit \in 0 .. credit_max
  /\ refresh_wait \in 0 .. TRC_MIN
  /\ refresh_sys_cnt \in 0 .. refresh_per_hbl /\ refresh_sys \in BOOLEAN
  /\ refresh_sys_wcnt \in 0 .. refresh_sys_wcnt_cnt

(* The memory keeps its contents: over any stretch of running time the     *)
(* refreshes given are never more than one interval, and the time it takes *)
(* to stop the banks, behind the time that passed.  Credit is only taken   *)
(* for a refresh that was really given, whether the blank or the counter   *)
(* asked for it.                                                           *)
RefreshesKeepUp ==
  state # "STARTUP" => debt <= cycles_per_refresh + MaxBusy + TRC_MIN + 4

(* In steady video the blank is enough.  Its refreshes are all given       *)
(* before the next blank begins; and from the third line on refreshes      *)
(* happen in the blank only and never where KING fetches: the ones the     *)
(* counter would force outside it are all paid for by credit, whatever a   *)
(* stopped video or a new init left in the counters.                       *)
RefreshInBlank ==
  /\ HblankBegins /\ rows >= 2 => refresh_sys_cnt = 0 /\ ~refresh_sys
  /\ rows = 3 /\ state = "REFRESH" =>
       h <= cycles_per_hbl + refresh_per_hbl + MaxBusy + TRC_MIN + 1

(* The comment on the start-up commands of sdram.sv: "ensure all rows are  *)
(* closed" comes before the first refresh and the mode register.           *)
RowsClosedFirst ==
  state = "STARTUP" /\ command \in {"AUTO_REFRESH", "LOAD_MODE"} => closed

=============================================================================
