------------------------- MODULE SdramRefreshProofs -------------------------
(***************************************************************************)
(* Proofs about the refresh of the SDRAM, for any lengths of interval,     *)
(* line and blank that the assumption of SdramRefresh allows.              *)
(***************************************************************************)
EXTENDS SdramRefresh, TLAPS

(* The intervals that have passed are paid for by refreshes, by credit, or *)
(* by the one that is due; the rest of the debt is on the counter.         *)
Accounts ==
  state # "STARTUP" =>
    debt <= refresh_count - refresh_credit * cycles_per_refresh
              + (IF refresh_due THEN cycles_per_refresh ELSE 0)

(* The counter is looked at only while the banks are active, so a refresh  *)
(* lets it run on by TRC_MIN; what is due waits for the banks and for      *)
(* nothing else, and is met by the first cycle of REFRESH.                 *)
Counter ==
  /\ state = "ACTIVE" /\ ~refresh_due => refresh_count <= cycles_per_refresh + TRC_MIN + 1
  /\ state = "ACTIVE" /\ refresh_due => refresh_count + busy <= TRC_MIN + MaxBusy + 2
  /\ state = "REFRESH" /\ ~refresh_due =>
       refresh_count + refresh_wait <= cycles_per_refresh + TRC_MIN + 1
  /\ state = "REFRESH" /\ refresh_due =>
       refresh_wait = TRC_MIN /\ refresh_count <= TRC_MIN + MaxBusy + 3

(* Kinds that TypeOK leaves out, and where the counters stand.             *)
Observed ==
  /\ debt \in Int /\ rows \in 0 .. 3 /\ busy \in 0 .. MaxBusy
  /\ state = "STARTUP" => busy = 0
  /\ state = "REFRESH" => refresh_wait >= 1

IInv == TypeOK /\ Observed /\ Counter /\ Accounts

-----------------------------------------------------------------------------

(* A length holds a shorter one at least once.                             *)
LEMMA Quotient ==
  ASSUME NEW a \in Nat, NEW b \in Nat \ {0}
  PROVE  a \div b \in Nat /\ (b < a => a \div b \in Nat \ {0})
OBVIOUS

(* The derived lengths are counts.                                         *)
LEMMA Lengths ==
  /\ refresh_per_hbl \in Nat \ {0}
  /\ refresh_sys_wcnt_cnt \in Nat
  /\ startup_first \in 0 .. startup_refresh_max
<1> USE RefreshAssumption
<1> /\ cycles_per_row \in Nat /\ cycles_per_refresh \in Nat \ {0}
    /\ cycles_per_refresh < cycles_per_row
  OBVIOUS
<1>1. cycles_per_row \div cycles_per_refresh \in Nat \ {0}
  BY Quotient
<1>2. refresh_per_hbl - 1 \in Nat \ {0} /\ cycles_per_hbl \in Nat
  BY <1>1 DEF refresh_per_hbl
<1>3. cycles_per_hbl \div (refresh_per_hbl - 1) \in Nat
  BY <1>2, Quotient
<1>4. startup_first <= startup_refresh_max
  BY DEF startup_first
<1>5. QED
  BY <1>1, <1>3, <1>4 DEF refresh_per_hbl, refresh_sys_wcnt_cnt

(* A unit of credit is an interval.                                        *)
LEMMA CreditUnits ==
  ASSUME NEW c \in 0 .. credit_max
  PROVE  /\ c * cycles_per_refresh \in Nat
         /\ (c + 1) * cycles_per_refresh = c * cycles_per_refresh + cycles_per_refresh
         /\ (c - 1) * cycles_per_refresh = c * cycles_per_refresh - cycles_per_refresh
         /\ c * cycles_per_refresh <= (credit_max + 1) * cycles_per_refresh
         /\ -(credit_max + 1) * cycles_per_refresh = -((credit_max + 1) * cycles_per_refresh)
BY RefreshAssumption

(* Below its end the counter just counts.                                  *)
LEMMA TickCounts ==
  ASSUME NEW n \in 0 .. startup_refresh_max
  PROVE  /\ Tick(n) \in 0 .. startup_refresh_max
         /\ n < startup_refresh_max => Tick(n) = n + 1
BY RefreshAssumption DEF Tick

(* Nothing is in debt before the memory has been started.                  *)
LEMMA InitInv == Init => IInv
<1> SUFFICES ASSUME Init PROVE IInv
  OBVIOUS
<1> USE RefreshAssumption DEF Init
<1>1. TypeOK
  <2>1. refresh_count \in 0 .. startup_refresh_max
    BY Lengths
  <2>2. /\ refresh_credit \in 0 .. credit_max /\ refresh_wait \in 0 .. TRC_MIN
        /\ refresh_sys_cnt \in 0 .. refresh_per_hbl
        /\ refresh_sys_wcnt \in 0 .. refresh_sys_wcnt_cnt
    BY Lengths
  <2>3. QED
    BY <2>1, <2>2 DEF TypeOK
<1>2. Observed /\ Counter /\ Accounts
  BY DEF Observed, Counter, Accounts
<1>3. QED
  BY <1>1, <1>2 DEF IInv

(* The requests of the blank count down and never beyond 0.                *)
LEMMA HblankClockType ==
  ASSUME TypeOK, HblankClock
  PROVE  /\ refresh_sys_cnt' \in 0 .. refresh_per_hbl /\ refresh_sys' \in BOOLEAN
         /\ refresh_sys_wcnt' \in 0 .. refresh_sys_wcnt_cnt
<1>1. refresh_sys_cnt' \in 0 .. refresh_per_hbl
  BY Lengths DEF TypeOK, HblankClock, SysDone
<1>2. refresh_sys' \in BOOLEAN
  BY DEF HblankClock
<1>3. refresh_sys_wcnt' \in 0 .. refresh_sys_wcnt_cnt
  BY Lengths DEF TypeOK, HblankClock
<1>4. QED
  BY <1>1, <1>2, <1>3

(* The banks go idle one cycle after the other, unless an access begins.   *)
LEMMA BanksFacts ==
  ASSUME IInv, Banks
  PROVE  /\ busy' \in 0 .. MaxBusy
         /\ refresh_start => busy' = (IF busy = 0 \/ state' = "STARTUP" THEN 0 ELSE busy - 1)
         /\ state # "ACTIVE" => busy' = (IF busy = 0 \/ state' = "STARTUP" THEN 0 ELSE busy - 1)
BY RefreshAssumption DEF IInv, Observed, Banks

(* How the debt moves outside STARTUP: time adds to it, a refresh pays.    *)
LEMMA DebtMoves ==
  ASSUME IInv, Observe, state # "STARTUP"
  PROVE  /\ debt' \in Int
         /\ \/ debt' = -((credit_max + 1) * cycles_per_refresh)
            \/ debt' = debt + 1 - (IF command' = "AUTO_REFRESH"
                                   THEN cycles_per_refresh ELSE 0)
<1> USE RefreshAssumption
<1>1. 0 \in 0 .. credit_max
  OBVIOUS
<1>2. -(credit_max + 1) * cycles_per_refresh = -((credit_max + 1) * cycles_per_refresh)
  BY <1>1, CreditUnits
<1>3. (credit_max + 1) * cycles_per_refresh \in Int
  OBVIOUS
<1>4. QED
  BY <1>2, <1>3 DEF IInv, Observed, Observe

-----------------------------------------------------------------------------
(* The steps of the main state machine.                                    *)

(* Starting up: the debt is set to the credit that is left.                *)
LEMMA StartupStep ==
  ASSUME IInv, Next, Startup(FALSE)
  PROVE  IInv'
<1> USE RefreshAssumption
<1>1. TypeOK'
  <2>1. refresh_count' \in 0 .. startup_refresh_max /\ state' \in {"STARTUP", "ACTIVE"}
    BY TickCounts DEF Startup, IInv, TypeOK, Goto
  <2>2. QED
    BY <2>1, HblankClockType DEF Startup, IInv, TypeOK, Next, Goto
<1>2. busy' = 0
  <2>1. busy = 0 /\ state # "ACTIVE"
    BY DEF IInv, Observed, Startup, Goto
  <2>2. QED
    BY <2>1, BanksFacts DEF Next
<1>3. /\ debt' = -(refresh_credit * cycles_per_refresh) /\ rows' = 0
      /\ refresh_credit' = refresh_credit /\ refresh_credit \in 0 .. credit_max
  BY DEF Startup, Next, Observe, IInv, TypeOK, Goto
<1>4. refresh_credit * cycles_per_refresh \in Nat
  BY <1>3, CreditUnits
<1>5. Observed'
  BY <1>1, <1>2, <1>3, <1>4 DEF Observed, Startup, TypeOK, Goto
<1>6. state' # "STARTUP" => state' = "ACTIVE" /\ refresh_count' = 0
  BY DEF Startup, Goto
<1>7. Counter'
  BY <1>2, <1>6, <1>5 DEF Counter, Startup, Goto
<1>8. Accounts'
  BY <1>1, <1>3, <1>4, <1>6 DEF Accounts, TypeOK
<1>9. QED
  BY <1>1, <1>5, <1>7, <1>8 DEF IInv

(* A refresh pays an interval: the one that is due, or one to come.        *)
LEMMA RefreshStep ==
  ASSUME IInv, Next, Refresh(FALSE)
  PROVE  IInv'
<1> USE RefreshAssumption
<1>1. /\ refresh_count \in 0 .. startup_refresh_max /\ refresh_credit \in 0 .. credit_max
      /\ refresh_wait \in 1 .. TRC_MIN /\ refresh_due \in BOOLEAN /\ busy \in 0 .. MaxBusy
      /\ state = "REFRESH" /\ debt \in Int
  BY DEF IInv, TypeOK, Observed, Refresh, Goto
<1>2. refresh_count < startup_refresh_max /\ refresh_count' = refresh_count + 1
  <2>1. refresh_count < startup_refresh_max
    BY <1>1 DEF IInv, Counter
  <2>2. QED
    BY <1>1, <2>1, TickCounts DEF Refresh, Goto
<1>3. refresh_wait' = refresh_wait - 1
  BY DEF Refresh, Goto
<1>4. /\ state' \in {"REFRESH", "ACTIVE"} /\ (state' = "ACTIVE" => refresh_wait = 1)
      /\ (refresh_wait = 1 => state' = "ACTIVE")
  BY <1>1 DEF Refresh, Goto
<1>5. refresh_credit' \in 0 .. credit_max /\ refresh_due' \in BOOLEAN
  <2>1. \/ refresh_credit' = refresh_credit
        \/ refresh_credit < credit_max /\ refresh_credit' = refresh_credit + 1
    BY <1>1 DEF Refresh, Goto
  <2>2. refresh_credit' \in 0 .. credit_max
    BY <1>1, <2>1
  <2>3. refresh_due' = FALSE \/ refresh_due' = refresh_due
    BY <1>1 DEF Refresh, Goto
  <2>4. refresh_due' \in BOOLEAN
    BY <1>1, <2>3
  <2>5. QED
    BY <2>2, <2>4
<1>6. TypeOK'
  BY <1>1, <1>2, <1>3, <1>4, <1>5, HblankClockType DEF IInv, TypeOK, Next
<1>7. busy' \in 0 .. MaxBusy
  BY BanksFacts DEF Next
<1>8. Observed'
  <2>1. debt' \in Int
    BY <1>1, DebtMoves DEF Next
  <2>2. rows' \in 0 .. 3
    BY DEF Next, Observe, IInv, Observed
  <2>3. QED
    BY <1>1, <1>3, <1>4, <1>7, <2>1, <2>2 DEF Observed
<1>9. ~refresh_due'
  BY <1>1 DEF Refresh, IInv, Counter, Goto
<1>10. Counter'
  <2>1. CASE refresh_due
    BY <1>1, <1>2, <1>3, <1>4, <1>9, <2>1 DEF IInv, Counter
  <2>2. CASE ~refresh_due
    BY <1>1, <1>2, <1>3, <1>4, <1>9, <2>2 DEF IInv, Counter
  <2>3. QED
    BY <2>1, <2>2
<1>11. Accounts'
  <2>1. CASE debt' = -((credit_max + 1) * cycles_per_refresh)
    <3>1. refresh_count' \in Nat
      BY <1>1, <1>2
    <3>2. /\ refresh_credit' * cycles_per_refresh \in Nat
          /\ refresh_credit' * cycles_per_refresh <= (credit_max + 1) * cycles_per_refresh
      BY <1>5, CreditUnits
    <3>3. (credit_max + 1) * cycles_per_refresh \in Int
      OBVIOUS
    <3>4. QED
      BY <2>1, <3>1, <3>2, <3>3 DEF Accounts
  <2>2. CASE debt' = debt + 1 - (IF command' = "AUTO_REFRESH" THEN cycles_per_refresh ELSE 0)
    <3> DEFINE owed == refresh_credit * cycles_per_refresh
    <3>1. /\ owed \in Nat
          /\ (refresh_credit + 1) * cycles_per_refresh = owed + cycles_per_refresh
      BY <1>1, CreditUnits
    <3>2. debt <= refresh_count - owed + (IF refresh_due THEN cycles_per_refresh ELSE 0)
      BY <1>1 DEF IInv, Accounts
    <3> HIDE DEF owed
    <3>3. CASE refresh_wait # TRC_MIN
      <4>1. command' = "NOP" /\ ~refresh_due /\ refresh_credit' = refresh_credit
        BY <1>9, <3>3 DEF Refresh, Goto
      <4>2. debt' <= refresh_count' - owed
        BY <4>1, <1>1, <1>2, <2>2, <3>1, <3>2
      <4>3. QED
        BY <4>1, <4>2, <1>1, <1>2, <1>9, <3>1 DEF Accounts, owed
    <3>4. CASE refresh_wait = TRC_MIN
      <4>1. command' = "AUTO_REFRESH"
        BY <3>4 DEF Refresh, Goto
      <4>2. CASE refresh_due \/ ~(refresh_credit < credit_max)
        <5>1. refresh_credit' = refresh_credit
          BY <4>2, <3>4 DEF Refresh, Goto
        <5>2. debt' <= refresh_count' - owed
          BY <4>1, <4>2, <1>1, <1>2, <2>2, <3>1, <3>2
        <5>3. QED
          BY <5>1, <5>2, <1>1, <1>2, <1>9, <3>1 DEF Accounts, owed
      <4>3. CASE ~refresh_due /\ refresh_credit < credit_max
        <5>1. refresh_credit' = refresh_credit + 1
          BY <4>3, <3>4 DEF Refresh, Goto
        <5>2. debt' <= refresh_count' - (owed + cycles_per_refresh)
          BY <4>1, <4>3, <1>1, <1>2, <2>2, <3>1, <3>2
        <5>3. QED
          BY <5>1, <5>2, <1>1, <1>2, <1>9, <3>1 DEF Accounts
      <4>4. QED
        BY <4>2, <4>3
    <3>5. QED
      BY <3>3, <3>4
  <2>3. QED
    BY <1>1, <2>1, <2>2, DebtMoves DEF Next
<1>12. QED
  BY <1>6, <1>8, <1>10, <1>11 DEF IInv

(* While the banks are active an interval that ends is taken from the      *)
(* credit, or a refresh becomes due.                                       *)
LEMMA ActiveStep ==
  ASSUME IInv, Next, Active(FALSE)
  PROVE  IInv'
<1> USE RefreshAssumption
<1>1. /\ refresh_count \in 0 .. startup_refresh_max /\ refresh_credit \in 0 .. credit_max
      /\ refresh_wait \in 0 .. TRC_MIN /\ refresh_due \in BOOLEAN /\ busy \in 0 .. MaxBusy
      /\ state = "ACTIVE" /\ debt \in Int
  BY DEF IInv, TypeOK, Observed, Active, Goto
<1>2. /\ ~refresh_due => refresh_count <= cycles_per_refresh + TRC_MIN + 1
      /\ refresh_due => refresh_count + busy <= TRC_MIN + MaxBusy + 2
  BY <1>1 DEF IInv, Counter
<1>3. refresh_count' = IF IntervalOver THEN refresh_count - cycles_per_refresh + 1
                       ELSE refresh_count + 1
  <2>1. refresh_count < startup_refresh_max
    BY <1>1, <1>2
  <2>2. QED
    BY <1>1, <2>1, TickCounts DEF Active, Goto
<1>4. /\ refresh_due' = (IF IntervalOver THEN refresh_credit = 0 ELSE refresh_due)
      /\ refresh_credit' = (IF IntervalOver /\ refresh_credit # 0 THEN refresh_credit - 1
                            ELSE refresh_credit)
  BY <1>1 DEF Active, Goto
<1>5. \/ baidle /\ refresh_start /\ state' = "REFRESH" /\ refresh_wait' = TRC_MIN
      \/ ~(baidle /\ refresh_start) /\ state' = "ACTIVE" /\ refresh_wait' = refresh_wait
  BY <1>1 DEF Active, Goto
<1>6. command' = "NOP"
  BY DEF Active, Goto
<1>7. IntervalOver => ~refresh_due /\ refresh_count >= cycles_per_refresh + 1
  BY <1>1 DEF IntervalOver
<1>8. ~IntervalOver /\ ~refresh_due => refresh_count <= cycles_per_refresh
  BY <1>1 DEF IntervalOver
<1>9. refresh_count' \in 0 .. startup_refresh_max
  BY <1>1, <1>2, <1>3, <1>7
<1>10. refresh_credit' \in 0 .. credit_max /\ refresh_due' \in BOOLEAN
  <2>1. refresh_credit' \in 0 .. credit_max
    BY <1>1, <1>4
  <2>2. refresh_due' \in BOOLEAN
    BY <1>1, <1>4
  <2>3. QED
    BY <2>1, <2>2
<1>11. TypeOK'
  BY <1>1, <1>5, <1>9, <1>10, HblankClockType DEF TypeOK, IInv, Next
<1>12. busy' \in 0 .. MaxBusy
  BY BanksFacts DEF Next
<1>13. Observed'
  <2>1. debt' \in Int
    BY <1>1, DebtMoves DEF Next
  <2>2. rows' \in 0 .. 3
    BY DEF Next, Observe, IInv, Observed
  <2>3. QED
    BY <1>1, <1>5, <1>12, <2>1, <2>2 DEF Observed
<1>14. Counter'
  <2>1. CASE IntervalOver
    <3>1. refresh_count' <= TRC_MIN + 2
      BY <2>1, <1>1, <1>2, <1>3, <1>7
    <3>2. QED
      BY <3>1, <1>1, <1>5, <1>9, <1>12 DEF Counter
  <2>2. CASE ~IntervalOver /\ ~refresh_due
    <3>1. ~refresh_due' /\ refresh_count' <= cycles_per_refresh + 1
      BY <2>2, <1>1, <1>3, <1>4, <1>8
    <3>2. QED
      BY <3>1, <1>1, <1>5, <1>9, <1>12 DEF Counter
  <2>3. CASE refresh_due
    <3>1. /\ refresh_due' /\ refresh_count' = refresh_count + 1 /\ refresh_start
          /\ refresh_count + busy <= TRC_MIN + MaxBusy + 2
      BY <2>3, <1>2, <1>3, <1>4, <1>7 DEF refresh_start
    <3>2. busy' = IF busy = 0 THEN 0 ELSE busy - 1
      BY <3>1, <1>5, BanksFacts DEF Next
    <3>3. state' = "ACTIVE" => busy # 0
      BY <3>1, <1>5 DEF baidle
    <3>4. QED
      BY <3>1, <3>2, <3>3, <1>1, <1>5 DEF Counter
  <2>4. QED
    BY <2>1, <2>2, <2>3, <1>1
<1>15. Accounts'
  <2>1. CASE debt' = -((credit_max + 1) * cycles_per_refresh)
    <3>1. /\ refresh_credit' * cycles_per_refresh \in Nat
          /\ refresh_credit' * cycles_per_refresh <= (credit_max + 1) * cycles_per_refresh
      BY <1>10, CreditUnits
    <3>2. (credit_max + 1) * cycles_per_refresh \in Int
      OBVIOUS
    <3>3. QED
      BY <2>1, <1>9, <3>1, <3>2 DEF Accounts
  <2>2. CASE debt' = debt + 1
    <3> DEFINE owed == refresh_credit * cycles_per_refresh
    <3>1. /\ owed \in Nat
          /\ (refresh_credit - 1) * cycles_per_refresh = owed - cycles_per_refresh
      BY <1>1, CreditUnits
    <3>2. debt <= refresh_count - owed + (IF refresh_due THEN cycles_per_refresh ELSE 0)
      BY <1>1 DEF IInv, Accounts
    <3> HIDE DEF owed
    <3>3. CASE IntervalOver /\ refresh_credit # 0
      <4>1. /\ refresh_credit' = refresh_credit - 1 /\ ~refresh_due'
            /\ refresh_count' = refresh_count - cycles_per_refresh + 1 /\ ~refresh_due
        BY <3>3, <1>3, <1>4, <1>7
      <4>2. debt' <= refresh_count' - (owed - cycles_per_refresh)
        BY <4>1, <2>2, <1>1, <3>1, <3>2
      <4>3. QED
        BY <4>1, <4>2, <3>1 DEF Accounts
    <3>4. CASE IntervalOver /\ refresh_credit = 0
      <4>1. /\ refresh_credit' = refresh_credit /\ refresh_due'
            /\ refresh_count' = refresh_count - cycles_per_refresh + 1 /\ ~refresh_due
        BY <3>4, <1>3, <1>4, <1>7
      <4>2. debt' <= refresh_count' - owed + cycles_per_refresh
        BY <4>1, <2>2, <1>1, <3>1, <3>2
      <4>3. QED
        BY <4>1, <4>2 DEF Accounts, owed
    <3>5. CASE ~IntervalOver
      <4>1. /\ refresh_credit' = refresh_credit /\ refresh_due' = refresh_due
            /\ refresh_count' = refresh_count + 1
        BY <3>5, <1>3, <1>4
      <4>2. debt' <= refresh_count' - owed + (IF refresh_due THEN cycles_per_refresh ELSE 0)
        BY <4>1, <2>2, <1>1, <3>1, <3>2
      <4>3. QED
        BY <4>1, <4>2 DEF Accounts, owed
    <3>6. QED
      BY <3>3, <3>4, <3>5
  <2>3. QED
    BY <1>1, <1>6, <2>1, <2>2, DebtMoves DEF Next
<1>16. QED
  BY <1>11, <1>13, <1>14, <1>15 DEF IInv

(* A new init leaves the accounts to the start-up that follows it.         *)
LEMMA RestartStep ==
  ASSUME IInv, Next, state' = "STARTUP", refresh_count' = startup_first,
         Startup(TRUE) \/ Refresh(TRUE) \/ Active(TRUE)
  PROVE  IInv'
<1> USE RefreshAssumption
<1>1. /\ refresh_credit \in 0 .. credit_max /\ refresh_due \in BOOLEAN
      /\ refresh_wait \in 0 .. TRC_MIN /\ (state = "REFRESH" => refresh_wait # 0)
      /\ refresh_count' \in 0 .. startup_refresh_max
  BY Lengths DEF IInv, TypeOK, Observed
<1>2. refresh_due' \in BOOLEAN
  BY <1>1 DEF Startup, Refresh, Active
<1>3. refresh_credit' \in 0 .. credit_max
  <2>1. \/ refresh_credit' = refresh_credit
        \/ refresh_credit < credit_max /\ refresh_credit' = refresh_credit + 1
        \/ refresh_credit # 0 /\ refresh_credit' = refresh_credit - 1
    BY <1>1 DEF Startup, Refresh, Active
  <2>2. QED
    BY <1>1, <2>1
<1>4. refresh_wait' \in 0 .. TRC_MIN
  <2>1. TRC_MIN \in Nat
    OBVIOUS
  <2>2. \/ refresh_wait' \in {refresh_wait, TRC_MIN}
        \/ refresh_wait # 0 /\ refresh_wait' = refresh_wait - 1
    BY <1>1 DEF Startup, Refresh, Active
  <2>3. QED
    BY <1>1, <2>1, <2>2
<1>5. TypeOK'
  BY <1>1, <1>2, <1>3, <1>4, HblankClockType DEF IInv, TypeOK, Next
<1>6. busy' = 0
  <2>1. CASE state = "STARTUP"
    BY <2>1, BanksFacts DEF IInv, Observed, Next
  <2>2. CASE state # "STARTUP"
    BY <2>2 DEF Next, Banks
  <2>3. QED
    BY <2>1, <2>2
<1>7. debt' \in Int
  <2>1. CASE state = "STARTUP"
    <3>1. refresh_credit * cycles_per_refresh \in Nat
      BY <1>1, CreditUnits
    <3>2. debt' = -(refresh_credit * cycles_per_refresh)
      BY <2>1 DEF Next, Observe
    <3>3. QED
      BY <3>1, <3>2
  <2>2. CASE state # "STARTUP"
    BY <2>2, DebtMoves DEF Next
  <2>3. QED
    BY <2>1, <2>2
<1>8. rows' = 0
  BY DEF Next, Observe
<1>9. Observed' /\ Counter' /\ Accounts'
  BY <1>6, <1>7, <1>8 DEF Observed, Counter, Accounts
<1>10. QED
  BY <1>5, <1>9 DEF IInv

(* A step is one of the three states', or begins a new start-up.           *)
LEMMA Cases ==
  ASSUME Next
  PROVE  \/ Startup(FALSE) \/ Refresh(FALSE) \/ Active(FALSE)
         \/ /\ state' = "STARTUP" /\ refresh_count' = startup_first
            /\ Startup(TRUE) \/ Refresh(TRUE) \/ Active(TRUE)
<1>1. PICK init \in BOOLEAN : Startup(init) \/ Refresh(init) \/ Active(init)
  BY RefreshAssumption DEF Next, StateMachine
<1>2. CASE init = FALSE
  BY <1>1, <1>2
<1>3. CASE init = TRUE
  <2>1. Startup(TRUE) \/ Refresh(TRUE) \/ Active(TRUE)
    BY <1>1, <1>3
  <2>2. state' = "STARTUP" /\ refresh_count' = startup_first
    BY <2>1 DEF Startup, Refresh, Active, Goto
  <2>3. QED
    BY <2>1, <2>2
<1>4. QED
  BY <1>2, <1>3
(* IInv is inductive.                                                      *)
LEMMA Inductive == IInv /\ [Next]_vars => IInv'
<1> SUFFICES ASSUME IInv, [Next]_vars PROVE IInv'
  OBVIOUS
<1>1. CASE UNCHANGED vars
  BY <1>1 DEF vars, timervars, sysvars, IInv, TypeOK, Observed, Counter, Accounts
<1>2. CASE Next
  BY <1>2, Cases, StartupStep, RefreshStep, ActiveStep, RestartStep
<1>3. QED
  BY <1>1, <1>2

(* IInv holds throughout.                                                  *)
LEMMA Invariance == Spec => []IInv
BY InitInv, Inductive, PTL DEF Spec

(* Counters keep to their widths, for any lengths.                         *)
THEOREM TypeCorrect == Spec => []TypeOK
<1>1. IInv => TypeOK
  BY DEF IInv
<1>2. QED
  BY <1>1, Invariance, PTL

(* The memory is refreshed in time, for any interval that is longer than   *)
(* the banks need to stop and a refresh takes, whatever the video and the  *)
(* PLL do.                                                                 *)
THEOREM MemoryIsRefreshed == Spec => []RefreshesKeepUp
<1> USE RefreshAssumption
<1>1. IInv => RefreshesKeepUp
  <2> SUFFICES ASSUME IInv, state # "STARTUP"
               PROVE  debt <= cycles_per_refresh + MaxBusy + TRC_MIN + 4
    BY DEF RefreshesKeepUp
  <2>1. /\ refresh_count \in Nat /\ refresh_credit \in 0 .. credit_max /\ debt \in Int
        /\ refresh_wait \in Nat /\ busy \in Nat /\ refresh_due \in BOOLEAN
        /\ state \in {"ACTIVE", "REFRESH"}
    BY DEF IInv, TypeOK, Observed
  <2>2. refresh_credit * cycles_per_refresh \in Nat
    BY <2>1, CreditUnits
  <2>3. debt <= refresh_count + (IF refresh_due THEN cycles_per_refresh ELSE 0)
    BY <2>1, <2>2 DEF IInv, Accounts
  <2>4. refresh_count <= (IF refresh_due THEN TRC_MIN + MaxBusy + 3
                          ELSE cycles_per_refresh + TRC_MIN + 1)
    BY <2>1 DEF IInv, Counter
  <2>5. QED
    BY <2>1, <2>3, <2>4
<1>2. QED
  BY <1>1, Invariance, PTL

-----------------------------------------------------------------------------
(* Refreshes in the blank.                                                 *)

(* Where the video stands: hblank_d is hblank of the cycle before.         *)
Line ==
  /\ h \in 0 .. cycles_per_row - 1
  /\ rows # 0 => state # "STARTUP" /\ (hblank_d <=> h \in 1 .. cycles_per_hbl)

(* A request that is up has been raised a short time ago, or was left over *)
(* by a start-up and is served at once.                                    *)
Requests ==
  refresh_sys =>
    /\ refresh_sys_cnt # 0
    /\ state = "ACTIVE" =>
         \/ refresh_sys_wcnt + MaxBusy >= refresh_sys_wcnt_cnt + busy
         \/ rows = 0 /\ busy = 0
    /\ state = "REFRESH" =>
         \/ refresh_sys_wcnt + MaxBusy + 1 >= refresh_sys_wcnt_cnt
         \/ refresh_wait = TRC_MIN /\ (rows = 0 \/ (rows = 1 /\ h = 0))

(* Requests still to be raised in this line, and when the last of them is  *)
(* raised at the latest.                                                   *)
ToRaise == IF refresh_sys THEN refresh_sys_cnt - 1 ELSE refresh_sys_cnt

LastRaise ==
  IF rows = 1 THEN refresh_per_hbl * (refresh_sys_wcnt_cnt + 1)
  ELSE 1 + (refresh_per_hbl - 1) * (refresh_sys_wcnt_cnt + 1)

InTime ==
  rows # 0 /\ (refresh_sys_wcnt # 0 \/ ToRaise # 0) =>
    h + refresh_sys_wcnt + (ToRaise - 1) * (refresh_sys_wcnt_cnt + 1) <= LastRaise

(* A line that follows a whole one finds no request left.                  *)
Settled ==
  rows >= 2 /\ h = 0 => refresh_sys_cnt = 0 /\ ~refresh_sys /\ refresh_sys_wcnt = 0

(* Refreshes of this line that the blank has had, and one more that it may *)
(* yet count as its own although the counter forced it.                    *)
Had == IF h = 0 THEN 0 ELSE refresh_per_hbl - refresh_sys_cnt

Shared ==
  IF /\ state = "REFRESH" /\ refresh_wait < TRC_MIN
     /\ refresh_sys \/ refresh_sys_wcnt <= refresh_wait
  THEN cycles_per_refresh ELSE 0

(* What is left of the credit when the running interval is paid.           *)
Left == refresh_credit * cycles_per_refresh - refresh_count
          - (IF refresh_due THEN cycles_per_refresh ELSE 0)

AtLineStart ==
  IF rows = 2 THEN -(cycles_per_refresh + 2 * TRC_MIN + MaxBusy + 3)
  ELSE -(cycles_per_refresh + Gain)

(* Each refresh of the blank pays an interval, or there is credit for the  *)
(* whole line; one that has just been given leaves little to pay.          *)
Paid ==
  /\ rows >= 2 =>
       \/ Left >= AtLineStart + Had * cycles_per_refresh - h + Shared
       \/ Left >= (credit_max - 1) * cycles_per_refresh - TRC_MIN - 1 - h
  /\ state = "REFRESH" /\ refresh_wait < TRC_MIN =>
       Left >= refresh_wait - (2 * TRC_MIN + MaxBusy + 3)

(* From the third line on a refresh becomes due before the last request of *)
(* the blank, and is given soon after.                                     *)
Early ==
  rows = 3 =>
    /\ state = "ACTIVE" /\ refresh_due => h + busy <= LastRaise + MaxBusy + 1
    /\ state = "REFRESH" => h + refresh_wait <= LastRaise + MaxBusy + TRC_MIN + 2

BInv == IInv /\ Line /\ Requests /\ InTime /\ Settled /\ Paid /\ Early

(* The lengths, and the products of them that occur.                       *)
LEMMA Sizes ==
  /\ {TRC_MIN, MaxBusy, credit_max, cycles_per_refresh, cycles_per_row,
      cycles_per_hbl, refresh_per_hbl, refresh_sys_wcnt_cnt} \subseteq Nat \ {0}
  /\ TRC_MIN >= 2 /\ cycles_per_refresh > MaxBusy + TRC_MIN + 1
  /\ cycles_per_hbl < cycles_per_row
  /\ refresh_sys_wcnt_cnt >= MaxBusy + TRC_MIN + 2
<1> USE RefreshAssumption, BlankAssumption, Lengths
<1>1. /\ TRC_MIN \in Nat \ {0} /\ MaxBusy \in Nat \ {0} /\ credit_max \in Nat \ {0}
      /\ cycles_per_refresh \in Nat \ {0} /\ cycles_per_row \in Nat \ {0}
  OBVIOUS
<1>2. cycles_per_hbl \in Nat \ {0} /\ cycles_per_hbl < cycles_per_row
  BY <1>1
<1>3. refresh_sys_wcnt_cnt >= MaxBusy + TRC_MIN + 2
  OBVIOUS
<1>4. refresh_sys_wcnt_cnt \in Nat \ {0} /\ refresh_per_hbl \in Nat \ {0}
  BY <1>1, <1>3
<1>5. QED
  BY <1>1, <1>2, <1>3, <1>4

(* The length of a division is not more than what is divided.              *)
LEMMA DivisionFits ==
  ASSUME NEW a \in Nat, NEW b \in Nat \ {0}
  PROVE  b * (a \div b) <= a /\ a < b * (a \div b) + b
<1>1. a = b * (a \div b) + (a % b) /\ a % b \in 0 .. b - 1
  OBVIOUS
<1>2. a \div b \in Int
  OBVIOUS
<1>3. b * (a \div b) \in Int
  BY <1>2
<1>4. QED
  BY <1>1, <1>3

(* A multiple of a length.                                                 *)
LEMMA Units ==
  ASSUME NEW n \in Int, NEW d \in Nat
  PROVE  /\ n * d \in Int
         /\ (n - 1) * d = n * d - d
         /\ (n + 1) * d = n * d + d
         /\ n >= 0 => n * d >= 0
OBVIOUS

(* A larger multiple.                                                      *)
LEMMA MoreUnits ==
  ASSUME NEW m \in Int, NEW n \in Int, m <= n, NEW d \in Nat
  PROVE  m * d <= n * d
OBVIOUS

(* The last request of a line leaves time for one more.                    *)
LEMMA LastRaiseFits ==
  /\ refresh_per_hbl * (refresh_sys_wcnt_cnt + 1) \in Nat
  /\ refresh_per_hbl * (refresh_sys_wcnt_cnt + 1) + refresh_sys_wcnt_cnt + 1 < cycles_per_row
  /\ LastRaise = refresh_per_hbl * (refresh_sys_wcnt_cnt + 1)
                   - (IF rows = 1 THEN 0 ELSE refresh_sys_wcnt_cnt)
  /\ refresh_per_hbl * (refresh_sys_wcnt_cnt + 1) >= refresh_sys_wcnt_cnt + 1
<1> DEFINE R == refresh_per_hbl
           D == refresh_sys_wcnt_cnt + 1
<1>1. R \in Nat \ {0} /\ D \in Nat \ {0} /\ cycles_per_row \in Nat
  BY Sizes
<1>2. /\ R * D \in Int /\ (R - 1) * D = R * D - D /\ (R + 1) * D = R * D + D
      /\ R * D >= 0
  BY <1>1, Units
<1>3. (R - 1) * D >= 0
  <2>1. R - 1 \in Int /\ R - 1 >= 0 /\ D \in Nat
    BY <1>1
  <2> HIDE DEF R, D
  <2>2. QED
    BY <2>1, Units
<1>4. (R + 1) * D < cycles_per_row
  BY BlankAssumption
<1>5. LastRaise = IF rows = 1 THEN R * D ELSE 1 + (R - 1) * D
  BY DEF LastRaise
<1>6. D = refresh_sys_wcnt_cnt + 1 /\ refresh_sys_wcnt_cnt \in Nat
  BY Sizes
<1> HIDE DEF R, D
<1>7. R * D \in Nat /\ R * D + D < cycles_per_row /\ R * D >= D
  BY <1>1, <1>2, <1>3, <1>4
<1>8. LastRaise = R * D - (IF rows = 1 THEN 0 ELSE refresh_sys_wcnt_cnt)
  BY <1>1, <1>2, <1>5, <1>6, <1>7
<1>9. QED
  BY <1>6, <1>7, <1>8 DEF R, D

(* In a line without late refreshes the blank is long enough.              *)
LEMMA BlankLasts ==
  rows # 1 => LastRaise <= cycles_per_hbl + refresh_per_hbl
<1> DEFINE Q == refresh_per_hbl - 1
           W == refresh_sys_wcnt_cnt
<1>1. Q \in Nat \ {0} /\ W \in Nat /\ cycles_per_hbl \in Nat
  <2>1. /\ cycles_per_row \in Nat /\ cycles_per_refresh \in Nat \ {0}
        /\ cycles_per_refresh < cycles_per_row
    BY RefreshAssumption
  <2>2. cycles_per_row \div cycles_per_refresh \in Nat \ {0}
    BY <2>1, Quotient
  <2>3. QED
    BY <2>2, Sizes DEF refresh_per_hbl
<1>2. W = cycles_per_hbl \div Q
  BY DEF refresh_sys_wcnt_cnt
<1>3. LastRaise = 1 + Q * (W + 1) \/ rows = 1
  BY DEF LastRaise
<1>4. refresh_per_hbl = Q + 1
  BY Sizes
<1> HIDE DEF Q, W
<1>5. Q * W <= cycles_per_hbl
  BY <1>1, <1>2, DivisionFits
<1>6. Q * (W + 1) = Q * W + Q /\ Q * W \in Int
  BY <1>1
<1>7. QED
  BY <1>1, <1>3, <1>4, <1>5, <1>6

(* What the refreshes of a line leave over is at most an interval.         *)
LEMMA GainFits ==
  /\ Gain \in Nat /\ Gain <= cycles_per_refresh
  /\ refresh_per_hbl * cycles_per_refresh = Gain + cycles_per_row
  /\ 2 * Gain >= 2 * TRC_MIN + MaxBusy + 3
  /\ (credit_max - 1) * cycles_per_refresh \in Int
  /\ (credit_max - 1) * cycles_per_refresh + Gain >= cycles_per_row + TRC_MIN + 1
<1>1. /\ cycles_per_row \in Nat /\ cycles_per_refresh \in Nat \ {0}
      /\ credit_max \in Int /\ TRC_MIN \in Nat /\ MaxBusy \in Nat
  BY Sizes
<1> DEFINE Q == cycles_per_row \div cycles_per_refresh
<1>2. refresh_per_hbl = Q + 1
  BY DEF refresh_per_hbl
<1>3. /\ cycles_per_refresh * Q <= cycles_per_row
      /\ cycles_per_row < cycles_per_refresh * Q + cycles_per_refresh
  BY <1>1, DivisionFits
<1>4. Q \in Int
  BY <1>1
<1> HIDE DEF Q
<1>5. /\ (Q + 1) * cycles_per_refresh = cycles_per_refresh * Q + cycles_per_refresh
      /\ cycles_per_refresh * Q \in Int
  BY <1>1, <1>4
<1>6. Gain = cycles_per_refresh * Q + cycles_per_refresh - cycles_per_row
  <2>1. refresh_per_hbl * cycles_per_refresh = (Q + 1) * cycles_per_refresh
    BY <1>2
  <2>2. Gain = (Q + 1) * cycles_per_refresh - cycles_per_row
    BY <2>1 DEF Gain
  <2>3. QED
    BY <1>1, <1>4, <1>5, <2>2
<1>7. (credit_max - 1) * cycles_per_refresh \in Int
  BY <1>1
<1>8. QED
  BY <1>1, <1>2, <1>3, <1>5, <1>6, <1>7, BlankAssumption

-----------------------------------------------------------------------------
(* One clock, as the blank sees it.                                        *)

(* Nothing has begun.                                                      *)
LEMMA InitBlank == Init => BInv
<1> SUFFICES ASSUME Init PROVE BInv
  OBVIOUS
<1>1. IInv
  BY InitInv
<1>2. rows = 0 /\ ~refresh_sys /\ state = "STARTUP" /\ h \in 0 .. cycles_per_row - 1
  BY DEF Init
<1>3. Line /\ Requests /\ InTime /\ Settled /\ Paid /\ Early
  BY <1>2 DEF Line, Requests, InTime, Settled, Paid, Early
<1>4. QED
  BY <1>1, <1>3 DEF BInv

(* In steady video h counts, and rows counts the lines.                    *)
LEMMA SteadyVideo ==
  ASSUME BInv, Next
  PROVE  /\ h' \in 0 .. cycles_per_row - 1
         /\ rows' # 0 =>
              /\ state # "STARTUP" /\ state' # "STARTUP"
              /\ h' = (IF h = cycles_per_row - 1 THEN 0 ELSE h + 1)
              /\ rows' = (IF h' = 0 /\ rows < 3 THEN rows + 1 ELSE rows)
<1> USE Sizes
<1>1. h \in 0 .. cycles_per_row - 1 /\ cycles_per_row \in Nat
  BY DEF BInv, Line
<1>2. (h + 1) % cycles_per_row = IF h = cycles_per_row - 1 THEN 0 ELSE h + 1
  BY <1>1
<1>3. h' \in 0 .. cycles_per_row - 1
  BY <1>1, <1>2 DEF Next, VideoClock
<1>4. rows' # 0 =>
        /\ state # "STARTUP" /\ state' # "STARTUP" /\ h' = (h + 1) % cycles_per_row
        /\ rows' = (IF h' = 0 /\ rows < 3 THEN rows + 1 ELSE rows)
  BY DEF Next, Observe
<1>5. QED
  BY <1>2, <1>3, <1>4

(* hblank_d follows the line.                                               *)
LEMMA LineStep ==
  ASSUME BInv, Next
  PROVE  Line'
<1> USE Sizes
<1>1. hblank_d' <=> h < cycles_per_hbl
  BY DEF Next, HblankClock, hblank
<1>2. SUFFICES ASSUME rows' # 0
               PROVE  state' # "STARTUP" /\ (hblank_d' <=> h' \in 1 .. cycles_per_hbl)
  BY SteadyVideo DEF Line
<1>3. h \in 0 .. cycles_per_row - 1
  BY DEF BInv, Line
<1>4. state' # "STARTUP" /\ h' = (IF h = cycles_per_row - 1 THEN 0 ELSE h + 1)
  BY <1>2, SteadyVideo
<1>5. QED
  BY <1>1, <1>3, <1>4

(* The blank begins, as the controller sees it, with the line.             *)
LEMMA BlankBeginsAt0 ==
  ASSUME BInv, rows # 0
  PROVE  HblankBegins <=> h = 0
<1>1. /\ h \in 0 .. cycles_per_row - 1 /\ state # "STARTUP"
      /\ hblank_d <=> h \in 1 .. cycles_per_hbl
  BY DEF BInv, Line
<1>2. cycles_per_hbl \in Nat \ {0}
  BY Sizes
<1>3. QED
  BY <1>1, <1>2 DEF HblankBegins, hblank

(* What is known of the registers, and how the requests move.              *)
LEMMA RequestClock ==
  ASSUME BInv, Next
  PROVE  /\ refresh_sys_cnt \in 0 .. refresh_per_hbl
         /\ refresh_sys_wcnt \in 0 .. refresh_sys_wcnt_cnt
         /\ refresh_sys_cnt' \in 0 .. refresh_per_hbl
         /\ refresh_sys_wcnt' \in 0 .. refresh_sys_wcnt_cnt
         /\ busy \in 0 .. MaxBusy /\ busy' \in 0 .. MaxBusy
         /\ refresh_sys' <=> (refresh_sys \/ SysRaise) /\ ~SysDone
         /\ SysRaise <=> refresh_sys_cnt # 0 /\ ~refresh_sys /\ refresh_sys_wcnt = 0
         /\ SysDone <=> refresh_sys /\ state = "REFRESH"
         /\ refresh_sys_cnt' = IF SysDone THEN refresh_sys_cnt - 1
                               ELSE IF HblankBegins THEN refresh_per_hbl
                               ELSE refresh_sys_cnt
         /\ refresh_sys_wcnt' = IF SysRaise THEN refresh_sys_wcnt_cnt
                                ELSE IF refresh_sys_wcnt = 0 THEN 0
                                ELSE refresh_sys_wcnt - 1
<1>1. /\ refresh_sys_cnt \in 0 .. refresh_per_hbl
      /\ refresh_sys_wcnt \in 0 .. refresh_sys_wcnt_cnt
      /\ busy \in 0 .. MaxBusy
  BY DEF BInv, IInv, TypeOK, Observed
<1>2. /\ refresh_sys_cnt' \in 0 .. refresh_per_hbl
      /\ refresh_sys_wcnt' \in 0 .. refresh_sys_wcnt_cnt
  BY HblankClockType DEF BInv, IInv, Next
<1>3. busy' \in 0 .. MaxBusy
  BY BanksFacts DEF BInv, Next
<1>4. /\ refresh_sys' <=> (refresh_sys \/ SysRaise) /\ ~SysDone
      /\ refresh_sys_cnt' = IF SysDone THEN refresh_sys_cnt - 1
                            ELSE IF HblankBegins THEN refresh_per_hbl
                            ELSE refresh_sys_cnt
      /\ refresh_sys_wcnt' = IF SysRaise THEN refresh_sys_wcnt_cnt
                             ELSE IF refresh_sys_wcnt = 0 THEN 0
                             ELSE refresh_sys_wcnt - 1
  BY DEF Next, HblankClock
<1>5. SysDone <=> refresh_sys /\ state = "REFRESH"
  BY DEF SysDone, BInv, Requests
<1>6. QED
  BY <1>1, <1>2, <1>3, <1>4, <1>5 DEF SysRaise

(* One clock of the main state machine, start-up aside.                    *)
LEMMA MainClock ==
  ASSUME BInv, Next, state # "STARTUP", state' # "STARTUP"
  PROVE  \/ /\ state = "ACTIVE" /\ baidle /\ refresh_start
            /\ state' = "REFRESH" /\ refresh_wait' = TRC_MIN
         \/ /\ state = "ACTIVE" /\ ~(baidle /\ refresh_start) /\ state' = "ACTIVE"
            /\ refresh_start => busy' = busy - 1
         \/ /\ state = "REFRESH" /\ refresh_wait \in 1 .. TRC_MIN
            /\ refresh_wait' = refresh_wait - 1 /\ ~refresh_due'
            /\ state' = (IF refresh_wait = 1 THEN "ACTIVE" ELSE "REFRESH")
            /\ busy' = IF busy = 0 THEN 0 ELSE busy - 1
<1>1. CASE Active(FALSE)
  <2>1. /\ state = "ACTIVE"
        /\ \/ baidle /\ refresh_start /\ state' = "REFRESH" /\ refresh_wait' = TRC_MIN
           \/ ~(baidle /\ refresh_start) /\ state' = "ACTIVE"
    BY <1>1 DEF Active, Goto
  <2>2. refresh_start => busy' = IF busy = 0 THEN 0 ELSE busy - 1
    BY BanksFacts DEF BInv, Next
  <2>3. QED
    BY <2>1, <2>2 DEF baidle
<1>2. CASE Refresh(FALSE)
  <2>1. /\ state = "REFRESH" /\ refresh_wait' = refresh_wait - 1
        /\ refresh_wait \in 1 .. TRC_MIN
    BY <1>2 DEF Refresh, BInv, IInv, TypeOK, Observed, Goto
  <2>2. busy' = IF busy = 0 THEN 0 ELSE busy - 1
    BY <2>1, BanksFacts DEF BInv, Next
  <2>3. ~refresh_due'
    BY <1>2 DEF Refresh, BInv, IInv, Counter, Goto
  <2>4. state' = (IF refresh_wait = 1 THEN "ACTIVE" ELSE "REFRESH")
    BY <1>2, <2>1, Sizes DEF Refresh, Goto
  <2>5. QED
    BY <2>1, <2>2, <2>3, <2>4
<1>3. QED
  <2>1. ~Startup(FALSE)
    BY DEF Startup
  <2>2. QED
    BY <1>1, <1>2, <2>1, Cases

-----------------------------------------------------------------------------
(* The requests.                                                           *)

(* A request waits for the banks and is taken by the first cycle of        *)
(* REFRESH.                                                                *)
LEMMA RequestsStep ==
  ASSUME BInv, Next
  PROVE  Requests'
<1> USE Sizes
<1>1. SUFFICES ASSUME refresh_sys'
               PROVE  /\ refresh_sys_cnt' # 0
                      /\ state' = "ACTIVE" =>
                           \/ refresh_sys_wcnt' + MaxBusy >= refresh_sys_wcnt_cnt + busy'
                           \/ rows' = 0 /\ busy' = 0
                      /\ state' = "REFRESH" =>
                           \/ refresh_sys_wcnt' + MaxBusy + 1 >= refresh_sys_wcnt_cnt
                           \/ /\ refresh_wait' = TRC_MIN
                              /\ rows' = 0 \/ (rows' = 1 /\ h' = 0)
  BY DEF Requests
<1>2. (refresh_sys \/ SysRaise) /\ ~SysDone
  BY <1>1, RequestClock
<1>3. refresh_sys_cnt' # 0
  BY <1>2, RequestClock DEF BInv, Requests
<1>4. CASE SysRaise
  <2>1. refresh_sys_wcnt' = refresh_sys_wcnt_cnt /\ busy' \in 0 .. MaxBusy
    BY <1>4, RequestClock
  <2>2. QED
    BY <1>3, <2>1
<1>5. CASE refresh_sys /\ state = "STARTUP"
  <2>1. rows' = 0 /\ state' \in {"STARTUP", "ACTIVE"}
    BY <1>5 DEF Next, StateMachine, Observe, Startup, Refresh, Active, Goto
  <2>2. busy' = 0
    BY <1>5, BanksFacts DEF BInv, IInv, Observed, Next
  <2>3. QED
    BY <1>3, <2>1, <2>2
<1>6. CASE refresh_sys /\ ~SysRaise /\ state # "STARTUP"
  <2>1. state = "ACTIVE"
    BY <1>2, <1>6, RequestClock DEF BInv, IInv, TypeOK
  <2>2. CASE state' = "STARTUP"
    BY <1>3, <2>2
  <2>3. CASE state' # "STARTUP"
    <3>1. refresh_start
      BY <1>6 DEF refresh_start
    <3>2. \/ busy = 0 /\ state' = "REFRESH" /\ refresh_wait' = TRC_MIN
          \/ state' = "ACTIVE" /\ busy # 0 /\ busy' = busy - 1
      BY <2>1, <2>3, <3>1, MainClock DEF baidle
    <3>3. refresh_sys_wcnt' = IF refresh_sys_wcnt = 0 THEN 0 ELSE refresh_sys_wcnt - 1
      BY <1>6, RequestClock
    <3>4. CASE refresh_sys_wcnt + MaxBusy >= refresh_sys_wcnt_cnt + busy
      BY <1>3, <3>2, <3>3, <3>4, RequestClock
    <3>5. CASE rows = 0 /\ busy = 0
      <4>1. rows' = 0 \/ (rows' = 1 /\ h' = 0)
        BY <3>5, SteadyVideo
      <4>2. QED
        BY <1>3, <3>2, <3>5, <4>1
    <3>6. QED
      BY <1>6, <2>1, <3>4, <3>5 DEF BInv, Requests
  <2>4. QED
    BY <2>2, <2>3
<1>7. QED
  BY <1>2, <1>4, <1>5, <1>6

(* In a line, a request that is up has not been up for long.               *)
LEMMA RaisedLately ==
  ASSUME BInv, refresh_sys, rows # 0, ~(rows = 1 /\ h = 0)
  PROVE  /\ refresh_sys_wcnt # 0
         /\ state = "ACTIVE" => refresh_sys_wcnt + MaxBusy >= refresh_sys_wcnt_cnt + busy
         /\ state = "REFRESH" => refresh_sys_wcnt + MaxBusy + 1 >= refresh_sys_wcnt_cnt
<1> USE Sizes
<1>1. state \in {"ACTIVE", "REFRESH"} /\ busy \in 0 .. MaxBusy
  BY DEF BInv, IInv, TypeOK, Line, Observed
<1>2. refresh_sys_wcnt \in 0 .. refresh_sys_wcnt_cnt
  BY DEF BInv, IInv, TypeOK
<1>3. /\ state = "ACTIVE" => refresh_sys_wcnt + MaxBusy >= refresh_sys_wcnt_cnt + busy
      /\ state = "REFRESH" => refresh_sys_wcnt + MaxBusy + 1 >= refresh_sys_wcnt_cnt
  BY DEF BInv, Requests
<1>4. QED
  BY <1>1, <1>2, <1>3

(* How many requests are still to be raised.                               *)
LEMMA ToRaiseMoves ==
  ASSUME BInv, Next
  PROVE  /\ ToRaise \in 0 .. refresh_per_hbl
         /\ ToRaise' \in 0 .. refresh_per_hbl
         /\ SysRaise => ToRaise' = (IF HblankBegins THEN refresh_per_hbl
                                    ELSE refresh_sys_cnt) - 1
         /\ ~SysRaise /\ (SysDone \/ ~HblankBegins) => ToRaise' = ToRaise
         /\ ~refresh_sys => ToRaise = refresh_sys_cnt
         /\ ~SysRaise /\ ~refresh_sys /\ HblankBegins => ToRaise' = refresh_per_hbl
<1> USE Sizes
<1>1. ToRaise = (IF refresh_sys THEN refresh_sys_cnt - 1 ELSE refresh_sys_cnt)
  BY DEF ToRaise
<1>2. ToRaise' = (IF refresh_sys' THEN refresh_sys_cnt' - 1 ELSE refresh_sys_cnt')
  BY DEF ToRaise
<1>3. (refresh_sys => refresh_sys_cnt # 0) /\ (refresh_sys' => refresh_sys_cnt' # 0)
  <2>1. refresh_sys' => refresh_sys_cnt' # 0
    BY RequestsStep DEF Requests
  <2>2. QED
    BY <2>1 DEF BInv, Requests
<1>4. ToRaise \in 0 .. refresh_per_hbl /\ ToRaise' \in 0 .. refresh_per_hbl
  BY <1>1, <1>2, <1>3, RequestClock
<1>5. QED
  BY <1>1, <1>2, <1>4, RequestClock

(* The blank's refreshes are over with time to spare.                      *)
LEMMA AllGiven ==
  ASSUME BInv, rows # 0, h = cycles_per_row - 1
  PROVE  h # 0 /\ refresh_sys_cnt = 0 /\ ~refresh_sys /\ refresh_sys_wcnt = 0
<1> DEFINE P == refresh_per_hbl * (refresh_sys_wcnt_cnt + 1)
           D == refresh_sys_wcnt_cnt + 1
<1>1. /\ D \in Nat \ {0} /\ P \in Nat /\ P + D < cycles_per_row /\ cycles_per_row \in Nat
      /\ LastRaise \in Int /\ LastRaise <= P
  <2>1. refresh_sys_wcnt_cnt \in Nat /\ cycles_per_row \in Nat
    BY Sizes
  <2> HIDE DEF P
  <2>2. /\ P \in Nat /\ P + refresh_sys_wcnt_cnt + 1 < cycles_per_row
        /\ LastRaise = P - (IF rows = 1 THEN 0 ELSE refresh_sys_wcnt_cnt)
    BY LastRaiseFits DEF P
  <2>3. QED
    BY <2>1, <2>2
<1>2. ToRaise \in Nat /\ refresh_sys_wcnt \in Nat /\ refresh_sys_cnt \in Nat
  BY DEF ToRaise, BInv, IInv, TypeOK, Requests
<1> HIDE DEF P, D
<1>3. h # 0
  BY <1>1
<1>4. ASSUME refresh_sys_wcnt # 0 \/ ToRaise # 0 PROVE FALSE
  <2>1. h + refresh_sys_wcnt + (ToRaise - 1) * D <= LastRaise
    BY <1>4 DEF BInv, InTime, D
  <2>2. (ToRaise - 1) * D \in Int /\ (ToRaise - 1) * D = ToRaise * D - D
    BY <1>1, <1>2, Units
  <2>3. ToRaise * D \in Nat /\ (ToRaise >= 1 => ToRaise * D >= 1 * D) /\ 1 * D = D
    BY <1>1, <1>2, Units, MoreUnits
  <2>4. refresh_sys_wcnt + (ToRaise - 1) * D >= 1 - D
    BY <1>1, <1>2, <1>4, <2>2, <2>3
  <2>5. QED
    BY <1>1, <1>2, <2>1, <2>2, <2>4
<1>5. ~refresh_sys
  BY <1>3, <1>4, RaisedLately
<1>6. QED
  BY <1>3, <1>4, <1>5 DEF ToRaise

(* Nothing is left when the next line begins.                              *)
LEMMA SettledStep ==
  ASSUME BInv, Next
  PROVE  Settled'
<1> SUFFICES ASSUME rows' >= 2, h' = 0
             PROVE  refresh_sys_cnt' = 0 /\ ~refresh_sys' /\ refresh_sys_wcnt' = 0
  BY DEF Settled
<1>1. rows \in 0 .. 3
  BY DEF BInv, IInv, Observed
<1>2. rows # 0 /\ h = cycles_per_row - 1
  <2>1. rows' # 0
    OBVIOUS
  <2>2. h \in 0 .. cycles_per_row - 1 /\ cycles_per_row \in Nat
    BY Sizes DEF BInv, Line
  <2>3. QED
    BY <1>1, <2>1, <2>2, SteadyVideo
<1>3. h # 0 /\ refresh_sys_cnt = 0 /\ ~refresh_sys /\ refresh_sys_wcnt = 0
  BY <1>2, AllGiven
<1>4. ~HblankBegins
  BY <1>2, <1>3, BlankBeginsAt0
<1>5. QED
  BY <1>3, <1>4, RequestClock

(* The last request of a line is raised by LastRaise.                      *)
LEMMA InTimeStep ==
  ASSUME BInv, Next
  PROVE  InTime'
<1> SUFFICES ASSUME rows' # 0, refresh_sys_wcnt' # 0 \/ ToRaise' # 0
             PROVE  h' + refresh_sys_wcnt' + (ToRaise' - 1) * (refresh_sys_wcnt_cnt + 1)
                      <= LastRaise'
  BY DEF InTime
<1> DEFINE D == refresh_sys_wcnt_cnt + 1
           P == refresh_per_hbl * D
<1>1. /\ refresh_sys_wcnt_cnt \in Nat \ {0} /\ refresh_per_hbl \in Nat \ {0}
      /\ cycles_per_row \in Nat /\ D \in Nat
  BY Sizes
<1>2. /\ P \in Nat
      /\ LastRaise = P - (IF rows = 1 THEN 0 ELSE refresh_sys_wcnt_cnt)
      /\ LastRaise' = P - (IF rows' = 1 THEN 0 ELSE refresh_sys_wcnt_cnt)
  <2>1. P \in Nat /\ LastRaise = P - (IF rows = 1 THEN 0 ELSE refresh_sys_wcnt_cnt)
    BY LastRaiseFits
  <2>2. (refresh_per_hbl - 1) * D = P - D
    BY <1>1, Units
  <2>3. LastRaise' = IF rows' = 1 THEN P ELSE 1 + (refresh_per_hbl - 1) * D
    BY DEF LastRaise
  <2> HIDE DEF P
  <2>4. QED
    BY <1>1, <2>1, <2>2, <2>3
<1>3. PICK k \in 0 .. refresh_per_hbl : ToRaise' = k
  BY ToRaiseMoves
<1>4. PICK w \in 0 .. refresh_sys_wcnt_cnt : refresh_sys_wcnt' = w
  BY RequestClock
<1>5. /\ (k - 1) * D \in Int /\ (k - 1) * D = k * D - D
      /\ k * D \in Int /\ k * D <= P
      /\ k # refresh_per_hbl => k * D <= P - D
  <2>1. k \in Int /\ refresh_per_hbl - 1 \in Int /\ (refresh_per_hbl - 1) * D = P - D
    BY <1>1, Units
  <2>2. k # refresh_per_hbl => k <= refresh_per_hbl - 1
    BY <1>1
  <2>3. k * D <= refresh_per_hbl * D
    BY <1>1, MoreUnits
  <2>4. k # refresh_per_hbl => k * D <= (refresh_per_hbl - 1) * D
    BY <1>1, <2>1, <2>2, MoreUnits
  <2>5. QED
    BY <1>1, <2>1, <2>3, <2>4, Units
<1>6. SUFFICES h' + w + (k - 1) * D <= LastRaise'
  BY <1>3, <1>4
<1>7. /\ h \in 0 .. cycles_per_row - 1 /\ rows \in 0 .. 3
      /\ h' = (IF h = cycles_per_row - 1 THEN 0 ELSE h + 1)
      /\ rows' = (IF h' = 0 /\ rows < 3 THEN rows + 1 ELSE rows)
  BY SteadyVideo DEF BInv, Line, IInv, Observed
<1> HIDE DEF P
<1>8. CASE h' = 0
  <2>1. rows' = 1
    <3>1. rows' >= 2 => refresh_sys_cnt' = 0 /\ ~refresh_sys' /\ refresh_sys_wcnt' = 0
      BY <1>8, SettledStep DEF Settled
    <3>2. rows' < 2
      BY <1>7, <1>8, <3>1 DEF ToRaise
    <3>3. QED
      BY <1>7, <3>2
  <2>2. LastRaise' = P
    BY <1>2, <2>1
  <2> HIDE DEF D
  <2>3. w <= D
    BY <1>1 DEF D
  <2>4. QED
    BY <1>1, <1>2, <1>5, <1>8, <2>2, <2>3
<1>9. CASE h' # 0 /\ h = 0
  <2>1. h' = 1 /\ rows' = rows /\ rows # 0 /\ HblankBegins
    BY <1>7, <1>9, BlankBeginsAt0
  <2>2. CASE rows = 1
    <3>1. LastRaise' = P
      BY <1>2, <2>1, <2>2
    <3>2. w <= refresh_sys_wcnt_cnt - 1 \/ (SysRaise /\ k = refresh_per_hbl - 1)
      BY <1>1, <1>3, <1>4, <2>1, RequestClock, ToRaiseMoves
    <3>3. CASE w <= refresh_sys_wcnt_cnt - 1
      BY <1>1, <1>2, <1>5, <2>1, <3>1, <3>3
    <3>4. CASE k = refresh_per_hbl - 1
      <4>1. k * D <= P - D
        BY <1>1, <1>5, <3>4
      <4>2. QED
        BY <1>1, <1>2, <1>5, <2>1, <3>1, <4>1
    <3>5. QED
      BY <3>2, <3>3, <3>4
  <2>3. CASE rows # 1
    <3>1. refresh_sys_cnt = 0 /\ ~refresh_sys /\ refresh_sys_wcnt = 0
      BY <1>7, <1>9, <2>1, <2>3 DEF BInv, Settled
    <3>2. w = 0
      BY <1>4, <3>1, RequestClock
    <3>3. LastRaise' = P - refresh_sys_wcnt_cnt
      BY <1>2, <2>1, <2>3
    <3>4. QED
      BY <1>1, <1>2, <1>5, <2>1, <3>2, <3>3
  <2>4. QED
    BY <2>2, <2>3
<1>10. CASE h' # 0 /\ h # 0
  <2>1. h' = h + 1 /\ rows' = rows /\ rows # 0 /\ ~HblankBegins /\ LastRaise' = LastRaise
    BY <1>2, <1>7, <1>10, BlankBeginsAt0
  <2>2. PICK m \in 0 .. refresh_per_hbl : ToRaise = m
    BY ToRaiseMoves
  <2>3. PICK v \in 0 .. refresh_sys_wcnt_cnt : refresh_sys_wcnt = v
    BY RequestClock
  <2>4. v # 0 \/ m # 0 => h + v + (m - 1) * D <= LastRaise
    BY <2>1, <2>2, <2>3 DEF BInv, InTime
  <2>5. LastRaise \in Int /\ (m - 1) * D \in Int /\ (m - 1) * D = m * D - D /\ m * D \in Int
    BY <1>1, <1>2, Units
  <2>6. refresh_sys => v # 0
    BY <1>10, <2>1, <2>3, RaisedLately
  <2>7. CASE SysRaise
    <3>1. v = 0 /\ m # 0 /\ k = m - 1 /\ w = refresh_sys_wcnt_cnt
      BY <1>3, <1>4, <2>1, <2>2, <2>3, <2>7, RequestClock, ToRaiseMoves
    <3>2. k * D = m * D - D
      BY <2>5, <3>1
    <3>3. QED
      BY <1>1, <1>2, <1>5, <1>7, <2>1, <2>4, <2>5, <3>1, <3>2
  <2>8. CASE ~SysRaise
    <3>1. k = m
      BY <1>3, <2>1, <2>2, <2>8, ToRaiseMoves
    <3>2. v # 0
      <4>1. v = 0 => ~refresh_sys /\ refresh_sys_cnt = 0 /\ w = 0
        BY <1>4, <2>3, <2>6, <2>8, RequestClock
      <4>2. v = 0 => m = 0
        BY <2>2, <4>1 DEF ToRaise
      <4>3. QED
        BY <1>3, <1>4, <3>1, <4>1, <4>2
    <3>3. w = v - 1
      BY <1>4, <2>3, <2>8, <3>2, RequestClock
    <3>4. QED
      BY <1>1, <1>7, <2>1, <2>4, <2>5, <3>1, <3>2, <3>3
  <2>9. QED
    BY <2>7, <2>8
<1>11. QED
  BY <1>8, <1>9, <1>10

-----------------------------------------------------------------------------
(* The credit.                                                             *)

(* The registers of the main state machine, outside start-up.              *)
LEMMA CounterRange ==
  ASSUME IInv, state # "STARTUP"
  PROVE  /\ refresh_count \in Nat /\ refresh_count < startup_refresh_max
         /\ refresh_credit \in 0 .. credit_max
         /\ state \in {"ACTIVE", "REFRESH"}
         /\ state = "REFRESH" => refresh_wait \in 1 .. TRC_MIN
         /\ refresh_count + (IF refresh_due THEN cycles_per_refresh ELSE 0)
              <= cycles_per_refresh + TRC_MIN + MaxBusy + 3
<1>1. /\ refresh_count \in 0 .. startup_refresh_max /\ refresh_credit \in 0 .. credit_max
      /\ refresh_wait \in 0 .. TRC_MIN /\ busy \in 0 .. MaxBusy
      /\ state \in {"ACTIVE", "REFRESH"} /\ (state = "REFRESH" => refresh_wait >= 1)
  BY DEF IInv, TypeOK, Observed
<1>2. refresh_due \in BOOLEAN
  BY DEF IInv, TypeOK
<1>3. /\ TRC_MIN \in Nat /\ MaxBusy \in Nat /\ cycles_per_refresh \in Nat
      /\ cycles_per_refresh > MaxBusy + TRC_MIN + 1
      /\ startup_refresh_max \in Nat /\ startup_refresh_max > 2 * cycles_per_refresh
  BY Sizes, RefreshAssumption
<1>4. CASE refresh_due
  <2>1. refresh_count <= TRC_MIN + MaxBusy + 3
    BY <1>1, <1>3, <1>4 DEF IInv, Counter
  <2>2. QED
    BY <1>1, <1>3, <1>4, <2>1
<1>5. CASE ~refresh_due
  <2>1. refresh_count <= cycles_per_refresh + TRC_MIN + 1
    BY <1>1, <1>3, <1>5 DEF IInv, Counter
  <2>2. QED
    BY <1>1, <1>3, <1>5, <2>1
<1>6. QED
  BY <1>2, <1>4, <1>5

(* A clock takes one from what is left, a refresh adds an interval.        *)
LEMMA LeftMoves ==
  ASSUME BInv, Next, state # "STARTUP", state' # "STARTUP"
  PROVE  /\ Left \in Int /\ Left' \in Int
         /\ state = "ACTIVE" \/ refresh_wait # TRC_MIN => Left' = Left - 1
         /\ state = "ACTIVE" /\ refresh_due' /\ ~refresh_due => Left < -cycles_per_refresh
         /\ state = "REFRESH" /\ refresh_wait = TRC_MIN =>
              /\ \/ Left' = Left + cycles_per_refresh - 1
                 \/ Left' >= (credit_max - 1) * cycles_per_refresh - 2
              /\ Left' >= -(TRC_MIN + MaxBusy + 4)
<1> DEFINE C == cycles_per_refresh
           own == refresh_credit * C
<1>1. /\ refresh_count \in Nat /\ refresh_count < startup_refresh_max
      /\ refresh_credit \in 0 .. credit_max /\ state \in {"ACTIVE", "REFRESH"}
  BY CounterRange DEF BInv
<1>2. /\ C \in Nat \ {0} /\ credit_max \in Nat \ {0} /\ TRC_MIN \in Nat /\ MaxBusy \in Nat
      /\ TRC_MIN >= 2
  BY Sizes
<1>3. /\ own \in Nat /\ (refresh_credit + 1) * C = own + C /\ (refresh_credit - 1) * C = own - C
      /\ refresh_credit = 0 => own = 0
  <2>1. /\ own \in Nat /\ (refresh_credit + 1) * C = own + C
        /\ (refresh_credit - 1) * C = own - C
    BY <1>1, CreditUnits
  <2>2. refresh_credit = 0 => own = 0
    BY <1>2
  <2>3. QED
    BY <2>1, <2>2
<1>4. Tick(refresh_count) = refresh_count + 1
  BY <1>1, TickCounts, RefreshAssumption
<1>5. Left = own - refresh_count - (IF refresh_due THEN C ELSE 0)
  BY DEF Left
<1>6. Left' = refresh_credit' * C - refresh_count' - (IF refresh_due' THEN C ELSE 0)
  BY DEF Left
<1> HIDE DEF own, C
<1>7. Left \in Int
  BY <1>1, <1>2, <1>3, <1>5
<1>8. CASE state = "ACTIVE"
  <2>1. Active(FALSE)
    BY <1>8, Cases DEF Startup, Refresh
  <2>2. CASE IntervalOver
    <3>1. ~refresh_due /\ refresh_count > C /\ refresh_count' = refresh_count - C + 1
      BY <2>1, <2>2 DEF Active, IntervalOver, C, Goto
    <3>2. /\ refresh_credit' = IF refresh_credit # 0 THEN refresh_credit - 1 ELSE 0
          /\ refresh_due' <=> refresh_credit = 0
      BY <2>1, <2>2 DEF Active, Goto
    <3>3. CASE refresh_credit = 0
      <4>1. refresh_credit' = 0 /\ refresh_due' /\ 0 * C = 0 /\ own = 0
        BY <1>2, <1>3, <3>2, <3>3
      <4>2. Left' = 0 - (refresh_count - C + 1) - C
        BY <1>6, <3>1, <4>1
      <4>3. Left = -refresh_count
        BY <1>1, <1>5, <3>1, <4>1
      <4>4. QED
        BY <1>1, <1>2, <1>8, <3>1, <4>2, <4>3 DEF C
    <3>4. CASE refresh_credit # 0
      <4>1. refresh_credit' = refresh_credit - 1 /\ ~refresh_due'
        BY <3>2, <3>4
      <4>2. Left' = (own - C) - (refresh_count - C + 1)
        BY <1>1, <1>2, <1>3, <1>6, <3>1, <4>1
      <4>3. QED
        BY <1>1, <1>2, <1>3, <1>5, <1>8, <3>1, <4>1, <4>2
    <3>5. QED
      BY <3>3, <3>4
  <2>3. CASE ~IntervalOver
    <3>1. /\ refresh_count' = refresh_count + 1 /\ refresh_credit' = refresh_credit
          /\ refresh_due' = refresh_due
      BY <1>4, <2>1, <2>3 DEF Active, Goto
    <3>2. Left' = own - (refresh_count + 1) - (IF refresh_due THEN C ELSE 0)
      BY <1>6, <3>1 DEF own
    <3>3. QED
      BY <1>1, <1>2, <1>3, <1>5, <1>8, <3>1, <3>2
  <2>4. QED
    BY <2>2, <2>3
<1>9. CASE state = "REFRESH"
  <2>1. Refresh(FALSE)
    BY <1>9, Cases DEF Startup, Active
  <2>2. refresh_count' = refresh_count + 1
    BY <1>4, <2>1 DEF Refresh, Goto
  <2>3. CASE refresh_wait # TRC_MIN
    <3>1. refresh_credit' = refresh_credit /\ refresh_due' = refresh_due
      BY <2>1, <2>3 DEF Refresh, Goto
    <3>2. Left' = own - (refresh_count + 1) - (IF refresh_due THEN C ELSE 0)
      BY <1>6, <2>2, <3>1 DEF own
    <3>3. QED
      BY <1>1, <1>2, <1>3, <1>5, <1>9, <2>3, <3>2
  <2>4. CASE refresh_wait = TRC_MIN /\ refresh_due
    <3>1. refresh_credit' = refresh_credit /\ ~refresh_due'
      BY <2>1, <2>4 DEF Refresh, Goto
    <3>2. Left' = own - (refresh_count + 1) - 0
      BY <1>6, <2>2, <3>1 DEF own
    <3>3. refresh_count <= TRC_MIN + MaxBusy + 3
      BY <1>9, <2>4 DEF BInv, IInv, Counter
    <3>4. QED
      BY <1>1, <1>2, <1>3, <1>5, <1>9, <2>4, <3>2, <3>3 DEF C
  <2>5. CASE refresh_wait = TRC_MIN /\ ~refresh_due
    <3>1. refresh_count + TRC_MIN <= C + TRC_MIN + 1
      BY <1>9, <2>5 DEF BInv, IInv, Counter, C
    <3>2. ~refresh_due'
      BY <2>1, <2>5 DEF Refresh, Goto
    <3>3. CASE refresh_credit < credit_max
      <4>1. refresh_credit' = refresh_credit + 1
        BY <2>1, <2>5, <3>3 DEF Refresh, Goto
      <4>2. Left' = (own + C) - (refresh_count + 1) - 0
        BY <1>3, <1>6, <2>2, <3>2, <4>1
      <4>3. QED
        BY <1>1, <1>2, <1>3, <1>5, <1>9, <2>5, <3>1, <4>2 DEF C
    <3>4. CASE ~(refresh_credit < credit_max)
      <4>1. refresh_credit' = refresh_credit /\ refresh_credit = credit_max
        BY <1>1, <1>2, <2>1, <2>5, <3>4 DEF Refresh, Goto
      <4>2. Left' = own - (refresh_count + 1) - 0
        BY <1>6, <2>2, <3>2, <4>1 DEF own
      <4>3. (credit_max - 1) * C = own - C /\ own >= C
        <5>1. own = credit_max * C /\ 1 * C <= credit_max * C /\ 1 * C = C
          BY <1>2, <4>1, MoreUnits DEF own
        <5>2. QED
          BY <1>3, <4>1, <5>1
      <4>4. QED
        BY <1>1, <1>2, <1>3, <1>5, <1>9, <2>5, <3>1, <4>2, <4>3 DEF C
    <3>5. QED
      BY <3>3, <3>4
  <2>6. QED
    BY <2>3, <2>4, <2>5
<1>10. QED
  BY <1>1, <1>8, <1>9

(* What a line has paid so far, before a next line begins.                 *)
LEMMA PaidGoesOn ==
  ASSUME BInv, Next, rows >= 2, state # "STARTUP", state' # "STARTUP",
         NEW had \in Int, had = IF SysDone THEN Had + 1 ELSE Had
  PROVE  \/ Left' >= AtLineStart + had * cycles_per_refresh - (h + 1) + Shared'
         \/ Left' >= (credit_max - 1) * cycles_per_refresh - TRC_MIN - 1 - (h + 1)
<1> DEFINE C == cycles_per_refresh
           S == (credit_max - 1) * C
           paid == Had * C
<1>1. /\ C \in Nat \ {0} /\ TRC_MIN \in Nat /\ TRC_MIN >= 2 /\ MaxBusy \in Nat
      /\ cycles_per_row \in Nat /\ refresh_sys_wcnt_cnt \in Nat
      /\ refresh_sys_wcnt_cnt >= MaxBusy + TRC_MIN + 2
  BY Sizes
<1>2. S \in Int /\ Gain \in Nat
  BY GainFits
<1>3. AtLineStart \in Int
  BY <1>1, <1>2 DEF AtLineStart
<1>4. h \in 0 .. cycles_per_row - 1 /\ rows # 0 /\ rows \in 0 .. 3
  BY DEF BInv, Line, IInv, Observed
<1>5. Had \in Int /\ paid \in Int /\ had * C = (IF SysDone THEN paid + C ELSE paid)
  <2>1. Had \in Int
    BY RequestClock, Sizes DEF Had
  <2>2. paid \in Int /\ (Had + 1) * C = paid + C
    BY <1>1, <2>1, Units
  <2>3. QED
    BY <2>1, <2>2
<1>6. Shared \in {0, C} /\ Shared' \in {0, C}
  BY DEF Shared
<1>7. /\ state \in {"ACTIVE", "REFRESH"}
      /\ state = "REFRESH" => refresh_wait \in 1 .. TRC_MIN
  BY CounterRange DEF BInv
<1>8. /\ Left \in Int /\ Left' \in Int
      /\ state = "ACTIVE" \/ refresh_wait # TRC_MIN => Left' = Left - 1
      /\ state = "REFRESH" /\ refresh_wait = TRC_MIN =>
           \/ Left' = Left + C - 1
           \/ Left' >= S - 2
  BY LeftMoves
<1>9. \/ Left >= AtLineStart + paid - h + Shared
      \/ Left >= S - TRC_MIN - 1 - h
  BY DEF BInv, Paid
<1>10. SysDone => Shared' = 0
  <2>1. SUFFICES ASSUME SysDone PROVE Shared' = 0
    OBVIOUS
  <2>2. refresh_sys /\ state = "REFRESH" /\ ~SysRaise /\ ~refresh_sys'
    BY <2>1, RequestClock
  <2>3. ~(rows = 1 /\ h = 0)
    BY <1>4
  <2>4. refresh_sys_wcnt # 0 /\ refresh_sys_wcnt + MaxBusy + 1 >= refresh_sys_wcnt_cnt
    BY <1>4, <2>2, <2>3, RaisedLately
  <2>5. PICK v \in 0 .. refresh_sys_wcnt_cnt : refresh_sys_wcnt = v
    BY RequestClock
  <2>6. refresh_sys_wcnt' = v - 1
    BY <2>2, <2>4, <2>5, RequestClock
  <2>7. refresh_wait' = refresh_wait - 1
    BY <2>2, MainClock
  <2>8. PICK u \in 1 .. TRC_MIN : refresh_wait = u
    BY <1>7, <2>2
  <2>9. v - 1 > u - 1
    BY <1>1, <2>4, <2>5, <2>8
  <2>10. ~(refresh_sys_wcnt' <= refresh_wait')
    BY <2>5, <2>6, <2>7, <2>8, <2>9
  <2>11. QED
    BY <2>2, <2>10 DEF Shared
<1>11. state = "REFRESH" /\ refresh_wait # TRC_MIN /\ SysDone => Shared = C
  <2>1. refresh_wait \in 1 .. TRC_MIN /\ refresh_wait # TRC_MIN => refresh_wait < TRC_MIN
    BY <1>1
  <2>2. SysDone => refresh_sys
    BY RequestClock
  <2>3. QED
    BY <1>7, <2>1, <2>2 DEF Shared
<1>12. state = "REFRESH" /\ refresh_wait # TRC_MIN /\ ~SysDone => Shared' = 0 \/ Shared = C
  <2>1. SUFFICES ASSUME state = "REFRESH", refresh_wait # TRC_MIN, ~SysDone, Shared' # 0
                 PROVE  Shared = C
    OBVIOUS
  <2>2. PICK u \in 1 .. TRC_MIN : refresh_wait = u
    BY <1>7, <2>1
  <2>3. PICK v \in 0 .. refresh_sys_wcnt_cnt : refresh_sys_wcnt = v
    BY RequestClock
  <2>4. refresh_wait' = u - 1
    BY <2>1, <2>2, MainClock
  <2>5. refresh_sys' \/ refresh_sys_wcnt' <= refresh_wait'
    BY <2>1 DEF Shared
  <2>6. ~refresh_sys
    BY <2>1, RequestClock
  <2>7. SysRaise => v = 0
    BY <2>3, RequestClock
  <2>8. ~SysRaise => ~refresh_sys' /\ refresh_sys_wcnt' = IF v = 0 THEN 0 ELSE v - 1
    BY <2>3, <2>6, RequestClock
  <2>9. v <= u
    <3>1. CASE SysRaise
      BY <2>2, <2>7, <3>1
    <3>2. CASE ~SysRaise
      <4>1. (IF v = 0 THEN 0 ELSE v - 1) <= u - 1
        BY <2>4, <2>5, <2>8, <3>2
      <4>2. QED
        BY <2>2, <2>3, <4>1
    <3>3. QED
      BY <3>1, <3>2
  <2>10. refresh_sys_wcnt <= refresh_wait /\ refresh_wait < TRC_MIN
    BY <1>1, <2>1, <2>2, <2>3, <2>9
  <2>11. QED
    BY <2>1, <2>10 DEF Shared
<1>13. state = "ACTIVE" => Shared' = 0 /\ ~SysDone
  <2>1. SUFFICES ASSUME state = "ACTIVE" PROVE Shared' = 0 /\ ~SysDone
    OBVIOUS
  <2>2. state' = "REFRESH" => refresh_wait' = TRC_MIN
    BY <2>1, MainClock
  <2>3. QED
    BY <1>1, <2>1, <2>2, RequestClock DEF Shared
<1>14. SUFFICES \/ Left' >= AtLineStart + (IF SysDone THEN paid + C ELSE paid) - (h + 1) + Shared'
                \/ Left' >= S - TRC_MIN - 1 - (h + 1)
  BY <1>5
<1> HIDE DEF C, S, paid
<1>15. PICK s0 \in Int : Shared = s0
  BY <1>1, <1>6
<1>16. PICK s1 \in Int : Shared' = s1
  BY <1>1, <1>6
<1>17. PICK x \in Int : Left' = x
  BY <1>8
<1>18. CASE state = "ACTIVE" \/ refresh_wait # TRC_MIN
  <2>1. x = Left - 1
    BY <1>8, <1>17, <1>18
  <2>2. (IF SysDone THEN C ELSE 0) + s1 <= s0
    BY <1>1, <1>6, <1>7, <1>10, <1>11, <1>12, <1>13, <1>15, <1>16, <1>18
  <2>3. QED
    BY <1>1, <1>2, <1>3, <1>4, <1>5, <1>8, <1>9, <1>15, <1>16, <1>17, <2>1, <2>2
<1>19. CASE state = "REFRESH" /\ refresh_wait = TRC_MIN
  <2>1. x = Left + C - 1 \/ x >= S - 2
    BY <1>8, <1>17, <1>19
  <2>2. s0 = 0 /\ s0 >= 0
    BY <1>1, <1>15, <1>19 DEF Shared
  <2>3. (IF SysDone THEN C ELSE 0) + s1 <= C
    BY <1>1, <1>6, <1>10, <1>16
  <2>4. CASE x >= S - 2
    BY <1>1, <1>2, <1>4, <1>17, <2>4
  <2>5. CASE x = Left + C - 1
    BY <1>1, <1>2, <1>3, <1>4, <1>5, <1>8, <1>9, <1>15, <1>16, <1>17, <2>2, <2>3, <2>5
  <2>6. QED
    BY <2>1, <2>4, <2>5
<1>20. QED
  BY <1>7, <1>18, <1>19

(* What the blank has given is known again in the next cycle.              *)
LEMMA HadMoves ==
  ASSUME BInv, Next, rows >= 2, h # cycles_per_row - 1, rows' # 0
  PROVE  Had' = IF SysDone THEN Had + 1 ELSE Had
<1>1. rows # 0 /\ rows \in 0 .. 3 /\ h \in 0 .. cycles_per_row - 1
  BY DEF BInv, IInv, Observed, Line
<1>2. h' = h + 1 /\ h' # 0
  BY <1>1, SteadyVideo, Sizes
<1>3. /\ refresh_sys_cnt \in 0 .. refresh_per_hbl /\ refresh_per_hbl \in Nat
      /\ refresh_sys_cnt' = IF SysDone THEN refresh_sys_cnt - 1
                            ELSE IF HblankBegins THEN refresh_per_hbl ELSE refresh_sys_cnt
  BY RequestClock, Sizes
<1>4. Had' = refresh_per_hbl - refresh_sys_cnt'
  BY <1>2 DEF Had
<1>5. CASE h = 0
  <2>1. ~SysDone /\ HblankBegins
    BY <1>1, <1>5, BlankBeginsAt0, RequestClock DEF BInv, Settled
  <2>2. QED
    BY <1>3, <1>4, <1>5, <2>1 DEF Had
<1>6. CASE h # 0
  <2>1. ~HblankBegins /\ Had = refresh_per_hbl - refresh_sys_cnt
    BY <1>1, <1>6, BlankBeginsAt0 DEF Had
  <2>2. QED
    BY <1>3, <1>4, <2>1
<1>7. QED
  BY <1>5, <1>6

(* Each line ends at least as well paid as it began.                       *)
LEMMA PaidStep ==
  ASSUME BInv, Next, IInv'
  PROVE  Paid'
<1> DEFINE C == cycles_per_refresh
           S == (credit_max - 1) * C
<1>1. /\ C \in Nat \ {0} /\ TRC_MIN \in Nat /\ TRC_MIN >= 2 /\ MaxBusy \in Nat
      /\ cycles_per_row \in Nat
  BY Sizes
<1>2. /\ S \in Int /\ Gain \in Nat /\ Gain <= C
      /\ refresh_per_hbl * C = Gain + cycles_per_row
      /\ 2 * Gain >= 2 * TRC_MIN + MaxBusy + 3
      /\ S + Gain >= cycles_per_row + TRC_MIN + 1
  BY GainFits
<1>3. ASSUME state' = "REFRESH", refresh_wait' < TRC_MIN
      PROVE  Left' >= refresh_wait' - (2 * TRC_MIN + MaxBusy + 3)
  <2>1. state # "STARTUP" /\ state' # "STARTUP"
    BY <1>3 DEF Next, StateMachine, Startup, Refresh, Active, Goto
  <2>2. state = "REFRESH" /\ refresh_wait' = refresh_wait - 1
    BY <1>1, <1>3, <2>1, MainClock
  <2>3. PICK u \in 1 .. TRC_MIN : refresh_wait = u
    BY <2>1, <2>2, CounterRange DEF BInv
  <2>4. Left \in Int /\ Left' \in Int
    BY <2>1, LeftMoves
  <2>5. CASE u = TRC_MIN
    <3>1. Left' >= -(TRC_MIN + MaxBusy + 4)
      BY <2>1, <2>2, <2>3, <2>5, LeftMoves
    <3>2. QED
      BY <1>1, <2>2, <2>3, <2>4, <2>5, <3>1
  <2>6. CASE u # TRC_MIN
    <3>1. Left' = Left - 1
      BY <2>1, <2>3, <2>6, LeftMoves
    <3>2. refresh_wait < TRC_MIN
      BY <1>1, <2>3, <2>6
    <3>3. Left >= u - (2 * TRC_MIN + MaxBusy + 3)
      BY <2>2, <2>3, <3>2 DEF BInv, Paid
    <3>4. QED
      BY <1>1, <2>2, <2>3, <2>4, <3>1, <3>3
  <2>7. QED
    BY <2>5, <2>6
<1>4. ASSUME rows' >= 2
      PROVE  \/ Left' >= AtLineStart' + Had' * C - h' + Shared'
             \/ Left' >= S - TRC_MIN - 1 - h'
  <2>1. /\ state # "STARTUP" /\ state' # "STARTUP" /\ rows' # 0
        /\ h' = (IF h = cycles_per_row - 1 THEN 0 ELSE h + 1)
        /\ rows' = (IF h' = 0 /\ rows < 3 THEN rows + 1 ELSE rows)
    BY <1>4, SteadyVideo
  <2>2. /\ h \in 0 .. cycles_per_row - 1 /\ rows \in 1 .. 3
    BY <1>4, <2>1 DEF BInv, IInv, Observed, Line
  <2>3. Left' \in Int /\ Shared' \in {0, C}
    BY <2>1, LeftMoves DEF Shared
  <2>4. CASE rows >= 2 /\ h # cycles_per_row - 1
    <3>1. Had' = IF SysDone THEN Had + 1 ELSE Had
      BY <2>1, <2>4, HadMoves
    <3>2. h' = h + 1 /\ AtLineStart' = AtLineStart
      <4>1. h' = h + 1 /\ rows' = rows
        BY <2>1, <2>2, <2>4
      <4>2. QED
        BY <4>1 DEF AtLineStart
    <3>3. Had \in Int
      BY RequestClock, Sizes DEF Had
    <3>4. PICK g \in Int : g = IF SysDone THEN Had + 1 ELSE Had
      BY <3>3
    <3>5. \/ Left' >= AtLineStart + g * C - (h + 1) + Shared'
          \/ Left' >= S - TRC_MIN - 1 - (h + 1)
      BY <2>1, <2>4, <3>4, PaidGoesOn
    <3>6. Had' = g
      BY <3>1, <3>4
    <3>7. QED
      BY <3>2, <3>5, <3>6
  <2>5. CASE rows >= 2 /\ h = cycles_per_row - 1
    <3>1. refresh_sys_cnt = 0 /\ ~SysDone /\ h # 0
      BY <2>2, <2>5, AllGiven, RequestClock
    <3>2. Had = refresh_per_hbl /\ refresh_per_hbl \in Int
      BY <3>1, Sizes DEF Had
    <3>3. \/ Left' >= AtLineStart + refresh_per_hbl * C - (h + 1) + Shared'
          \/ Left' >= S - TRC_MIN - 1 - (h + 1)
      BY <2>1, <2>5, <3>1, <3>2, PaidGoesOn
    <3>4. h' = 0 /\ rows' = 3 /\ Had' = 0 /\ Had' * C = 0
      <4>1. h' = 0 /\ rows' = 3
        BY <2>1, <2>2, <2>5
      <4>2. Had' = 0 /\ 0 * C = 0
        BY <1>1, <4>1 DEF Had
      <4>3. QED
        BY <4>1, <4>2
    <3>5. AtLineStart' = -(C + Gain)
      BY <3>4 DEF AtLineStart
    <3>6. AtLineStart \in Int /\ AtLineStart + Gain >= -(C + Gain)
      BY <1>1, <1>2 DEF AtLineStart
    <3>7. SUFFICES Left' >= -(C + Gain) + Shared'
      <4>1. AtLineStart' + Had' * C - h' + Shared' = -(C + Gain) + Shared'
        BY <1>1, <1>2, <2>3, <3>4, <3>5
      <4>2. QED
        BY <3>7, <4>1
    <3>8. PICK x \in Int, s1 \in {0, C} : Left' = x /\ Shared' = s1
      BY <2>3
    <3>9. \/ x >= AtLineStart + (Gain + cycles_per_row) - cycles_per_row + s1
          \/ x >= S - TRC_MIN - 1 - cycles_per_row
      <4>1. h + 1 = cycles_per_row
        BY <1>1, <2>5
      <4>2. QED
        BY <1>2, <3>3, <3>8, <4>1
    <3> HIDE DEF S, C
    <3>10. x >= -(C + Gain) + s1
      BY <1>1, <1>2, <3>6, <3>8, <3>9
    <3>11. QED
      BY <3>8, <3>10
  <2>6. CASE rows = 1
    <3>1. h' = 0 /\ rows' = 2 /\ Had' = 0 /\ Had' * C = 0
      <4>1. h' = 0 /\ rows' = 2
        BY <1>4, <2>1, <2>2, <2>6
      <4>2. Had' = 0 /\ 0 * C = 0
        BY <1>1, <4>1 DEF Had
      <4>3. QED
        BY <4>1, <4>2
    <3>2. AtLineStart' = -(C + 2 * TRC_MIN + MaxBusy + 3)
      BY <3>1 DEF AtLineStart
    <3>3. SUFFICES Left' >= -(C + 2 * TRC_MIN + MaxBusy + 3) + Shared'
      <4>1. AtLineStart' + Had' * C - h' + Shared'
              = -(C + 2 * TRC_MIN + MaxBusy + 3) + Shared'
        BY <1>1, <2>3, <3>1, <3>2
      <4>2. QED
        BY <3>3, <4>1
    <3>4. CASE state' = "REFRESH" /\ refresh_wait' < TRC_MIN
      <4>1. Left' >= refresh_wait' - (2 * TRC_MIN + MaxBusy + 3)
        BY <1>3, <3>4
      <4>2. PICK u \in 0 .. TRC_MIN : refresh_wait' = u
        BY DEF IInv, TypeOK
      <4>3. PICK x \in Int, s1 \in {0, C} : Left' = x /\ Shared' = s1
        BY <2>3
      <4>4. x >= u - (2 * TRC_MIN + MaxBusy + 3)
        BY <4>1, <4>2, <4>3
      <4> HIDE DEF C, S
      <4>5. x >= -(C + 2 * TRC_MIN + MaxBusy + 3) + s1
        BY <1>1, <4>2, <4>3, <4>4
      <4>6. QED
        BY <4>3, <4>5
    <3>5. CASE ~(state' = "REFRESH" /\ refresh_wait' < TRC_MIN)
      <4>1. Shared' = 0
        BY <3>5 DEF Shared
      <4>2. /\ refresh_count' \in Nat /\ refresh_credit' \in 0 .. credit_max
            /\ refresh_count' + (IF refresh_due' THEN cycles_per_refresh ELSE 0)
                 <= cycles_per_refresh + TRC_MIN + MaxBusy + 3
        <5>1. /\ refresh_count' \in 0 .. startup_refresh_max
              /\ refresh_credit' \in 0 .. credit_max
              /\ state' \in {"ACTIVE", "REFRESH"} /\ busy' \in 0 .. MaxBusy
              /\ refresh_wait' \in 0 .. TRC_MIN
          BY <2>1 DEF IInv, TypeOK, Observed
        <5>2. PICK n \in 0 .. startup_refresh_max, b \in 0 .. MaxBusy, u \in 0 .. TRC_MIN :
                refresh_count' = n /\ busy' = b /\ refresh_wait' = u
          BY <5>1
        <5>3. n + (IF refresh_due' THEN cycles_per_refresh ELSE 0)
                <= cycles_per_refresh + TRC_MIN + MaxBusy + 3
          <6>1. /\ state' = "ACTIVE" /\ ~refresh_due' => n <= cycles_per_refresh + TRC_MIN + 1
                /\ state' = "ACTIVE" /\ refresh_due' => n + b <= TRC_MIN + MaxBusy + 2
                /\ state' = "REFRESH" /\ ~refresh_due' =>
                     n + u <= cycles_per_refresh + TRC_MIN + 1
                /\ state' = "REFRESH" /\ refresh_due' => n <= TRC_MIN + MaxBusy + 3
            BY <5>2 DEF IInv, Counter
          <6>2. CASE refresh_due'
            BY <1>1, <5>1, <5>2, <6>1, <6>2
          <6>3. CASE ~refresh_due'
            BY <1>1, <5>1, <5>2, <6>1, <6>3
          <6>4. QED
            BY <6>2, <6>3
        <5>4. n \in Nat
          BY RefreshAssumption
        <5>5. QED
          BY <5>1, <5>2, <5>3, <5>4
      <4>3. PICK c \in 0 .. credit_max : refresh_credit' = c
        BY <4>2
      <4>4. c * C \in Nat
        BY <4>3, CreditUnits
      <4>5. PICK n \in Nat : refresh_count' = n
        BY <4>2
      <4>6. Left' = c * C - n - (IF refresh_due' THEN C ELSE 0)
        BY <4>3, <4>5 DEF Left
      <4>7. n + (IF refresh_due' THEN C ELSE 0) <= C + TRC_MIN + MaxBusy + 3
        BY <4>2, <4>5
      <4> HIDE DEF C, S
      <4>8. Left' >= -(C + TRC_MIN + MaxBusy + 3)
        BY <1>1, <4>4, <4>6, <4>7
      <4>9. QED
        BY <1>1, <2>3, <4>1, <4>8
    <3>6. QED
      BY <3>4, <3>5
  <2>7. QED
    BY <2>2, <2>4, <2>5, <2>6
<1>5. QED
  BY <1>3, <1>4 DEF Paid

(* A refresh of the blank starts soon after the last request at the latest. *)
LEMMA BlankRefreshEarly ==
  ASSUME BInv, rows = 3, refresh_sys, state = "ACTIVE"
  PROVE  h + busy <= LastRaise + MaxBusy + 1
<1> DEFINE D == refresh_sys_wcnt_cnt + 1
<1>1. D \in Nat \ {0} /\ refresh_sys_wcnt_cnt \in Nat /\ MaxBusy \in Nat /\ cycles_per_row \in Nat
  BY Sizes
<1>2. /\ refresh_sys_wcnt \in 0 .. refresh_sys_wcnt_cnt /\ busy \in 0 .. MaxBusy
      /\ h \in 0 .. cycles_per_row - 1 /\ LastRaise \in Int
  BY LastRaiseFits, Sizes DEF BInv, IInv, TypeOK, Observed, Line
<1>3. refresh_sys_wcnt # 0 /\ refresh_sys_wcnt + MaxBusy >= refresh_sys_wcnt_cnt + busy
  BY RaisedLately
<1>4. h + refresh_sys_wcnt + (ToRaise - 1) * D <= LastRaise
  BY <1>3 DEF BInv, InTime
<1>5. ToRaise \in Nat
  BY Sizes DEF ToRaise, BInv, IInv, TypeOK, Requests
<1>6. (ToRaise - 1) * D \in Int /\ (ToRaise - 1) * D >= -D
  <2>1. (ToRaise - 1) * D = ToRaise * D - D /\ ToRaise * D \in Int /\ ToRaise * D >= 0
    BY <1>1, <1>5, Units
  <2> HIDE DEF D
  <2>2. QED
    BY <1>1, <2>1
<1>7. PICK m \in Int : (ToRaise - 1) * D = m
  BY <1>6
<1>8. QED
  BY <1>1, <1>2, <1>3, <1>4, <1>6, <1>7

(* From the third line on the credit covers the line once the blank has    *)
(* given its refreshes, so nothing becomes due after its last request.     *)
LEMMA DueEarly ==
  ASSUME BInv, Next, rows = 3, h # cycles_per_row - 1, state = "ACTIVE", state' = "ACTIVE",
         refresh_due', ~refresh_due
  PROVE  h + 1 + busy' <= LastRaise + MaxBusy + 1
<1>1. /\ cycles_per_row \in Nat /\ cycles_per_refresh \in Nat /\ MaxBusy \in Nat
      /\ TRC_MIN \in Nat /\ refresh_per_hbl \in Nat \ {0} /\ refresh_sys_wcnt_cnt \in Nat
  BY Sizes
<1>2. /\ refresh_sys_wcnt \in 0 .. refresh_sys_wcnt_cnt /\ busy \in 0 .. MaxBusy
      /\ h \in 0 .. cycles_per_row - 1 /\ LastRaise \in Nat
      /\ refresh_sys_cnt \in 0 .. refresh_per_hbl
  <2>1. LastRaise \in Nat
    <3> DEFINE P == refresh_per_hbl * (refresh_sys_wcnt_cnt + 1)
    <3>1. /\ P \in Nat /\ P >= refresh_sys_wcnt_cnt + 1
          /\ LastRaise = P - (IF rows = 1 THEN 0 ELSE refresh_sys_wcnt_cnt)
      BY LastRaiseFits
    <3> HIDE DEF P
    <3>2. QED
      BY <1>1, <3>1
  <2>2. QED
    BY <2>1 DEF BInv, IInv, TypeOK, Observed, Line
<1>3. PICK b \in 0 .. MaxBusy : busy' = b
  BY RequestClock
<1>4. CASE refresh_sys
  <2>1. h + busy <= LastRaise + MaxBusy + 1
    BY <1>4, BlankRefreshEarly
  <2>2. busy' = busy - 1
    BY <1>4, MainClock DEF refresh_start
  <2>3. QED
    BY <1>1, <1>2, <2>1, <2>2
<1>5. CASE ~refresh_sys /\ refresh_sys_cnt # 0
  <2> DEFINE D == refresh_sys_wcnt_cnt + 1
  <2>1. ToRaise = refresh_sys_cnt
    BY <1>5 DEF ToRaise
  <2>2. h + refresh_sys_wcnt + (refresh_sys_cnt - 1) * D <= LastRaise
    BY <1>5, <2>1 DEF BInv, InTime
  <2>3. (refresh_sys_cnt - 1) * D \in Int /\ (refresh_sys_cnt - 1) * D >= 0
    <3>1. refresh_sys_cnt - 1 \in Int /\ refresh_sys_cnt - 1 >= 0 /\ D \in Nat
      BY <1>1, <1>2, <1>5
    <3> HIDE DEF D
    <3>2. QED
      BY <3>1, Units
  <2>4. h <= LastRaise
    BY <1>1, <1>2, <2>2, <2>3
  <2>5. QED
    BY <1>1, <1>2, <1>3, <2>4
<1>6. CASE ~refresh_sys /\ refresh_sys_cnt = 0
  <2>1. CASE h = 0
    BY <1>1, <1>2, <1>3, <2>1
  <2>2. CASE h # 0
    <3> DEFINE C == cycles_per_refresh
               S == (credit_max - 1) * C
    <3>1. Left \in Int /\ Left < -C
      BY LeftMoves
    <3>2. /\ Gain \in Nat /\ Gain <= C /\ S \in Int
          /\ refresh_per_hbl * C = Gain + cycles_per_row
          /\ S + Gain >= cycles_per_row + TRC_MIN + 1
      BY GainFits
    <3>3. Had = refresh_per_hbl /\ Shared = 0 /\ AtLineStart = -(C + Gain)
      BY <1>1, <1>6, <2>2 DEF Had, Shared, AtLineStart
    <3>4. \/ Left >= -(C + Gain) + (Gain + cycles_per_row) - h + 0
          \/ Left >= S - TRC_MIN - 1 - h
      <4>1. \/ Left >= AtLineStart + Had * C - h + Shared
            \/ Left >= S - TRC_MIN - 1 - h
        BY DEF BInv, Paid
      <4>2. Had * C = Gain + cycles_per_row
        BY <3>2, <3>3
      <4>3. QED
        BY <3>3, <4>1, <4>2
    <3>5. C \in Nat
      BY <1>1
    <3> HIDE DEF C, S
    <3>6. QED
      BY <1>1, <1>2, <3>1, <3>2, <3>4, <3>5
  <2>3. QED
    BY <2>1, <2>2
<1>7. QED
  BY <1>4, <1>5, <1>6

(* In the lines from the third on refreshes keep to the blank.             *)
LEMMA EarlyStep ==
  ASSUME BInv, Next, IInv'
  PROVE  Early'
<1> SUFFICES ASSUME rows' = 3
             PROVE  /\ state' = "ACTIVE" /\ refresh_due' =>
                         h' + busy' <= LastRaise' + MaxBusy + 1
                    /\ state' = "REFRESH" =>
                         h' + refresh_wait' <= LastRaise' + MaxBusy + TRC_MIN + 2
  BY DEF Early
<1>1. /\ cycles_per_row \in Nat /\ MaxBusy \in Nat /\ TRC_MIN \in Nat
      /\ refresh_sys_wcnt_cnt \in Nat
  BY Sizes
<1>2. /\ state # "STARTUP" /\ state' # "STARTUP"
      /\ h' = (IF h = cycles_per_row - 1 THEN 0 ELSE h + 1)
      /\ rows' = (IF h' = 0 /\ rows < 3 THEN rows + 1 ELSE rows)
  BY SteadyVideo
<1>3. h \in 0 .. cycles_per_row - 1 /\ rows \in 0 .. 3 /\ busy \in 0 .. MaxBusy
  BY DEF BInv, IInv, Observed, Line
<1>4. busy' \in 0 .. MaxBusy /\ refresh_wait' \in 0 .. TRC_MIN
  BY DEF IInv, TypeOK, Observed
<1>5. PICK X \in Nat : LastRaise' = X /\ (rows = 3 => LastRaise = X)
  <2> DEFINE P == refresh_per_hbl * (refresh_sys_wcnt_cnt + 1)
  <2>1. /\ P \in Nat /\ P >= refresh_sys_wcnt_cnt + 1
    BY LastRaiseFits
  <2>2. LastRaise' = 1 + (refresh_per_hbl - 1) * (refresh_sys_wcnt_cnt + 1)
    BY DEF LastRaise
  <2>3. (refresh_per_hbl - 1) * (refresh_sys_wcnt_cnt + 1) = P - (refresh_sys_wcnt_cnt + 1)
    <3>1. refresh_per_hbl \in Int /\ refresh_sys_wcnt_cnt + 1 \in Nat
      BY Sizes
    <3>2. QED
      BY <3>1, Units
  <2>4. rows = 3 => LastRaise = LastRaise'
    BY DEF LastRaise
  <2> HIDE DEF P
  <2>5. LastRaise' \in Nat
    BY <1>1, <2>1, <2>2, <2>3
  <2>6. QED
    BY <2>4, <2>5
<1>6. CASE h' = 0
  <2>1. PICK b \in 0 .. MaxBusy, u \in 0 .. TRC_MIN : busy' = b /\ refresh_wait' = u
    BY <1>4
  <2>2. 0 + b <= X + MaxBusy + 1 /\ 0 + u <= X + MaxBusy + TRC_MIN + 2
    BY <1>1, <1>5, <2>1
  <2>3. QED
    BY <1>5, <1>6, <2>1, <2>2
<1>7. CASE h' # 0
  <2>1. h' = h + 1 /\ rows = 3 /\ h # cycles_per_row - 1
    BY <1>2, <1>7
  <2>2. LastRaise = X
    BY <1>5, <2>1
  <2>3. state = "ACTIVE" /\ refresh_due => h + busy <= X + MaxBusy + 1
    BY <2>1, <2>2 DEF BInv, Early
  <2>4. ASSUME state' = "ACTIVE", refresh_due' PROVE h + 1 + busy' <= X + MaxBusy + 1
    <3>1. state = "ACTIVE" /\ (refresh_start => busy' = busy - 1)
      BY <1>2, <2>4, MainClock
    <3>2. CASE refresh_due
      BY <1>1, <1>3, <2>3, <3>1, <3>2 DEF refresh_start
    <3>3. CASE ~refresh_due
      BY <2>1, <2>2, <2>4, <3>1, <3>3, DueEarly
    <3>4. QED
      BY <3>2, <3>3
  <2>5. ASSUME state' = "REFRESH"
        PROVE  h + 1 + refresh_wait' <= X + MaxBusy + TRC_MIN + 2
    <3>1. CASE state = "REFRESH"
      <4>1. /\ refresh_wait' = refresh_wait - 1 /\ refresh_wait \in 1 .. TRC_MIN
        BY <1>2, <3>1, MainClock
      <4>2. h + refresh_wait <= X + MaxBusy + TRC_MIN + 2
        BY <2>1, <2>2, <3>1 DEF BInv, Early
      <4>3. QED
        BY <1>1, <1>3, <4>1, <4>2
    <3>2. CASE state # "REFRESH"
      <4>1. state = "ACTIVE" /\ busy = 0 /\ refresh_start /\ refresh_wait' = TRC_MIN
        BY <1>2, <2>5, <3>2, MainClock DEF baidle
      <4>2. h <= X + MaxBusy + 1
        BY <1>1, <1>3, <2>1, <2>2, <2>3, <4>1, BlankRefreshEarly DEF refresh_start
      <4>3. QED
        BY <1>1, <1>3, <4>1, <4>2
    <3>3. QED
      BY <3>1, <3>2
  <2>6. QED
    BY <1>5, <2>1, <2>4, <2>5
<1>8. QED
  BY <1>6, <1>7

(* Every step keeps all of it.                                            *)
LEMMA BlankInductive == BInv /\ [Next]_vars => BInv'
<1> SUFFICES ASSUME BInv, [Next]_vars PROVE BInv'
  OBVIOUS
<1>1. IInv'
  BY Inductive DEF BInv
<1>2. CASE Next
  <2>1. Line' /\ Requests' /\ InTime' /\ Settled' /\ Paid' /\ Early'
    BY <1>1, <1>2, LineStep, RequestsStep, InTimeStep, SettledStep, PaidStep, EarlyStep
  <2>2. QED
    BY <1>1, <2>1 DEF BInv
<1>3. CASE UNCHANGED vars
  <2>1. Line' /\ Requests' /\ Settled'
    BY <1>3 DEF BInv, Line, Requests, Settled, vars, timervars, sysvars
  <2>2. InTime' /\ Early'
    BY <1>3 DEF BInv, InTime, Early, LastRaise, ToRaise, vars, timervars, sysvars
  <2>3. Paid'
    BY <1>3 DEF BInv, Paid, Left, AtLineStart, Had, Shared, vars, timervars, sysvars
  <2>4. QED
    BY <1>1, <2>1, <2>2, <2>3 DEF BInv
<1>4. QED
  BY <1>2, <1>3

(* It holds in every reachable state.                                      *)
LEMMA BlankInvariance == Spec => []BInv
BY InitBlank, BlankInductive, PTL DEF Spec

(* In steady video every line gives all its refreshes before the next line *)
(* begins, and from the third line on no refresh runs outside the blank,   *)
(* but for the clocks one takes to finish: KING fetches undisturbed.       *)
THEOREM RefreshesStayInBlank == Spec => []RefreshInBlank
<1>1. BInv => RefreshInBlank
  <2> SUFFICES ASSUME BInv PROVE RefreshInBlank
    OBVIOUS
  <2>1. HblankBegins /\ rows >= 2 => refresh_sys_cnt = 0 /\ ~refresh_sys
    <3>1. rows \in 0 .. 3
      BY DEF BInv, IInv, Observed
    <3>2. rows >= 2 => (HblankBegins <=> h = 0)
      BY <3>1, BlankBeginsAt0
    <3>3. QED
      BY <3>2 DEF BInv, Settled
  <2>2. ASSUME rows = 3, state = "REFRESH"
        PROVE  h <= cycles_per_hbl + refresh_per_hbl + MaxBusy + TRC_MIN + 1
    <3>1. /\ refresh_wait \in 1 .. TRC_MIN /\ h \in 0 .. cycles_per_row - 1
      BY <2>2, CounterRange DEF BInv, Line
    <3>2. h + refresh_wait <= LastRaise + MaxBusy + TRC_MIN + 2
      BY <2>2 DEF BInv, Early
    <3>3. LastRaise <= cycles_per_hbl + refresh_per_hbl
      BY <2>2, BlankLasts
    <3>4. LastRaise \in Int
      BY LastRaiseFits, Sizes
    <3>5. /\ cycles_per_hbl \in Int /\ refresh_per_hbl \in Int /\ MaxBusy \in Int
          /\ TRC_MIN \in Int /\ cycles_per_row \in Int
      BY Sizes
    <3>6. QED
      BY <3>1, <3>2, <3>3, <3>4, <3>5
  <2>3. QED
    BY <2>1, <2>2 DEF RefreshInBlank
<1>2. QED
  BY <1>1, BlankInvariance, PTL
=============================================================================
