---------------------------- MODULE MCKingFabric ----------------------------
(* The instance of KingFabricRefines that TLC checks, for two kinds of     *)
(* DRAM at once: a timely one, that answers before the next pixel clock,   *)
(* and one that may be later than two of them.                             *)
EXTENDS KingFabricRefines

VARIABLE timely     \* the DRAM answers within a DCK period

MCInit == Init /\ timely \in BOOLEAN

MCNext ==
  /\ Next
  /\ UNCHANGED timely
  /\ timely => wait' < MinDck

MCSpec == /\ MCInit /\ [][MCNext]_<<vars, timely>>
          /\ WF_<<vars, timely>>(MCNext)

(* In front of a timely DRAM the fetch engine is acknowledged on every DCK *)
(* on which it still asks (assertion "late M_ACK" of huc6272_fetch.sv).    *)
VideoWhenTimely == timely => VideoOnTime
=============================================================================
