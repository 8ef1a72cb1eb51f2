------------------------- MODULE KingFabricRefines -------------------------
(* The arbiter of KingFabric implements KramServer: the bank is owned by   *)
(* the selected client from the edge after its request is passed to the    *)
(* DRAM until the edge after it is acknowledged.                           *)
EXTENDS KingFabric

Owner == IF prio_act_d THEN prio_sel_d ELSE CN

Server == INSTANCE KramServer WITH req <- cm_req, owner <- Owner

(* Every clock edge of the arbiter is a step of KramServer, or none of its *)
(* business: priority at the moment of the grant, no preemption, no        *)
(* request dropped, for the code of huc6272_fabric_bank.sv.                *)
ImplementsServer == Server!FairSpec
=============================================================================
