----------------------------- MODULE KramServer -----------------------------
(***************************************************************************)
(* What one KRAM bank promises its clients, with no clock in it: one       *)
(* client at a time owns the bank; a free bank goes to the asking client   *)
(* of highest priority (the lowest number) and is never taken from its     *)
(* owner; a client other than client 0 keeps asking until it has been      *)
(* served.  KingFabric implements this.                                    *)
(***************************************************************************)
EXTENDS Integers

CONSTANT CN      \* number of clients

VARIABLES
  req,           \* req[c]: client c asks for the bank
  owner          \* the client being served, or Free

vars == <<req, owner>>

Client == 0 .. CN - 1
Free == CN

(* Requests may come at any time, but only client 0 may take one back; the *)
(* client `served' may drop or renew its own.                              *)
Asking(served) ==
  /\ req' \in [Client -> BOOLEAN]
  /\ \A c \in Client \ {0, served} : req[c] => req'[c]

Ask == owner' = owner /\ Asking(Free)

Grant(c) ==
  /\ owner = Free
  /\ req[c]
  /\ \A d \in 0 .. c - 1 : ~req[d]
  /\ owner' = c
  /\ Asking(Free)

Release ==
  /\ owner # Free
  /\ owner' = Free
  /\ Asking(owner)

(* The machine is reset. *)
Clear ==
  /\ owner' = Free
  /\ req' = [c \in Client |-> FALSE]

Init ==
  /\ owner = Free
  /\ req = [c \in Client |-> FALSE]

Next == Ask \/ (\E c \in Client : Grant(c)) \/ Release \/ Clear

Spec == Init /\ [][Next]_vars

(* Service always ends.                                                    *)
FairSpec == Spec /\ WF_owner(Release \/ Clear)
=============================================================================
