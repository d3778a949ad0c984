------------------------- MODULE MCStandbySubscriber -------------------------
(* A subscriber of one of two modules for TLC.                             *)
EXTENDS StandbySubscriber

OneModule == [c \in Client |-> "module"]
=============================================================================
