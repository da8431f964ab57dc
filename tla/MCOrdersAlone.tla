---------------------------- MODULE MCOrdersAlone ---------------------------
(* Instances of OrdersAlone for TLC.                                       *)
EXTENDS OrdersAlone, MCOrders

=============================================================================
