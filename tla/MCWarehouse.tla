---------------------------- MODULE MCWarehouse ----------------------------
(* The mirror and the GA4 pull share nothing: a behaviour moves one of the  *)
(* two.                                                                     *)
EXTENDS Warehouse

VARIABLE moving

MCTables == <<"runs", "results">>
MCClients == <<"client1", "client2">>

MCInit == WarehouseInit /\ moving \in {"mirror", "pull"}

MCNext ==
    \/ moving = "mirror" /\ MirrorNext /\ UNCHANGED moving
    \/ moving = "pull" /\ PullNext /\ UNCHANGED moving

MCSpec == MCInit /\ [][MCNext]_<<warehouseVars, moving>> /\ WarehouseFairness
=============================================================================
