---------------------------- MODULE MCListClients ----------------------------
(* Two lists over four items. *)
EXTENDS ListClients

MCHeads == {"ready_list", "timer_list"}
MCItems == 1 .. 4
=============================================================================
