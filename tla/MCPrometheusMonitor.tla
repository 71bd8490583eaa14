------------------------- MODULE MCPrometheusMonitor -------------------------
(***************************************************************************)
(* Members for TLC: two pods, and after them an imported etcd with two     *)
(* hosts, one of which has two members: side by side, or with the other    *)
(* host between them, when the Service would have two ports of one name.   *)
(***************************************************************************)
EXTENDS PrometheusMonitor

At(h, p) == [host |-> h, port |-> p]

MCLists ==
  [kstone   |-> {<<At("a", 1), At("b", 1)>>},
   imported |-> {<<At("b", 1), At("a", 1), At("a", 2)>>,
                 <<At("a", 1), At("b", 1), At("a", 2)>>}]

MCTypes == <<"kstone", "imported">>
=============================================================================
