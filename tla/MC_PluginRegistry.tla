-------------------------- MODULE MC_PluginRegistry --------------------------
(* Plugin libraries for PluginRegistry. p1 plays Kerneloops and p2         *)
(* KerneloopsReporter (one shared, enabled .conf); p3 is installed but not *)
(* enabled; p4 is named but not installed; p5 declares type 4; p6's Init   *)
(* throws; p7 lacks plugin_new; p8's SetSettings throws after Init (p8 is  *)
(* left out of Names: see the README on PluginManager.cpp:220).            *)
EXTENDS PluginRegistry, TLC

CONSTANTS p1, p2, p3, p4, p5, p6, p7, p8

Good(t) == [present |-> TRUE, symbols |-> TRUE, magic |-> TRUE, type |-> t,
            initThrows |-> FALSE, setThrows |-> FALSE]

MCLib ==
  (p1 :> Good(1)) @@ (p2 :> Good(2)) @@ (p3 :> Good(0))
  @@ (p4 :> [Good(1) EXCEPT !.present = FALSE])
  @@ (p5 :> Good(4))
  @@ (p6 :> [Good(1) EXCEPT !.initThrows = TRUE])
  @@ (p7 :> [Good(2) EXCEPT !.symbols = FALSE])
  @@ (p8 :> [Good(3) EXCEPT !.setThrows = TRUE])

MCNames == {p1, p2, p3, p4, p5, p6}

\* The .conf files saying Enabled = yes, among the names in use.
MCEnabled == {p1, p6, p7, p8} \cap Names
=============================================================================
