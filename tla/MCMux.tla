-------------------------------- MODULE MCMux --------------------------------
(* Instances of Mux for TLC: connections are model values.                   *)
EXTENDS Mux
=============================================================================
