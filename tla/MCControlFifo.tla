--------------------------- MODULE MCControlFifo ---------------------------
(* A small ControlFifo for TLC: ids of two bytes of two bits. *)
EXTENDS ControlFifo

(* an operation of svlopp's and one it does not know; every operation byte *)
(* is also a byte of some id, so that a misplaced id byte can pass for one *)
SmallOpcodes == [Stop |-> 1, Start |-> 2, Restart |-> 3, Unknown |-> 0]
SmallCommands ==
  {[op |-> "Restart", service_id |-> 9], [op |-> "Unknown", service_id |-> 14]}
=============================================================================
