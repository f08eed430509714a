----------------------------- MODULE MCFirmware -----------------------------
(***************************************************************************)
(* Two lines of two and three bytes with a common beginning, as GATE OPEN  *)
(* and GATE CLOSE; a ring for one of them with its end and not for two; a  *)
(* line that holds a short and a long one and not two long ones.           *)
(***************************************************************************)
EXTENDS Firmware

GateOpen == [line |-> <<"g", "o">>, device |-> "gate", on |-> TRUE]
GateClose == [line |-> <<"g", "c", "s">>, device |-> "gate", on |-> FALSE]

GateCommands == {GateOpen, GateClose}
=============================================================================
