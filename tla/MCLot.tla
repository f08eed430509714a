------------------------------- MODULE MCLot -------------------------------
(***************************************************************************)
(* Small car parks: three cards, two or three spots, one bay as in         *)
(* config/config.example.yaml.                                             *)
(***************************************************************************)
EXTENDS Lot

CONSTANTS c1, c2, c3, p1, p2, p3, b1

ThreeCars == <<c1, c2, c3>>
TwoSpots == <<p1, p2>>
ThreeSpots == <<p1, p2, p3>>
OneBuffer == <<b1>>

\* No sensor, as on the Pi, or one that sees cars on their way out.
NoneOrExit == { {}, {"exit"} }
\* One that sees whoever is at the gate, as in the simulation.
WholeGate == { {"gate", "exit"} }
=============================================================================
