------------------------------- MODULE MCDashboard -------------------------------
(***************************************************************************)
(* Small car parks: three cards, two spots, one bay as in         *)
(* config/config.example.yaml.                                             *)
(***************************************************************************)
EXTENDS Dashboard

CONSTANTS c1, c2, c3, p1, p2, b1

ThreeCars == <<c1, c2, c3>>
TwoSpots == <<p1, p2>>
OneBuffer == <<b1>>

\* No sensor, as on the Pi, or one that sees cars on their way out.
NoneOrExit == { {}, {"exit"} }
=============================================================================
