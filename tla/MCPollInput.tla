---------------------------- MODULE MCPollInput ----------------------------
(* Instances of PollInput for TLC. *)
EXTENDS PollInput, TLC

CONSTANTS i1, i2, i3

AllKinds == {"alerts", "machines", "incidents", "simulations"}
EachOrder == {"alerts", "simulations"}
NoItem == {}
OneItem == {i1}
AnyStamp == 1..MaxTime

Symmetry == Permutations({i2, i3})
=============================================================================
