-------------------------- MODULE MCChartSandbox --------------------------
(* An instance of ChartSandbox for TLC. *)
EXTENDS ChartSandbox

CONSTANTS c1, c2, c3

ThreeCharts == {c1, c2, c3}
=============================================================================
