----------------------------- MODULE MCOutputs -----------------------------
(* A frame of five short lines, three of them visible and two of those with *)
(* a character row, and samples of twelve and a half T-states.              *)
EXTENDS OutputsProps, TLC

Cell(kind, y, k) == <<kind, y, k>>
MCPokes == {<<5, Cell("pixels", 0, 1), 1>>, <<5, Cell("attr", 0, 0), 1>>,
            <<5, Cell("pixels", 1, 0), 1>>, <<7, Cell("pixels", 1, 1), 1>>}
MCTimes == {0, 2, 13, 15, 16, 18, 20}
=============================================================================
