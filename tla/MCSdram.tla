------------------------------- MODULE MCSdram -------------------------------
(* The loads under which TLC checks the SDRAM controller.  The pixel clock *)
(* of the source is 8 cycles of clk_sys, 16 of clk_ram.                    *)
EXTENDS Sdram

Load(fewest, refreshes, period, asking) ==
  [gap |-> fewest, refreshing |-> refreshes, spacing |-> period, clients |-> asking]

(* KRAM asks on the pixel clock, and nothing is refreshed.                 *)
RealPace == {Load(0, FALSE, 16, {0, 1, 2})}

(* Refreshes and requests in any cycle; all channels at the real pace; the *)
(* CPU and one KRAM channel at the real pace, with refreshes.              *)
BusyOrPaced ==
  {Load(0, TRUE, 0, {0, 1, 2}), Load(16, TRUE, 16, {0, 2})} \cup RealPace
=============================================================================
