----------------------------- MODULE MCCartLink -----------------------------
(***************************************************************************)
(* CartLink for TLC: a secret of four bits in six samples, a counter that  *)
(* soon wraps, and cartridges with the right answer, one with a wrong one  *)
(* that also begins with a falling edge, and one with no such edge.        *)
(***************************************************************************)
EXTENDS CartLink

mc_XFER_WIDTH   == 6
mc_SECRET_WIDTH == 4
mc_SECRET       == <<0, 1, 0, 0>>
mc_DELAY        == 2
mc_PERIOD       == 4
mc_Answers      == {mc_SECRET, <<0, 1, 0, 1>>, <<1, 1, 0, 0>>}
mc_Lags         == 0..2
=============================================================================
