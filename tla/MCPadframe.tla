----------------------------- MODULE MCPadframe -----------------------------
(* Arguments and registers, as sets of bits: 0 and 18; REGISTER (0) and    *)
(* UART0_TX (12); registers with all bits set, so that a call that clears  *)
(* a bit that is not its own is seen.                                      *)
EXTENDS Padframe

MCValues == {{}, {1, 4}}
MCMuxes == {{}, {2, 3}}
MCInitWords == {0..31}
=============================================================================
