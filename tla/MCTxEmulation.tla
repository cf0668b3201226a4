--------------------------- MODULE MCTxEmulation ----------------------------
(* TxEmulation with messages, actions and prices for TLC.                      *)
EXTENDS TxEmulation

Config(version, special, blackhole) ==
  [version |-> version, special |-> special, blackhole |-> blackhole]
ConfigSet ==
  {Config(3, FALSE, FALSE), Config(9, FALSE, FALSE), Config(13, FALSE, TRUE), Config(15, FALSE, FALSE),
   Config(15, TRUE, FALSE)}

Internal(back, from, g, x, init) ==
  [kind |-> "int", bounce |-> back, src |-> from, g |-> g, x |-> x, ihr |-> 1, init |-> init]
MessageSet ==
  {Internal(TRUE, "ok", 12, 0, "none"), Internal(TRUE, "ok", 4, 1, "good"),
   Internal(TRUE, "none", 4, 0, "bad"), Internal(TRUE, "bad", 4, 0, "none"),
   Internal(FALSE, "ok", 12, 1, "good"), Internal(FALSE, "ok", 3, 0, "none"),
   [kind |-> "ext", init |-> "none", cells |-> 0], [kind |-> "ext", init |-> "bad", cells |-> 1],
   [kind |-> "tick", init |-> "none"]}

Plain == [ext |-> FALSE, mode |-> {}, g |-> 5, x |-> 0, cells |-> 1, fwd |-> 0, ihr |-> 0,
          noihr |-> TRUE, flaw |-> "none"]
SendSet ==
  {[Plain EXCEPT !.mode = {"payfees"}, !.x = 1],
   [Plain EXCEPT !.mode = {"carry"}, !.g = 0, !.fwd = 4, !.ihr = 3, !.noihr = FALSE],
   [Plain EXCEPT !.mode = {"all", "delete"}, !.g = 0],
   [Plain EXCEPT !.mode = {"ignore"}, !.cells = 3],
   [Plain EXCEPT !.mode = {"ignore"}, !.flaw = "source"],
   [Plain EXCEPT !.mode = {"bounce"}, !.g = 9],
   [Plain EXCEPT !.ext = TRUE, !.mode = {"ignore"}]}
ReserveSet ==
  {[mode |-> {"orig"}, g |-> 0, x |-> 0], [mode |-> {"cap"}, g |-> 3, x |-> 1],
   [mode |-> {"allbut", "bounce"}, g |-> 2, x |-> 0],
   [mode |-> {"orig", "minus", "cap"}, g |-> 1, x |-> 0]}
=============================================================================
