------------------------- MODULE MCNodeRegistration -------------------------
(* Configs of up to three entries of which each has a word of its own: by   *)
(* chip name, by device type, of another chip, with a memory band or none.  *)
EXTENDS NodeRegistration

CONSTANTS w1, w2, w3
ThreeWords == {w1, w2, w3}

Bands == {<<0, 0>>, <<0, 2>>, <<2, 0>>}
Named ==
  {[chip |-> Chip, type |-> Unset, min |-> b[1], max |-> b[2]] : b \in Bands}
Typical ==
  {[chip |-> Unset, type |-> DevType, min |-> b[1], max |-> b[2]] : b \in Bands}
Foreign ==
  {[chip |-> c, type |-> DevType, min |-> 0, max |-> 0] : c \in Chips \ {Chip}}

Numbered(s) ==
  [i \in DOMAIN s |-> [word |-> <<w1, w2, w3>>[i], chip |-> s[i].chip, type |-> s[i].type,
                       min |-> s[i].min, max |-> s[i].max]]
SmallConfigs ==
  {Numbered(s) : s \in UNION {[1..n -> Named \cup Typical \cup Foreign] : n \in 0..3}}
=============================================================================
