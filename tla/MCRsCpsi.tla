------------------------------ MODULE MCRsCpsi ------------------------------
(***************************************************************************)
(* RsCpsi with four rows, five bins and two seeds: bins of rows that       *)
(* overlap in one or two places, empty bins, two-bit values, and keys of   *)
(* three bits: a zero test whose tree is not a full one.                   *)
(***************************************************************************)
EXTENDS RsCpsi

Rows == 1..4
\* The bins of row k: k, k + 1, k + 3 under seed 1; k, k + 2, k + 4 under seed 2.
MCBinOf(s, k, j) ==
  IF s = 1 THEN (k + (IF j = 2 THEN 3 ELSE j)) % 5 ELSE (k + (2 * j)) % 5
MCRecvSets == {<<1, 2>>, <<2, 3, 1>>, <<4>>}
MCSendSets == {<<2, 1>>, <<3, 4>>, <<1, 2, 4>>}
MCValuesOf(n) == {Unset, [i \in 1..n |-> (i + 1) % 4], [i \in 1..n |-> 3]}
MCXor(x, y) == (((x % 2) + (y % 2)) % 2) + 2 * (((x \div 2) + (y \div 2)) % 2)
MCMasks == {[b \in Bins |-> b % 4], [b \in Bins |-> 3 - (b % 4)]}
MCFlagShares == {[b \in Bins |-> b % 2], [b \in Bins |-> 0]}
MCNoise(tag) == (tag[1] + tag[2]) % 4
=============================================================================
