-------------------------------- MODULE Join --------------------------------
(***************************************************************************)
(* What circuit PSI promises (RsCpsiSender::Sharing and                    *)
(* RsCpsiReceiver::Sharing in RsCpsi.h): the receiver's rows are spread    *)
(* over bins, and the two sides share, bin by bin, whether its row is also *)
(* a row of the sender, and for such rows the sender's value.  RsCpsi      *)
(* implements it; the protocols of Cpso run on it.                         *)
(***************************************************************************)
EXTENDS Integers, Sequences

CONSTANTS Bins,
          Combine(_, _, _),  \* value share type, two shares: the value they stand for
          Nothing

VARIABLES X, Y, vals, type,  \* the receiver's rows, the sender's rows and values
          sharing            \* both outputs, once both sides have returned

Injective(f) == \A i, k \in DOMAIN f : f[i] = f[k] => i = k
RowOf(seq, e) == CHOOSE k \in DOMAIN seq : seq[k] = e
Has(seq, e) == \E k \in DOMAIN seq : seq[k] = e

\* The bins of rows that are on both sides.
Common(res) == {res.mapping[i] : i \in {k \in DOMAIN X : Has(Y, X[k])}}

IsJoin(res) ==
  /\ res.mapping \in [DOMAIN X -> Bins] /\ Injective(res.mapping)
  /\ \A b \in Bins : (res.flagS[b] + res.flagR[b]) % 2 = (IF b \in Common(res) THEN 1 ELSE 0)
  /\ vals # Nothing =>
       \A i \in DOMAIN X : Has(Y, X[i]) =>
         Combine(type, res.valS[res.mapping[i]], res.valR[res.mapping[i]]) = vals[RowOf(Y, X[i])]

Init == sharing = Nothing
Next == /\ sharing = Nothing /\ sharing' # Nothing
        /\ IsJoin(sharing')
        /\ UNCHANGED <<X, Y, vals, type>>
Spec == Init /\ [][Next]_<<X, Y, vals, type, sharing>>
=============================================================================
