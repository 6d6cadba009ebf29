------------------------------ MODULE IdealPsi ------------------------------
(***************************************************************************)
(* What file based PSI promises: each party gives a set, once; the         *)
(* receiver gets the elements common to both and the sender ends, or       *)
(* neither of the two happens.                                             *)
(***************************************************************************)
CONSTANTS Open, Failed          \* not there yet; gave up
VARIABLES x, y,                 \* the sets of the sender and of the receiver
          sender, receiver      \* what each has ended with

ideal == <<x, y, sender, receiver>>
Init == x = Open /\ y = Open /\ sender = Open /\ receiver = Open

Give ==
  /\ \/ x = Open /\ sender = Open /\ x' # Open /\ UNCHANGED y
     \/ y = Open /\ receiver = Open /\ y' # Open /\ UNCHANGED x
  /\ UNCHANGED <<sender, receiver>>
Both == x # Open /\ y # Open
Finish ==
  /\ Both /\ sender = Open /\ receiver # Failed
  /\ sender' = {}
  /\ UNCHANGED <<x, y, receiver>>
Deliver ==
  /\ Both /\ receiver = Open /\ sender # Failed
  /\ receiver' = x \cap y
  /\ UNCHANGED <<x, y, sender>>
\* Either may give up, but not once the other is done.
GiveUp ==
  /\ {sender, receiver} \subseteq {Open, Failed}
  /\ \/ sender = Open /\ sender' = Failed /\ UNCHANGED receiver
     \/ receiver = Open /\ receiver' = Failed /\ UNCHANGED sender
  /\ UNCHANGED <<x, y>>

Next == Give \/ Finish \/ Deliver \/ GiveUp
Spec == Init /\ [][Next]_ideal
=============================================================================
