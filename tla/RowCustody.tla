----------------------------- MODULE RowCustody -----------------------------
(***************************************************************************)
(* What the logging and upload firmware promises about a CSV row: once it  *)
(* is flushed to the card it is in custody, on the card, in the cloud or in*)
(* both, and it leaves the card only after it reached the cloud.           *)
(***************************************************************************)
CONSTANT Row

VARIABLES card, cloud

Init == card = {} /\ cloud = {}

\* A row is flushed.
Flush == \E r \in Row : card' = card \cup {r} /\ UNCHANGED cloud

\* An object is stored: rows of the card are now in the cloud too.
Store == \E R \in SUBSET card : cloud' = cloud \cup R /\ UNCHANGED card

\* The card makes room.
Discard == \E R \in SUBSET (card \cap cloud) : card' = card \ R /\ UNCHANGED cloud

Next == Flush \/ Store \/ Discard

Spec == Init /\ [][Next]_<<card, cloud>>
=============================================================================
