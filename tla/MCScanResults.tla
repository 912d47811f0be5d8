--------------------------- MODULE MCScanResults ---------------------------
(***************************************************************************)
(* Instances of ScanResults for TLC.                                       *)
(***************************************************************************)
EXTENDS ScanResults

CONSTANTS e1, e2, p1, p2

Row(p, ts, left, inv) == [id |-> p, tags |-> ts, left |-> left, inv |-> inv]

\* A ring with two tags that is sold or not, or has one tag and is no inventory
\* item, or none; and another that has none, or takes over tags of the first.
Shop == {Row(p1, {e1, e2}, TRUE, TRUE), Row(p1, {e1, e2}, FALSE, TRUE),
         Row(p1, {e1}, TRUE, FALSE), Row(p1, {}, TRUE, TRUE),
         Row(p2, {}, TRUE, TRUE), Row(p2, {e2}, TRUE, TRUE),
         Row(p2, {e1, e2}, TRUE, FALSE)}

\* Both tags end in the same seven digits, and these in the id of a product.
SameDigits == [e \in {e1, e2} |-> p1]

\* Connections, handlers and signal strengths are only compared.  Two products
\* with quantity left share no tag, so no choice of an order depends on them.
Symmetric == Permutations(Conns) \cup Permutations(Slots) \cup Permutations(RSSIs)
=============================================================================
