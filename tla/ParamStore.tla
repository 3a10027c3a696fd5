----------------------------- MODULE ParamStore -----------------------------
(***************************************************************************)
(* What the parameter generator promises for its interactive query        *)
(* variants (spec sections 4.1 and 4.2), without buckets, tables or SQL:   *)
(* rows are gathered per variant in batches that are valid until one date; *)
(* a variant is exported at most once, as one copy of every gathered row   *)
(* whose useUntil is the latest gathered for its key; nothing is gathered  *)
(* for a variant once it has been exported, and an export never changes.  *)
(***************************************************************************)
EXTENDS Naturals, Bags

CONSTANTS
    Variants,   \* the interactive query variants
    Keys,       \* logical keys of parameter rows
    Dates       \* day numbers a row may be valid from or until

VARIABLES
    gathered,   \* variant -> the rows gathered so far
    exported    \* the exported variants: variant -> bag of rows

Rows == [key: Keys, useFrom: Dates, useUntil: Dates]

(* One extraction: rows that are all valid until the same date. *)
Batches == UNION {SUBSET [key: Keys, useFrom: Dates, useUntil: {d}] : d \in Dates}

(* The rows of S whose useUntil is the latest among the rows of their key. *)
Latest(S) == {r \in S : \A s \in S : s.key = r.key => s.useUntil <= r.useUntil}

Init ==
    /\ gathered = [q \in Variants |-> {}]
    /\ exported = [q \in {} |-> EmptyBag]

Gather(q, R) ==
    /\ q \notin DOMAIN exported
    /\ gathered' = [gathered EXCEPT ![q] = @ \cup R]
    /\ UNCHANGED exported

Export(q) ==
    /\ q \notin DOMAIN exported
    /\ exported' = [v \in DOMAIN exported \cup {q} |->
                      IF v = q THEN SetToBag(Latest(gathered[q])) ELSE exported[v]]
    /\ UNCHANGED gathered

Next == \E q \in Variants : Export(q) \/ \E R \in Batches : Gather(q, R)

Spec == Init /\ [][Next]_<<gathered, exported>>

TypeOK ==
    /\ gathered \in [Variants -> SUBSET Rows]
    /\ DOMAIN exported \subseteq Variants
    /\ \A q \in DOMAIN exported : BagToSet(exported[q]) \subseteq Rows
=============================================================================
