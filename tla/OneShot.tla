------------------------------- MODULE OneShot ------------------------------
(***************************************************************************)
(* What a review promises of every plan, and nothing of how: a plan is     *)
(* made, held, taken against a confirmation, and then signed or dropped.   *)
(* Only one plan is held at a time, a confirmation lets at most one plan   *)
(* through, and no plan comes back once it was taken or dropped.           *)
(***************************************************************************)
EXTENDS Naturals

CONSTANT Plans

VARIABLES
    stand,   \* plan -> where it stands
    permits  \* confirmations under way that have let nothing through yet

vars == <<stand, permits>>

Init ==
    /\ stand = [p \in Plans |-> "unmade"]
    /\ permits = 0

\* Holding a plan drops the one held before; making one may come to nothing.
Hold(p) ==
    /\ stand[p] = "unmade"
    /\ stand' = [q \in Plans |-> IF q = p THEN "held"
                                 ELSE IF stand[q] = "held" THEN "dropped" ELSE stand[q]]
    /\ UNCHANGED permits

\* Any set of plans, the ones being made included, may be given up at once,
\* and with them confirmations that let nothing through.
GiveUp ==
    /\ \E P \in SUBSET {p \in Plans : stand[p] \in {"unmade", "held", "taken"}} :
          stand' = [p \in Plans |-> IF p \in P THEN "dropped" ELSE stand[p]]
    /\ permits' \in {permits, permits - 1} \cap Nat

Permit ==
    /\ permits' = permits + 1
    /\ UNCHANGED stand

Take(p) ==
    /\ stand[p] = "held"
    /\ permits > 0
    /\ stand' = [stand EXCEPT ![p] = "taken"]
    /\ permits' = permits - 1

Sign(p) ==
    /\ stand[p] = "taken"
    /\ stand' = [stand EXCEPT ![p] = "signed"]
    /\ UNCHANGED permits

Next ==
    \/ GiveUp \/ Permit
    \/ \E p \in Plans : Hold(p) \/ Take(p) \/ Sign(p)

Spec == Init /\ [][Next]_vars
=============================================================================
