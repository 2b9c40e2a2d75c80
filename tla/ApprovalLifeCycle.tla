-------------------------- MODULE ApprovalLifeCycle --------------------------
(***************************************************************************)
(* What the approval store of kunkka-core promises, with no store, no time *)
(* and no sweep: an identifier is asked for once, may be granted only      *)
(* while it waits, is used at most once and only while granted, and once   *)
(* used or closed never changes again.                                     *)
(***************************************************************************)
CONSTANT Ids

VARIABLE life

States == {"unasked", "waiting", "granted", "used", "closed"}

TypeOK == life \in [Ids -> States]

Init == life = [id \in Ids |-> "unasked"]

Waiting == {id \in Ids : life[id] = "waiting"}

\* Any access may also close waiting identifiers that have lapsed.
Lapse(S) == life' = [id \in Ids |-> IF id \in S THEN "closed" ELSE life[id]]

AskFor(id) ==
    /\ life[id] = "unasked"
    /\ life' = [life EXCEPT ![id] = "waiting"]

Grant(id, S) ==
    /\ life[id] = "waiting"
    /\ life' = [i \in Ids |-> IF i = id THEN "granted"
                              ELSE IF i \in S THEN "closed" ELSE life[i]]

Refuse(id, S) ==
    /\ life[id] \in {"waiting", "granted"}
    /\ life' = [i \in Ids |-> IF i \in S \cup {id} THEN "closed" ELSE life[i]]

Use(id) ==
    /\ life[id] = "granted"
    /\ life' = [life EXCEPT ![id] = "used"]

Next ==
    \/ \E id \in Ids : AskFor(id) \/ Use(id)
    \/ \E S \in SUBSET Waiting :
          \/ Lapse(S)
          \/ \E id \in Ids : Grant(id, S) \/ Refuse(id, S)

Spec == Init /\ [][Next]_life
=============================================================================
