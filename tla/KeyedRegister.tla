---------------------------- MODULE KeyedRegister ----------------------------
(***************************************************************************)
(* What an append ledger promises, without its index, its rejected events  *)
(* or its asynchronous hash: one register per key, each holding the best   *)
(* of the proposals submitted for that key so far.                         *)
(***************************************************************************)
CONSTANTS
    Keys,           \* the registers
    Proposals,      \* what may be submitted
    KeyOf(_),       \* the register a proposal is for
    Wins(_, _),     \* Wins(p, q): p replaces q when it arrives while q is held
    None            \* an empty register

VARIABLE held       \* [Keys -> Proposals \cup {None}]

TypeOK == held \in [Keys -> Proposals \cup {None}]

Init == held = [k \in Keys |-> None]

(* A submitted proposal takes an empty register, or the one whose holder it *)
(* beats; otherwise the register keeps what it has.                         *)
Submit(p) ==
    LET k == KeyOf(p)
    IN held' = IF held[k] = None \/ Wins(p, held[k])
                 THEN [held EXCEPT ![k] = p]
                 ELSE held

Next == \E p \in Proposals : Submit(p)

Spec == Init /\ [][Next]_held
==============================================================================
