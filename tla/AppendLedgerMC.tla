---------------------------- MODULE AppendLedgerMC ----------------------------
(***************************************************************************)
(* Two overlapping callers, one subject with two event types of one phase  *)
(* (as 'route.mode.failed' and 'route.failed') and one of another.         *)
(***************************************************************************)
EXTENDS AppendLedger, SequencesExt

CONSTANTS s1, p1, p2

MCSubjects == {s1}
MCTypes == {"route.mode.failed", "route.failed", "direct-link.opened"}
MCPhaseOf(t) == IF t = "direct-link.opened" THEN "opened" ELSE "failed"
MCPayloads == {p1, p2}

(* An injective digest whose order is unrelated to seq, type and payload. *)
MCTypeCode(t) == CHOOSE i \in 1..3 : <<"route.mode.failed", "route.failed", "direct-link.opened">>[i] = t
MCDigest(e) ==
    LET code == MCTypeCode(e.type) + 4 * (e.term + 2 * (e.seq + 8 *
                  (e.signedAt + 4 * (IF e.payload = p1 THEN 0 ELSE 1))))
    IN (code * 611) % 1009
===============================================================================
