----------------------------- MODULE MCEventBus -----------------------------
(* The live subscription matches every subject, the durable one a single   *)
(* subject, so that both snapshots and filtered backlogs occur.            *)
EXTENDS EventBus

MCSubjects == {"state", "other"}
MCOneSubject == {"state"}
MCUses == [x \in Subjects |-> IF x = "state" THEN {"sticky", "async"} ELSE {"sticky"}]
MCWants == [s \in Subs |-> IF s \in Durable THEN {"state"} ELSE Subjects]
=============================================================================
