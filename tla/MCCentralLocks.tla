--------------------------- MODULE MCCentralLocks ---------------------------
(* Three connections at a time.                                            *)
EXTENDS CentralLocks

CONSTANTS t1, t2, t3

(* Any two handlers. *)
MCPairs == {[t \in Tasks |-> IF t = t3 THEN {} ELSE Kinds]}

(* Three that nest the database mutex and the lock of online_volumes, in   *)
(* both orders, and nobody who writes online_volumes.                      *)
MCReports == {[t \in Tasks |-> {"report_bundle_replica", "get_file_read_plan_by_id",
                                "commit_update", "abort_update"}]}

(* Three that write online_volumes or read it inside a transaction.        *)
MCRegistrations == {[t \in Tasks |-> {"get_file_read_plan_by_id", "abort_update",
                                      "register_storage", "unregister_storage"}]}

MCSound == MCPairs \cup MCReports \cup MCRegistrations

(* A report, a read plan and a writer. *)
MCUnsound == {[t \in Tasks |-> {"get_file_read_plan_by_id", "report_bundle_replica",
                                "unregister_storage"}]}
=============================================================================
