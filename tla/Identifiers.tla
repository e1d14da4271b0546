---------------------------- MODULE Identifiers ----------------------------
(* Identifiers shared by the ledger, the tool proxy and their callers. *)

CONSTANTS
    Keys,   \* (tenant_id, idempotency_key) pairs; every table is tenant-scoped
    None    \* the absent value (Option::None, SQL NULL)
=============================================================================
