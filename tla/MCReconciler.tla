---------------------------- MODULE MCReconciler ----------------------------
(* Spec sets that make the interesting cases of CashuMintReconciler small. *)
EXTENDS MintImplements

\* An embedded database, with a change that rolls the pods.
LocalSpecs == {{"localDB"}, {"localDB", "v2"}}

\* A provisioned PostgreSQL with its backups, and an orchard companion, each
\* with the optional objects around it.
WideSpecs == {{"pgAuto", "backup", "s3", "autoMnemonic"},
              {"localDB", "backup", "orchard", "rpcTLS", "orchardIngress",
               "orchardTLS", "ingress", "ingressTLS"}}

\* A change that reaches the pods by the hash of their configuration alone,
\* and one that the API server refuses.
ConfigSpecs == {{"localDB", "c2"}, {"localDB", "disk2"}}

\* A provisioned PostgreSQL.
PgSpecs == {{"pgAuto"}}
=============================================================================
