-------------------------- MODULE GeneratedObjects --------------------------
(***************************************************************************)
(* Which Kubernetes objects a CashuMint asks for, and in which order the   *)
(* reconciler writes them.  A spec is abstracted to the set of the         *)
(* features that decide this; v2 stands for a difference between two       *)
(* specs that only reaches the pods (an image, say), c2 for one that only  *)
(* reaches config.toml (the URL of the mint, say), and disk2 for one that  *)
(* only reaches the volume claims (their storage class, say).              *)
(***************************************************************************)
EXTENDS Naturals

Features == {"v2", "c2", "disk2", "autoMnemonic", "localDB", "pgAuto", "backup", "s3",
             "rpcTLS", "orchard", "orchardIngress", "orchardTLS",
             "ingress", "ingressTLS", "prometheus"}

\* Faulty: the Deployment is applied before the volumes it mounts.
PositionDeploymentFirst ==
    [mnemonic |-> 1, pgSecret |-> 2, pgService |-> 3, pgStatefulSet |-> 4,
     cronJob |-> 5, restoreJob |-> 6, rpcTLS |-> 7, configMap |-> 8, pvc |-> 10,
     orchardPVC |-> 11, deployment |-> 9, service |-> 12, orchardService |-> 13,
     podMonitor |-> 14, ingress |-> 15, orchardIngress |-> 16,
     certificate |-> 17, orchardCertificate |-> 18]

\* The kinds, numbered by the order of the calls in and below
\* reconcileResources.
Position ==
    [mnemonic |-> 1, pgSecret |-> 2, pgService |-> 3, pgStatefulSet |-> 4,
     cronJob |-> 5, restoreJob |-> 6, rpcTLS |-> 7, configMap |-> 8, pvc |-> 9,
     orchardPVC |-> 10, deployment |-> 11, service |-> 12, orchardService |-> 13,
     podMonitor |-> 14, ingress |-> 15, orchardIngress |-> 16,
     certificate |-> 17, orchardCertificate |-> 18]

Kinds == DOMAIN Position

\* Secrets are created if the cache lacks them and never written again.
CreateOnce == {"mnemonic", "pgSecret", "rpcTLS"}

\* The generator of kind k returns an object for mint o.
Wanted(k, o) ==
    LET s == o.spec
        backup == {"backup", "s3", "pgAuto"} \subseteq s /\ "localDB" \notin s
    IN CASE k = "mnemonic" -> "autoMnemonic" \in s
         [] k \in {"pgSecret", "pgService", "pgStatefulSet"} -> "pgAuto" \in s
         [] k = "cronJob" -> backup
         [] k = "restoreJob" -> backup /\ o.restore
         [] k = "rpcTLS" -> "rpcTLS" \in s
         [] k = "pvc" -> "localDB" \in s
         [] k \in {"orchardPVC", "orchardService"} -> "orchard" \in s
         [] k = "podMonitor" -> "prometheus" \in s
         [] k = "ingress" -> "ingress" \in s
         [] k = "orchardIngress" -> {"orchard", "orchardIngress"} \subseteq s
         [] k = "certificate" -> {"ingress", "ingressTLS"} \subseteq s
         [] k = "orchardCertificate" ->
                {"orchard", "orchardIngress", "orchardTLS"} \subseteq s
         [] OTHER -> TRUE

\* The steps of a reconcile of o: a PodMonitor that is not wanted is deleted,
\* and an enabled backup that generates nothing still sets its condition.
Steps(o) == {k \in Kinds : \/ Wanted(k, o)
                           \/ k = "podMonitor"
                           \/ k = "cronJob" /\ "backup" \in o.spec}

\* What of kind k the API server will not let an apply change: the claims, as
\* objects of their own or as templates of the StatefulSet.
Immutable(k, s) ==
    IF k \in {"pvc", "orchardPVC", "pgStatefulSet"} THEN s \cap {"disk2"} ELSE {}

\* What config.toml says of the features: the database is the embedded one or
\* the provisioned server, never both.
ConfigToml(s) ==
    s \cap ({"c2", "localDB", "rpcTLS", "prometheus"}
            \cup (IF "localDB" \in s THEN {} ELSE {"pgAuto"}))

\* What the pod says of them by itself; only orchard refers to PostgreSQL.
PodSpec(s) ==
    s \ ({"c2", "disk2", "backup", "s3", "ingress", "ingressTLS", "orchardIngress", "orchardTLS"}
         \cup (IF "localDB" \in s \/ "orchard" \notin s THEN {"pgAuto"} ELSE {}))
=============================================================================
