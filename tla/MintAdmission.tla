--------------------------- MODULE MintAdmission ---------------------------
(***************************************************************************)
(* The life of one stored spec: users create it and edit one block or      *)
(* field of it at a time, the operator writes it back when it changes its  *)
(* finalizer, and each write passes the schema and, where it is installed, *)
(* the webhook.  Defaults are stored with the object, so a later edit is   *)
(* judged together with values nobody ever chose.  Whether Complete()      *)
(* serves Default and the validation under the paths the webhook is        *)
(* installed with is up to the library, and both cases are checked.        *)
(***************************************************************************)
EXTENDS Generators, Sequences

CONSTANTS Manifests,   \* the specs users create
          Patches,     \* path of one or two field names -> the values users write
          MaxWrites    \* bound on user writes

ASSUME ManifestsAssumption == Manifests \subseteq MintSpecs
ASSUME PatchesAssumption == \A p \in DOMAIN Patches : Len(p) \in {1, 2}
ASSUME MaxWritesAssumption == MaxWrites \in Nat

VARIABLES stored,    \* the spec in the API server: a set of at most one
          hook,      \* the webhook is installed: the API server calls it
          served,    \* the manager answers that call; fixed by its build
          screened,  \* the stored spec passed the webhook when it was written
          explicit,  \* the defaulted fields whose stored value a user chose
          writes     \* user writes so far

vars == <<stored, hook, served, screened, explicit, writes>>

Init == /\ stored = {}
        /\ hook \in BOOLEAN /\ served \in BOOLEAN
        /\ screened = FALSE
        /\ explicit = {}
        /\ writes = 0

\* A merge patch at path p; a patch below a nil block has nothing to apply to.
Patchable(s, p) == Len(p) = 2 => s[p[1]].set
Patched(s, p, v) == IF Len(p) = 1 THEN [s EXCEPT ![p[1]] = v]
                                  ELSE [s EXCEPT ![p[1]][p[2]] = v]

\* What the API server stores for a request: the schema's defaults are applied
\* to the request and again to the webhook's answer.
Admitted(s) == SchemaDefault(IF hook THEN Default(SchemaDefault(s)) ELSE s)

\* The validating webhook, where it is installed, judges what will be stored; a
\* call that nobody answers refuses the write (failurePolicy=fail).
Accepted(s) == hook => served /\ ValidateCashuMint(s)

\* Defaulted fields in which a user's own value can differ from the default: the
\* value that is given, if one is.
Chosen(s) ==
    [tlsMode |-> When(s.postgres.set, {s.postgres.tlsMode} \ {""}),
     rpcPort |-> When(s.orchard.set /\ s.orchard.rpc.set, {s.orchard.rpc.port} \ {0})]

\* The user sends s in place of old (a set of at most one).  The API server
\* refuses what does not fit the CRD's schema; a field that is given and was not
\* already there by default is the user's choice.
Submits(s, old) ==
    /\ writes < MaxWrites /\ s \in MintSpecs
    /\ Accepted(Admitted(s))
    /\ stored' = {Admitted(s)}
    /\ screened' = hook
    /\ explicit' = {f \in DOMAIN Chosen(s) :
                        /\ Chosen(s)[f] # {}
                        /\ f \in explicit \/ \A o \in old : Chosen(s)[f] # Chosen(o)[f]}
    /\ writes' = writes + 1
    /\ UNCHANGED <<hook, served>>

UserCreates == stored = {} /\ \E s \in Manifests : Submits(s, {})

UserPatches ==
    \E s \in stored, p \in DOMAIN Patches :
        Patchable(s, p) /\ \E v \in Patches[p] : Submits(Patched(s, p, v), {s})

UserDeletes ==
    /\ stored # {} /\ writes < MaxWrites
    /\ stored' = {} /\ screened' = FALSE /\ explicit' = {}
    /\ writes' = writes + 1
    /\ UNCHANGED <<hook, served>>

\* Adding or removing the finalizer is an Update of the whole object, and is
\* admitted like any other.
OperatorUpdates ==
    \E s \in stored :
        /\ Accepted(Admitted(s))
        /\ stored' = {Admitted(s)}
        /\ screened' = hook
        /\ UNCHANGED <<hook, served, explicit, writes>>

\* The webhook is not part of the default installation; it comes and goes.
InstallWebhook == hook' = ~hook /\ UNCHANGED <<stored, served, screened, explicit, writes>>

Next == UserCreates \/ UserPatches \/ UserDeletes \/ OperatorUpdates \/ InstallWebhook

Spec == Init /\ [][Next]_vars

---------------------------------------------------------------------------
(* Properties *)

TypeOK == /\ stored \subseteq MintSpecs /\ Cardinality(stored) <= 1
          /\ hook \in BOOLEAN /\ served \in BOOLEAN /\ screened \in BOOLEAN
          /\ explicit \subseteq {"tlsMode", "rpcPort"}
          /\ writes \in 0..MaxWrites

\* Every volume a container of the generated pod mounts is a volume of that
\* pod: the API server rejects a Deployment in which one is missing, and the
\* mint would never start.  It rests on validateOrchardMint, which ties
\* Orchard's mTLS to a management RPC that an earlier edit may have disabled.
MountsHaveVolumes ==
    \A s \in stored : screened => VolumeMounts(s) \subseteq Volumes(s)

\* Every environment variable that is filled from a Secret names one: the API
\* server rejects the Deployment otherwise, on every reconcile.  The generator
\* passes on what it finds and relies on validateOrchard and
\* validateOrchardBitcoin to have refused the rest.
EnvSourcesGiven ==
    \A s \in stored : screened /\ On(s.orchard) => UnnamedEnvSources(s) = {}

\* mintd is told of exactly the Secrets that are mounted for it: a file it is
\* told to read and does not find stops it, and one it is not told of means
\* that it serves without the TLS that its clients expect.  configmap.go and
\* deployment.go decide it from different conditions.
FilesMounted ==
    \A s \in stored :
        BackendPaths(s) \cup ManagementRPCPaths(s)
            = MintVolumeMounts(s) \ {<<"config">>, <<"data">>}

\* With the webhook in place, the operator can add and remove its finalizer on
\* every mint that passed the webhook before, and that write leaves the spec as
\* it is: no edit is stored that a later Update would be refused for, or that
\* defaulting would change again, and so start a new generation.
FinalizerUpdatesPass ==
    \A s \in stored : hook /\ screened => Accepted(Admitted(s)) /\ Admitted(s) = s

\* Every object that a generated pod reads and the user does not provide is
\* written by the reconciler for the same spec, webhook or not.
ReferencesGenerated ==
    \A s \in stored : References(s) \ {"user", "emptyDir"} \subseteq Generated(s)

\* The ports that Services and Ingresses forward to are ports of the pod.
ServicesReachPorts(s) ==
    /\ \A r \in ServicePorts(s) \cup OrchardServicePorts(s) : <<r[2], r[1]>> \in ContainerPorts(s)
    /\ On(s.ingress) => <<IngressBackend(s), "api">> \in ServicePorts(s)
    /\ On(s.orchard) /\ On(s.orchard.ingress) =>
          <<OrchardIngressBackend(s), "orchard">> \in OrchardServicePorts(s)
    /\ "podMonitor" \in Generated(s) => \E r \in ContainerPorts(s) : r[1] = "metrics"

\* The ports of the pod, and the numbered one of the Service, are exactly the
\* ones listened on, in config.toml and in the environment.
PortsListened(s) ==
    /\ {<<l[1], l[2]>> : l \in Listeners(s)}
          = {p \in ContainerPorts(s) : p[1] # "grpc"}
            \cup {<<"management", p>> : p \in ManagementServicePorts(s)}
    /\ CoreEnvListeners(s) \cup ManagementRPCEnvListeners(s) \subseteq Listeners(s)

\* Nobody outside the pod reaches the LDK webserver and the management RPC unless
\* a user opens them, although the Service forwards to both; all else is open.
LoopbackOnly(s) ==
    {l[1] : l \in {l \in Listeners(s) : l[3] = "loopback"}}
        = When(On(s.ldkNode) /\ s.ldkNode.webserverHost # "any", {"webserver"})
          \cup When(On(s.managementRPC) /\ s.managementRPC.address # "any", {"management"})

\* What dials inside the pod: mintd its sidecar, Orchard the mint's API and, unless
\* a user gave another port, the port of its management RPC; but an rpc block
\* without a port that passed the webhook holds 8086, wherever mintd listens.
PeersFound(s) ==
    /\ SidecarRuns(s) /\ ~s.grpc.address =>
          <<"grpc", GRPCProcessorPort(s)>> \in ContainerPorts(s)
    /\ On(s.orchard) => <<"api", OrchardMintAPIPort(s)>> \in ContainerPorts(s)
    /\ On(s.orchard) /\ On(s.managementRPC) /\ "rpcPort" \notin explicit =>
          OrchardMintRPCPort(s) = IF s.orchard.rpc.set /\ s.orchard.rpc.port # 0
                                  THEN 8086 ELSE ManagementPort(s)

\* Whatever edits led to a stored spec, its Services, Ingresses, containers,
\* config.toml, environment and Orchard agree on every port, with the two
\* exceptions that the code has: the listeners of LoopbackOnly and the port the
\* webhook writes.  Each generator works out the ports by itself.
RoutesResolve ==
    \A s \in stored :
        ServicesReachPorts(s) /\ PortsListened(s) /\ LoopbackOnly(s) /\ PeersFound(s)

\* A backup that the webhook let through is really scheduled, whatever the
\* order in which the database and the backup were configured.
AdmittedBackupRuns ==
    \A s \in stored : screened /\ On(s.backup) => "cronJob" \in Generated(s)

\* A mint moved from a provisioned to an external PostgreSQL talks TLS to it
\* unless a user said otherwise: the "disable" that suits the provisioned
\* server is never left behind as a default.
ExternalTLSRequired ==
    \A s \in stored :
        /\ s.engine = "postgres" /\ s.postgres.set /\ ~s.postgres.autoProvision
        /\ "tlsMode" \notin explicit
        => ConfigTLSMode(s) = "require"

---------------------------------------------------------------------------
(* What the documentation says, and the code does not do *)

\* docs/deployment-guide.md: with Orchard enabled the operator also "enables
\* management RPC if it was not already set".
OrchardEnablesRPC ==
    \A s \in stored : On(s.orchard) => s.managementRPC.set
=============================================================================
