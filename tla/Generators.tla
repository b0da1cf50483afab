----------------------------- MODULE Generators -----------------------------
(***************************************************************************)
(* What internal/controller/generators makes of a spec, as far as the      *)
(* generated objects refer to each other: the pod's containers, volumes,   *)
(* mounts, environment Secrets and ports, the Services and Ingresses in    *)
(* front of it, and the objects each of them needs.  A reference is named  *)
(* by the kind of GeneratedObjects it points to, or "user" for an object   *)
(* that the user provides.                                                 *)
(***************************************************************************)
EXTENDS CashuMintSpec, GeneratedObjects

When(p, S) == IF p THEN S ELSE {}

LocalEngine(s) == s.engine \in {"sqlite", "redb"}
AutoProvisioned(s) == s.postgres.set /\ s.postgres.autoProvision
HasCertificate(i) == On(i) /\ i.tls /\ i.certManager

\* The feature set that the reconciler model abstracts s to.
FeaturesOf(s) ==
    When(s.autoMnemonic /\ ~s.mnemonicRef, {"autoMnemonic"})
    \cup When(LocalEngine(s), {"localDB"})
    \cup When(AutoProvisioned(s), {"pgAuto"})
    \cup When(On(s.backup), {"backup"})
    \cup When(On(s.backup) /\ s.backup.s3, {"s3"})
    \cup When(ManagementRPCTLSEnabled(s), {"rpcTLS"})
    \cup When(On(s.prometheus), {"prometheus"})
    \cup When(On(s.ingress), {"ingress"})
    \cup When(HasCertificate(s.ingress), {"ingressTLS"})
    \cup When(On(s.orchard), {"orchard"})
    \cup When(On(s.orchard) /\ On(s.orchard.ingress), {"orchardIngress"})
    \cup When(On(s.orchard) /\ HasCertificate(s.orchard.ingress), {"orchardTLS"})

\* The objects the reconciler writes for s, without a restore request.
Generated(s) ==
    {k \in Kinds : Wanted(k, [spec |-> FeaturesOf(s), restore |-> FALSE])}

---------------------------------------------------------------------------
(* The pod *)

SidecarRuns(s) == ActiveBackend(s) = "grpcProcessor" /\ On(s.grpc.sidecar)

\* The mount each optional reference of a backend asks for.
LNDVolumes(s) == {<<"lnd", r>> : r \in When(ActiveBackend(s) = "lnd", s.lndRefs)}

OrchardVolumes(s) ==
    {<<"orchard-lightning", r>> :
        r \in When(s.orchard.lightning.set, s.orchard.lightning.refs)}
    \cup {<<"orchard-taproot", r>> :
        r \in When(s.orchard.taproot.set, s.orchard.taproot.refs)}

GRPCTLS(s) == ActiveBackend(s) = "grpcProcessor" /\ s.grpc.tlsSecretRef

\* generateVolumes and GenerateOrchardVolumes
Volumes(s) ==
    {<<"config">>, <<"data">>}
    \cup LNDVolumes(s)
    \cup When(GRPCTLS(s), {<<"grpc-tls">>})
    \cup When(ManagementRPCTLSEnabled(s), {<<"management-rpc-tls">>})
    \cup When(SidecarRuns(s) /\ s.grpc.sidecar.enableTLS /\ s.grpc.sidecar.tlsSecretRef,
              {<<"sidecar-tls">>})
    \cup When(On(s.orchard), {<<"orchard-data">>, <<"orchard-tmp">>} \cup OrchardVolumes(s))

\* Whatever its name, reconcileManagementRPCTLSSecret ensures the Secret of the
\* management RPC.
VolumeSource(s, v) ==
    CASE v = <<"config">> -> "configMap"
      [] v = <<"data">> -> IF LocalEngine(s) THEN "pvc" ELSE "emptyDir"
      [] v = <<"orchard-data">> -> "orchardPVC"
      [] v = <<"orchard-tmp">> -> "emptyDir"
      [] v = <<"management-rpc-tls">> -> "rpcTLS"
      [] OTHER -> "user"

\* An explicit choice wins over what the management RPC would imply.
OrchardMintRPCMTLS(s) ==
    IF s.orchard.rpc.set /\ s.orchard.rpc.mTLS # ""
    THEN s.orchard.rpc.mTLS = "true" ELSE ManagementRPCTLSEnabled(s)

\* generateVolumeMounts
MintVolumeMounts(s) ==
    {<<"config">>, <<"data">>} \cup LNDVolumes(s)
    \cup When(GRPCTLS(s), {<<"grpc-tls">>})
    \cup When(ManagementRPCTLSEnabled(s), {<<"management-rpc-tls">>})

\* generateSidecarProcessorContainer
SidecarVolumeMounts(s) ==
    When(s.grpc.sidecar.workingDir, {<<"data">>})
    \cup When(s.grpc.sidecar.enableTLS /\ s.grpc.sidecar.tlsSecretRef, {<<"sidecar-tls">>})

\* generateOrchardVolumeMounts
OrchardVolumeMounts(s) ==
    {<<"orchard-data">>, <<"orchard-tmp">>, <<"data">>}
    \cup When(OrchardMintRPCMTLS(s), {<<"management-rpc-tls">>})
    \cup OrchardVolumes(s)

\* generatePodSpec: the mounts of all the containers of the pod; the LDK node
\* mounts the data.
VolumeMounts(s) ==
    MintVolumeMounts(s)
    \cup When(SidecarRuns(s), SidecarVolumeMounts(s))
    \cup When(On(s.ldkNode), {<<"data">>})
    \cup When(On(s.orchard), OrchardVolumeMounts(s))

\* mintMnemonicEnvVars, mintPaymentBackendEnvVars
MintEnvSecrets(s) ==
    When(s.mnemonicRef, {"user"})
    \cup When(s.autoMnemonic /\ ~s.mnemonicRef, {"mnemonic"})
    \cup When(ActiveBackend(s) = "lnbits", {"user"})

\* Faulty: every PostgreSQL is taken for the provisioned one.
OrchardEnvSecretsAnyServer(s) == {"user"} \cup When(s.engine = "postgres", {"pgSecret"})

\* generateOrchardMintDatabaseEnvVar; SETUP_KEY is always the user's.
OrchardEnvSecrets(s) ==
    {"user"} \cup When(s.engine = "postgres" /\ AutoProvisioned(s), {"pgSecret"})

\* generateOrchardEnvironmentVariables: the variables that it fills from a
\* Secret whether or not the spec names one, and that are left without.
UnnamedEnvSources(s) ==
    When(~s.orchard.setupKey, {"SETUP_KEY"})
    \cup When(s.orchard.bitcoin.set /\ ~s.orchard.bitcoin.userRef, {"BITCOIN_RPC_USER"})
    \cup When(s.orchard.bitcoin.set /\ ~s.orchard.bitcoin.passwordRef,
              {"BITCOIN_RPC_PASSWORD"})

\* Every object the generated pods read: the mint's pod, PostgreSQL's and the
\* backup job's.
References(s) ==
    {VolumeSource(s, v) : v \in Volumes(s)}
    \cup MintEnvSecrets(s)
    \cup When(On(s.orchard), OrchardEnvSecrets(s))
    \cup When(AutoProvisioned(s), {"pgSecret"})
    \cup When("cronJob" \in Generated(s), {"pgSecret", "user"})

---------------------------------------------------------------------------
(* Ports *)

DefaultedPort(b, port) == FilledPort(b.port, port)
WebserverPort(s) == FilledPort(s.ldkNode.webserverPort, 8888)
GRPCProcessorPort(s) == FilledPort(s.grpc.port, 50051)

\* The named ports each container of the pod declares; none declares the port of
\* the management RPC.
MintContainerPorts(s) ==
    {<<"api", FilledPort(s.listenPort, 8085)>>}
    \cup When(On(s.prometheus), {<<"metrics", DefaultedPort(s.prometheus, 9000)>>})
LDKContainerPorts(s) ==
    {<<"ldk", DefaultedPort(s.ldkNode, 8090)>>, <<"webserver", WebserverPort(s)>>}
SidecarContainerPorts(s) == {<<"grpc", GRPCProcessorPort(s)>>}
OrchardContainerPorts(s) == {<<"orchard", DefaultedPort(s.orchard, 3321)>>}

ContainerPorts(s) ==
    MintContainerPorts(s)
    \cup When(On(s.ldkNode), LDKContainerPorts(s))
    \cup When(SidecarRuns(s), SidecarContainerPorts(s))
    \cup When(On(s.orchard), OrchardContainerPorts(s))

\* GenerateService: the ports and the named container port each forwards to.
ServicePorts(s) ==
    {<<FilledPort(s.listenPort, 8085), "api">>}
    \cup When(On(s.ldkNode), {<<DefaultedPort(s.ldkNode, 8090), "ldk">>,
                              <<WebserverPort(s), "webserver">>})
    \cup When(On(s.prometheus), {<<DefaultedPort(s.prometheus, 9000), "metrics">>})

\* The port that forwards to its own number in the pod.
ManagementServicePorts(s) ==
    When(On(s.managementRPC), {DefaultedPort(s.managementRPC, 8086)})

\* GenerateOrchardService
OrchardServicePorts(s) ==
    When(On(s.orchard), {<<DefaultedPort(s.orchard, 3321), "orchard">>})

\* The Service port GenerateIngress and GenerateOrchardIngress route to.
IngressBackend(s) == FilledPort(s.listenPort, 8085)
OrchardIngressBackend(s) == DefaultedPort(s.orchard, 3321)

\* Where mintd serves the management RPC, and where Orchard looks for it and,
\* unless its mint block names an API, for the mint.
ManagementPort(s) == DefaultedPort(s.managementRPC, 8086)
OrchardMintAPIPort(s) == FilledPort(s.listenPort, 8085)

\* Faulty: the default port, whatever port mintd was given.
OrchardMintRPCPortFixed(s) ==
    IF s.orchard.rpc.set /\ s.orchard.rpc.port # 0 THEN s.orchard.rpc.port ELSE 8086

OrchardMintRPCPort(s) ==
    IF s.orchard.rpc.set /\ s.orchard.rpc.port # 0 THEN s.orchard.rpc.port
    ELSE IF s.managementRPC.set THEN ManagementPort(s) ELSE 8086

---------------------------------------------------------------------------
(* config.toml, and the environment that repeats it *)

\* Faulty: the management RPC has TLS only where the user named the Secret.
ManagementRPCPathsNamed(s) ==
    When(On(s.managementRPC) /\ s.managementRPC.tlsSecretRef # "nil",
         {<<"management-rpc-tls">>})

\* writeManagementRPCSection, mintManagementRPCEnvVars
ManagementRPCPaths(s) ==
    When(On(s.managementRPC) /\ ManagementRPCTLSEnabled(s), {<<"management-rpc-tls">>})

\* writePaymentBackendSection and the sections it delegates to: the files that
\* the section of the active backend names, by the mount that holds them.
LNDPaths(s) == {<<"lnd", r>> : r \in s.lndRefs}
GRPCProcessorPaths(s) == When(s.grpc.tlsSecretRef, {<<"grpc-tls">>})
BackendPaths(s) ==
    CASE ActiveBackend(s) = "lnd" -> LNDPaths(s)
      [] ActiveBackend(s) = "grpcProcessor" -> GRPCProcessorPaths(s)
      [] OTHER -> {}

\* Where the pod is told to listen: the name of the port, its number and the
\* address.
InfoListeners(s) == {<<"api", FilledPort(s.listenPort, 8085), "any">>}

LDKNodeListeners(s) ==
    When(On(s.ldkNode),
         {<<"ldk", FilledPort(s.ldkNode.port, 8090), "any">>,
          <<"webserver", FilledPort(s.ldkNode.webserverPort, 8888),
            Filled(s.ldkNode.webserverHost, "loopback")>>})

ManagementRPCListeners(s) ==
    When(On(s.managementRPC),
         {<<"management", FilledPort(s.managementRPC.port, 8086),
            Filled(s.managementRPC.address, "loopback")>>})

PrometheusListeners(s) ==
    When(On(s.prometheus), {<<"metrics", FilledPort(s.prometheus.port, 9000), "any">>})

\* SERVER_PORT in Orchard's environment
OrchardListeners(s) ==
    When(On(s.orchard), {<<"orchard", DefaultedPort(s.orchard, 3321), "any">>})

\* generateConfigToml, and Orchard
Listeners(s) ==
    InfoListeners(s) \cup LDKNodeListeners(s) \cup ManagementRPCListeners(s)
        \cup PrometheusListeners(s) \cup OrchardListeners(s)

\* mintCoreEnvVars, mintManagementRPCEnvVars: what mintd's environment says of
\* two of them, and what it says wins.
CoreEnvListeners(s) == {<<"api", FilledPort(s.listenPort, 8085), "any">>}
ManagementRPCEnvListeners(s) ==
    When(On(s.managementRPC),
         {<<"management", DefaultedPort(s.managementRPC, 8086),
            Filled(s.managementRPC.address, "loopback")>>})

\* writeDatabaseSection: the provisioned server has no TLS.
ConfigTLSMode(s) ==
    IF s.postgres.autoProvision THEN "disable" ELSE Filled(s.postgres.tlsMode, "require")
=============================================================================
