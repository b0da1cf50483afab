------------------------ MODULE MintAdmission_proofs ------------------------
(***************************************************************************)
(* What validation guarantees about the generated pod, and what defaulting *)
(* leaves in the store, for every set of manifests and edits.              *)
(***************************************************************************)
EXTENDS MintAdmission, FiniteSetTheorems, TLAPS

\* An Orchard container that claims mTLS runs next to a management RPC that
\* serves it: the link validateOrchardMint adds.
LEMMA OrchardMTLSBacked ==
    ASSUME NEW s, ValidateCashuMint(s), On(s.orchard), OrchardMintRPCMTLS(s)
    PROVE  ManagementRPCTLSEnabled(s)
<1>1. s.orchard.rpc.set /\ s.orchard.rpc.mTLS = "true" => On(s.managementRPC)
  BY DEF ValidateCashuMint, ValidateOrchard, ValidateOrchardMint, On
<1> QED
  BY <1>1 DEF OrchardMintRPCMTLS, ManagementRPCTLSEnabled, On

\* Every container of the pod generated for a valid spec finds its volumes.
LEMMA ValidMounts ==
    ASSUME NEW s, ValidateCashuMint(s)
    PROVE  VolumeMounts(s) \subseteq Volumes(s)
<1>1. MintVolumeMounts(s) \subseteq Volumes(s)
  BY DEF MintVolumeMounts, Volumes, When
<1>2. SidecarRuns(s) => SidecarVolumeMounts(s) \subseteq Volumes(s)
  BY DEF SidecarVolumeMounts, Volumes, When
<1>3. ASSUME On(s.orchard) PROVE OrchardVolumeMounts(s) \subseteq Volumes(s)
  <2>1. OrchardMintRPCMTLS(s) => ManagementRPCTLSEnabled(s)
    BY <1>3, OrchardMTLSBacked
  <2> QED BY <1>3, <2>1 DEF OrchardVolumeMounts, Volumes, When
<1>4. <<"data">> \in Volumes(s)
  BY DEF Volumes
<1> QED
  BY <1>1, <1>2, <1>3, <1>4 DEF VolumeMounts, When

\* An enabled backup that passed validateBackup is generated: the webhook asks
\* for at least what GeneratePostgresBackupCronJob needs.
LEMMA ValidBackup ==
    ASSUME NEW s, ValidateCashuMint(s), On(s.backup)
    PROVE  "cronJob" \in Generated(s)
<1>1. s.engine = "postgres" /\ AutoProvisioned(s) /\ s.backup.s3
  BY DEF ValidateCashuMint, ValidateBackup, AutoProvisioned
<1>2. {"backup", "s3", "pgAuto"} \subseteq FeaturesOf(s)
  BY <1>1 DEF FeaturesOf, When
<1>3. "localDB" \notin FeaturesOf(s)
  BY <1>1 DEF FeaturesOf, When, LocalEngine
<1>4. "cronJob" \in Kinds
  BY DEF Kinds, Position
<1>5. Wanted("cronJob", [spec |-> FeaturesOf(s), restore |-> FALSE])
  BY <1>2, <1>3 DEF Wanted
<1> QED
  BY <1>4, <1>5 DEF Generated

\* What the webhook let through is still valid as it is stored.
Screened == screened => served /\ \A s \in stored : ValidateCashuMint(s)

\* Every write of a spec with the webhook in place is judged as it is stored.
LEMMA ScreenedStep == Screened /\ [Next]_vars => Screened'
<1> SUFFICES ASSUME Screened, [Next]_vars PROVE Screened'
  OBVIOUS
<1>1. ASSUME NEW s, NEW old, Submits(s, old) PROVE Screened'
  BY <1>1 DEF Submits, Accepted, Screened
<1>2. CASE UserCreates
  BY <1>1, <1>2 DEF UserCreates
<1>3. CASE UserPatches
  BY <1>1, <1>3 DEF UserPatches
<1>4. CASE UserDeletes
  BY <1>4 DEF UserDeletes, Screened
<1>5. CASE OperatorUpdates
  BY <1>5 DEF OperatorUpdates, Accepted, Screened
<1>6. CASE InstallWebhook \/ UNCHANGED vars
  BY <1>6 DEF InstallWebhook, vars, Screened
<1> QED
  BY <1>2, <1>3, <1>4, <1>5, <1>6 DEF Next

\* A spec that was stored through the webhook generates a pod in which every
\* mount has its volume, whatever edits led to it and whatever defaults they
\* left behind.
THEOREM MountsCorrect == Spec => []MountsHaveVolumes
<1>1. Init => Screened
  BY DEF Init, Screened
<1>2. Screened => MountsHaveVolumes
  BY ValidMounts DEF Screened, MountsHaveVolumes
<1> QED
  BY <1>1, <1>2, ScreenedStep, PTL DEF Spec

\* A backup that was admitted is scheduled, in whatever order its database and
\* the backup itself were configured.
THEOREM BackupCorrect == Spec => []AdmittedBackupRuns
<1>1. Init => Screened
  BY DEF Init, Screened
<1>2. Screened => AdmittedBackupRuns
  BY ValidBackup DEF Screened, AdmittedBackupRuns
<1> QED
  BY <1>1, <1>2, ScreenedStep, PTL DEF Spec

\* A pod generated for an admitted spec names a Secret for each environment
\* variable that is filled from one.
THEOREM EnvSourcesCorrect == Spec => []EnvSourcesGiven
<1>1. Init => Screened
  BY DEF Init, Screened
<1>2. ASSUME NEW s, ValidateCashuMint(s), On(s.orchard)
      PROVE  UnnamedEnvSources(s) = {}
  <2>1. s.orchard.setupKey
        /\ (s.orchard.bitcoin.set => s.orchard.bitcoin.userRef /\ s.orchard.bitcoin.passwordRef)
    BY <1>2 DEF ValidateCashuMint, ValidateOrchard, ValidateOrchardBitcoin
  <2> QED BY <2>1 DEF UnnamedEnvSources, When
<1>3. Screened => EnvSourcesGiven
  BY <1>2 DEF Screened, EnvSourcesGiven
<1> QED
  BY <1>1, <1>3, ScreenedStep, PTL DEF Spec

\* What config.toml and the environment tell mintd to read is what the pod
\* mounts for it, for every spec, admitted through the webhook or not.
THEOREM FilesCorrect == Spec => []FilesMounted
<1>1. ASSUME NEW s
      PROVE  BackendPaths(s) \cup ManagementRPCPaths(s)
                 = MintVolumeMounts(s) \ {<<"config">>, <<"data">>}
  <2>1. LNDVolumes(s) \cup When(GRPCTLS(s), {<<"grpc-tls">>}) = BackendPaths(s)
    BY DEF LNDVolumes, GRPCTLS, BackendPaths, LNDPaths, GRPCProcessorPaths, When
  <2>2. When(ManagementRPCTLSEnabled(s), {<<"management-rpc-tls">>}) = ManagementRPCPaths(s)
    BY DEF ManagementRPCPaths, ManagementRPCTLSEnabled, When
  <2>3. <<"config">> \notin BackendPaths(s) \cup ManagementRPCPaths(s)
        /\ <<"data">> \notin BackendPaths(s) \cup ManagementRPCPaths(s)
    BY DEF BackendPaths, LNDPaths, GRPCProcessorPaths, ManagementRPCPaths, When
  <2> QED BY <2>1, <2>2, <2>3 DEF MintVolumeMounts
<1>2. FilesMounted
  BY <1>1 DEF FilesMounted
<1> QED
  BY <1>2, PTL

\* Membership in the generated objects, for the kinds that pods refer to.
LEMMA GeneratedKinds ==
    ASSUME NEW s
    PROVE  /\ "configMap" \in Generated(s)
           /\ LocalEngine(s) => "pvc" \in Generated(s)
           /\ On(s.orchard) => "orchardPVC" \in Generated(s)
           /\ ManagementRPCTLSEnabled(s) => "rpcTLS" \in Generated(s)
           /\ s.autoMnemonic /\ ~s.mnemonicRef => "mnemonic" \in Generated(s)
           /\ AutoProvisioned(s) => "pgSecret" \in Generated(s)
           /\ "cronJob" \in Generated(s) => AutoProvisioned(s)
           /\ "podMonitor" \in Generated(s) => On(s.prometheus)
<1> DEFINE m == [spec |-> FeaturesOf(s), restore |-> FALSE]
<1>1. \A k : k \in Generated(s) <=> k \in Kinds /\ Wanted(k, m)
  BY DEF Generated
<1>2. {"configMap", "pvc", "orchardPVC", "rpcTLS", "mnemonic", "pgSecret"} \subseteq Kinds
  BY DEF Kinds, Position
<1>3. m.spec = FeaturesOf(s)
  OBVIOUS
<1>4. /\ "localDB" \in m.spec <=> LocalEngine(s)
      /\ "orchard" \in m.spec <=> On(s.orchard)
      /\ "rpcTLS" \in m.spec <=> ManagementRPCTLSEnabled(s)
      /\ "autoMnemonic" \in m.spec <=> s.autoMnemonic /\ ~s.mnemonicRef
      /\ "pgAuto" \in m.spec <=> AutoProvisioned(s)
      /\ "prometheus" \in m.spec <=> On(s.prometheus)
  BY <1>3 DEF FeaturesOf, When
<1> HIDE DEF m
<1> QED
  BY <1>1, <1>2, <1>4 DEF Wanted

\* No pod the reconciler writes waits for an object that it does not write.
THEOREM ReferencesCorrect == Spec => []ReferencesGenerated
<1>1. ASSUME NEW s PROVE References(s) \ {"user", "emptyDir"} \subseteq Generated(s)
  <2>1. ASSUME NEW v \in Volumes(s)
        PROVE  VolumeSource(s, v) \in {"user", "emptyDir"} \cup Generated(s)
    <3>1. CASE v \in {<<"config">>, <<"data">>}
      BY <3>1, GeneratedKinds DEF VolumeSource
    <3>2. CASE v \in LNDVolumes(s) \cup OrchardVolumes(s) \cup {<<"grpc-tls">>, <<"sidecar-tls">>}
      BY <3>2 DEF VolumeSource, LNDVolumes, OrchardVolumes
    <3>3. CASE v = <<"management-rpc-tls">>
      <4>1. v \notin LNDVolumes(s) \cup OrchardVolumes(s)
        BY <3>3 DEF LNDVolumes, OrchardVolumes
      <4>2. ManagementRPCTLSEnabled(s)
        BY <2>1, <3>3, <4>1 DEF Volumes, When
      <4>3. VolumeSource(s, v) = "rpcTLS"
        BY <3>3 DEF VolumeSource
      <4> QED BY <4>2, <4>3, GeneratedKinds
    <3>4. CASE v \in {<<"orchard-data">>, <<"orchard-tmp">>}
      <4>1. v \notin LNDVolumes(s)
        BY <3>4 DEF LNDVolumes
      <4>2. On(s.orchard)
        BY <2>1, <3>4, <4>1 DEF Volumes, When
      <4>3. VolumeSource(s, v) \in {"orchardPVC", "emptyDir"}
        BY <3>4 DEF VolumeSource
      <4> QED BY <4>2, <4>3, GeneratedKinds
    <3> QED BY <2>1, <3>1, <3>2, <3>3, <3>4 DEF Volumes, When
  <2>2. MintEnvSecrets(s) \subseteq {"user"} \cup Generated(s)
    BY GeneratedKinds DEF MintEnvSecrets, When
  <2>3. OrchardEnvSecrets(s) \subseteq {"user"} \cup Generated(s)
    BY GeneratedKinds DEF OrchardEnvSecrets, When
  <2> QED
    BY <2>1, <2>2, <2>3, GeneratedKinds DEF References, When
<1>2. ReferencesGenerated
  BY <1>1 DEF ReferencesGenerated
<1> QED
  BY <1>2, PTL

---------------------------------------------------------------------------
(* Defaulting *)

\* Blocks behind a pointer, nil included.
PostgresBlock == Postgres \cup {Nil}
RPCBlock == ManagementRPC(Nat) \cup {Nil}
LDKBlock == LDKNode(Nat) \cup {Nil}
OrchardBlock == Orchard(Nat) \cup {Nil}
OrchardRPCBlock == OrchardRPC(Nat) \cup {Nil}
PrometheusBlock == Prometheus(Nat) \cup {Nil}
BackupBlock == Backup \cup {Nil}

\* Nothing of a block is left to default.
RPCFilled(b) == b.set => b.address # "" /\ b.port # 0
LDKFilled(b) == b.set => b.port # 0 /\ b.webserverHost # "" /\ b.webserverPort # 0

\* A filled port is never the zero value, and keeps what was given.
LEMMA FilledPortFacts ==
    ASSUME NEW n \in Nat, n # 0, NEW q \in Nat
    PROVE  /\ FilledPort(q, n) \in Nat /\ FilledPort(q, n) # 0
           /\ q # 0 => FilledPort(q, n) = q
BY DEF FilledPort

\* What filling in the port of a block amounts to.
LEMMA PortFilled ==
    ASSUME NEW n \in Nat, n # 0, NEW b, b.set = TRUE, b.port \in Nat
    PROVE  \E q \in Nat : /\ DefaultPort(b, n) = [b EXCEPT !.port = q]
                          /\ q # 0 /\ (b.port # 0 => q = b.port)
BY DEF DefaultPort, FilledPort

\* Filling a port keeps the block in the schema and touches nothing else.
LEMMA PrometheusPort ==
    ASSUME NEW n \in Nat, n # 0, NEW b \in PrometheusBlock
    PROVE  LET c == DefaultPort(b, n) IN
           /\ c \in PrometheusBlock
           /\ c.set = b.set /\ (c.set => c.port # 0)
           /\ ~b.set \/ b.port # 0 => c = b
           /\ b.set => c.enabled = b.enabled
<1>1. CASE b = Nil
  BY <1>1 DEF Nil, DefaultPort, PrometheusBlock
<1>2. CASE b \in Prometheus(Nat)
  <2>1. b.set = TRUE /\ b.port \in Nat
    BY <1>2 DEF Prometheus
  <2>2. PICK q \in Nat : /\ DefaultPort(b, n) = [b EXCEPT !.port = q]
                         /\ q # 0 /\ (b.port # 0 => q = b.port)
    BY <2>1, PortFilled
  <2>3. LET c == [b EXCEPT !.port = q] IN
        c \in Prometheus(Nat) /\ c.set = b.set /\ c.port = q /\ c.enabled = b.enabled
    BY <1>2 DEF Prometheus
  <2>4. q = b.port => [b EXCEPT !.port = q] = b
    BY <1>2 DEF Prometheus
  <2> QED BY <2>1, <2>2, <2>3, <2>4 DEF PrometheusBlock
<1> QED BY <1>1, <1>2 DEF PrometheusBlock

\* Filling a block keeps it in the schema, leaves nothing to fill in and does not
\* touch one that is complete.
LEMMA RPCFacts ==
    ASSUME NEW b \in RPCBlock
    PROVE  LET c == DefaultManagementRPC(b) IN
           /\ c \in RPCBlock
           /\ c.set = b.set /\ RPCFilled(c)
           /\ RPCFilled(b) => c = b
           /\ b.set => c.enabled = b.enabled
<1>1. CASE b = Nil
  BY <1>1 DEF Nil, DefaultManagementRPC, RPCBlock, RPCFilled
<1>2. CASE b \in ManagementRPC(Nat)
  <2> DEFINE h == Filled(b.address, "loopback")
             q == FilledPort(b.port, 8086)
             c == [b EXCEPT !.address = h, !.port = q]
  <2>1. b.set = TRUE /\ b.port \in Nat
    BY <1>2 DEF ManagementRPC
  <2>2. h \in {"any", "loopback"} /\ h # "" /\ (b.address # "" => h = b.address)
    BY <1>2 DEF ManagementRPC, Hosts, Filled
  <2>3. q \in Nat /\ q # 0 /\ (b.port # 0 => q = b.port)
    BY <2>1, FilledPortFacts
  <2>4. DefaultManagementRPC(b) = c
    BY <2>1 DEF DefaultManagementRPC
  <2> HIDE DEF h, q
  <2>5. c \in ManagementRPC(Nat)
    BY <1>2, <2>2, <2>3 DEF ManagementRPC, Hosts
  <2>6. c.set = TRUE /\ c.enabled = b.enabled /\ c.address = h /\ c.port = q
    BY <1>2 DEF ManagementRPC
  <2>7. h = b.address /\ q = b.port => c = b
    BY <1>2 DEF ManagementRPC
  <2> HIDE DEF c
  <2>8. RPCFilled(c)
    BY <2>2, <2>3, <2>6 DEF RPCFilled
  <2>9. RPCFilled(b) => c = b
    BY <2>1, <2>2, <2>3, <2>7 DEF RPCFilled
  <2>10. c \in RPCBlock
    BY <2>5 DEF RPCBlock
  <2> QED BY <2>1, <2>4, <2>6, <2>8, <2>9, <2>10
<1> QED BY <1>1, <1>2 DEF RPCBlock

LEMMA LDKFacts ==
    ASSUME NEW b \in LDKBlock
    PROVE  LET c == DefaultLDKNode(b) IN
           /\ c \in LDKBlock
           /\ c.set = b.set /\ LDKFilled(c)
           /\ LDKFilled(b) => c = b
<1>1. CASE b = Nil
  BY <1>1 DEF Nil, DefaultLDKNode, LDKBlock, LDKFilled
<1>2. CASE b \in LDKNode(Nat)
  <2> DEFINE q == FilledPort(b.port, 8090)
             h == Filled(b.webserverHost, "loopback")
             w == FilledPort(b.webserverPort, 8888)
             c == [b EXCEPT !.port = q, !.webserverHost = h, !.webserverPort = w]
  <2>1. b.set = TRUE /\ b.port \in Nat /\ b.webserverPort \in Nat
    BY <1>2 DEF LDKNode
  <2>2. h \in {"any", "loopback"} /\ h # "" /\ (b.webserverHost # "" => h = b.webserverHost)
    BY <1>2 DEF LDKNode, Hosts, Filled
  <2>3. q \in Nat /\ q # 0 /\ (b.port # 0 => q = b.port)
    BY <2>1, FilledPortFacts
  <2>4. w \in Nat /\ w # 0 /\ (b.webserverPort # 0 => w = b.webserverPort)
    BY <2>1, FilledPortFacts
  <2>5. DefaultLDKNode(b) = c
    BY <2>1 DEF DefaultLDKNode
  <2> HIDE DEF h, q, w
  <2>6. c \in LDKNode(Nat)
    BY <1>2, <2>2, <2>3, <2>4 DEF LDKNode, Hosts
  <2>7. c.set = TRUE /\ c.port = q /\ c.webserverHost = h /\ c.webserverPort = w
    BY <1>2 DEF LDKNode
  <2>8. h = b.webserverHost /\ q = b.port /\ w = b.webserverPort => c = b
    BY <1>2 DEF LDKNode
  <2> HIDE DEF c
  <2>9. LDKFilled(c)
    BY <2>2, <2>3, <2>4, <2>7 DEF LDKFilled
  <2>10. LDKFilled(b) => c = b
    BY <2>1, <2>2, <2>3, <2>4, <2>8 DEF LDKFilled
  <2>11. c \in LDKBlock
    BY <2>6 DEF LDKBlock
  <2> QED BY <2>1, <2>5, <2>7, <2>9, <2>10, <2>11
<1> QED BY <1>1, <1>2 DEF LDKBlock

\* The port of the gRPC processor is given wherever it is the backend.
GRPCFilled(g, backends) == "grpcProcessor" \in backends => g.port # 0

LEMMA GRPCFacts ==
    ASSUME NEW g \in GRPCProcessor(Nat), NEW backends
    PROVE  LET c == DefaultGRPCProcessor(g, backends) IN
           /\ c \in GRPCProcessor(Nat)
           /\ GRPCFilled(c, backends)
           /\ GRPCFilled(g, backends) => c = g
<1>1. CASE "grpcProcessor" \notin backends
  BY <1>1 DEF DefaultGRPCProcessor, GRPCFilled
<1>2. CASE "grpcProcessor" \in backends
  <2>1. g.port \in Nat
    BY DEF GRPCProcessor
  <2>2. PICK q \in Nat : q = FilledPort(g.port, 50051) /\ q # 0 /\ (g.port # 0 => q = g.port)
    BY <2>1, FilledPortFacts
  <2> DEFINE c == [g EXCEPT !.port = q]
  <2>3. DefaultGRPCProcessor(g, backends) = c
    BY <1>2, <2>2 DEF DefaultGRPCProcessor
  <2>4. c \in GRPCProcessor(Nat) /\ c.port = q
    BY DEF GRPCProcessor
  <2>5. q = g.port => c = g
    BY DEF GRPCProcessor
  <2> HIDE DEF c
  <2> QED BY <1>2, <2>2, <2>3, <2>4, <2>5 DEF GRPCFilled
<1> QED BY <1>1, <1>2

LEMMA OrchardPort ==
    ASSUME NEW n \in Nat, n # 0, NEW b \in OrchardBlock
    PROVE  LET c == DefaultPort(b, n) IN
           /\ c \in OrchardBlock
           /\ c.set = b.set /\ (c.set => c.port # 0)
           /\ ~b.set \/ b.port # 0 => c = b
           /\ b.set => c.enabled = b.enabled /\ c.image = b.image /\ c.rpc = b.rpc
<1>1. CASE b = Nil
  BY <1>1 DEF Nil, DefaultPort, OrchardBlock
<1>2. CASE b \in Orchard(Nat)
  <2>1. b.set = TRUE /\ b.port \in Nat
    BY <1>2 DEF Orchard
  <2>2. PICK q \in Nat : /\ DefaultPort(b, n) = [b EXCEPT !.port = q]
                         /\ q # 0 /\ (b.port # 0 => q = b.port)
    BY <2>1, PortFilled
  <2>3. LET c == [b EXCEPT !.port = q] IN
        c \in Orchard(Nat) /\ c.set = b.set /\ c.port = q /\ c.enabled = b.enabled /\ c.image = b.image /\ c.rpc = b.rpc
    BY <1>2 DEF Orchard
  <2>4. q = b.port => [b EXCEPT !.port = q] = b
    BY <1>2 DEF Orchard
  <2> QED BY <2>1, <2>2, <2>3, <2>4 DEF OrchardBlock
<1> QED BY <1>1, <1>2 DEF OrchardBlock

\* Filling in tlsMode.
LEMMA TLSModeFacts ==
    ASSUME NEW b \in PostgresBlock, NEW v \in {"disable", "require"}
    PROVE  LET c == DefaultTLSMode(b, v) IN
           /\ c \in PostgresBlock
           /\ c.set = b.set
           /\ c.set => c.tlsMode # "" /\ c.tlsMode = IF b.tlsMode = "" THEN v ELSE b.tlsMode
           /\ ~b.set \/ b.tlsMode # "" => c = b
<1>1. CASE b = Nil
  BY <1>1 DEF Nil, DefaultTLSMode, PostgresBlock
<1>2. CASE b \in Postgres
  <2>1. b.set = TRUE /\ b.tlsMode \in {"", "disable", "prefer", "require"}
    BY <1>2 DEF Postgres
  <2>2. PICK q \in {"disable", "prefer", "require"} :
            q = IF b.tlsMode = "" THEN v ELSE b.tlsMode
    BY <2>1
  <2>3. DefaultTLSMode(b, v) = [b EXCEPT !.tlsMode = q]
    BY <2>1, <2>2 DEF DefaultTLSMode, Filled
  <2>4. LET c == [b EXCEPT !.tlsMode = q] IN c \in Postgres /\ c.set = TRUE /\ c.tlsMode = q
    BY <1>2 DEF Postgres
  <2>5. q = b.tlsMode => [b EXCEPT !.tlsMode = q] = b
    BY <1>2 DEF Postgres
  <2> QED BY <2>1, <2>2, <2>3, <2>4, <2>5 DEF PostgresBlock
<1> QED BY <1>1, <1>2 DEF PostgresBlock

\* The port of Orchard's rpc block is kept where it is given; else it is the one
\* that the webhook fills in.
RPCPortKept(r, c) ==
    r.set => IF r.port = 0 THEN c.port \in {0, 8086} ELSE c.port = r.port

\* Filling in the rpc block of Orchard.
LEMMA OrchardRPCFacts ==
    ASSUME NEW r \in OrchardRPCBlock, NEW v \in {"false", "true"}
    PROVE  LET c == DefaultOrchardRPC(r, v) IN
           /\ c \in OrchardRPCBlock
           /\ c.set = r.set /\ (c.set => c.port # 0 /\ c.mTLS # "")
           /\ ~r.set \/ (r.port # 0 /\ r.mTLS # "") => c = r
           /\ RPCPortKept(r, c)
<1>1. CASE r = Nil
  BY <1>1 DEF Nil, DefaultOrchardRPC, OrchardRPCBlock, RPCPortKept
<1>2. CASE r \in OrchardRPC(Nat)
  <2> DEFINE n == FilledPort(r.port, 8086)
             q == Filled(r.mTLS, v)
             c == [r EXCEPT !.port = n, !.mTLS = q]
  <2>1. r.set = TRUE /\ r.port \in Nat
    BY <1>2 DEF OrchardRPC
  <2>2. q \in {"false", "true"} /\ (r.mTLS # "" => q = r.mTLS)
    BY <1>2 DEF OrchardRPC, Filled
  <2>3. n \in Nat /\ n # 0 /\ (r.port # 0 => n = r.port)
    BY <2>1, FilledPortFacts
  <2>10. IF r.port = 0 THEN n = 8086 ELSE n = r.port
    BY DEF FilledPort
  <2>4. DefaultOrchardRPC(r, v) = c
    BY <2>1 DEF DefaultOrchardRPC
  <2> HIDE DEF n, q
  <2>5. c \in OrchardRPC(Nat) /\ c.set = TRUE /\ c.port = n /\ c.mTLS = q
    BY <1>2, <2>2, <2>3 DEF OrchardRPC
  <2>6. q = r.mTLS /\ n = r.port => c = r
    BY <1>2 DEF OrchardRPC
  <2> HIDE DEF c
  <2>7. q # ""
    BY <2>2
  <2>8. c \in OrchardRPCBlock
    BY <2>5 DEF OrchardRPCBlock
  <2>9. ~r.set \/ (r.port # 0 /\ r.mTLS # "") => c = r
    BY <2>1, <2>2, <2>3, <2>6
  <2>11. RPCPortKept(r, c)
    BY <2>5, <2>10 DEF RPCPortKept
  <2> QED BY <2>1, <2>3, <2>4, <2>5, <2>7, <2>8, <2>9, <2>11
<1> QED BY <1>1, <1>2 DEF OrchardRPCBlock

\* Defaulting replaces whole blocks.
Front(s, e, p, l, m) ==
    [s EXCEPT !.engine = e, !.postgres = p, !.listenPort = l, !.managementRPC = m]
Back(s, o, k, r, g) ==
    [s EXCEPT !.orchard = o, !.ldkNode = k, !.prometheus = r, !.grpc = g]

\* The schema judges each block by itself.
LEMMA FrontReplaced ==
    ASSUME NEW s \in MintSpecs, NEW e \in Engines, NEW p \in PostgresBlock, NEW l \in Nat,
           NEW m \in RPCBlock
    PROVE  LET t == Front(s, e, p, l, m)
           IN /\ t \in MintSpecs
              /\ t.engine = e /\ t.postgres = p /\ t.listenPort = l /\ t.managementRPC = m
              /\ t.orchard = s.orchard /\ t.ldkNode = s.ldkNode /\ t.prometheus = s.prometheus
              /\ t.backup = s.backup /\ t.grpc = s.grpc /\ t.backends = s.backends
<1>1. Front(s, e, p, l, m) \in MintSpecs
  BY DEF MintSpecs, PostgresBlock, RPCBlock, Front
<1>2. LET t == Front(s, e, p, l, m)
      IN t.engine = e /\ t.postgres = p /\ t.listenPort = l /\ t.managementRPC = m
  BY DEF MintSpecs, Front
<1>3. LET t == Front(s, e, p, l, m)
      IN /\ t.orchard = s.orchard /\ t.ldkNode = s.ldkNode /\ t.prometheus = s.prometheus
         /\ t.backup = s.backup /\ t.grpc = s.grpc /\ t.backends = s.backends
  BY DEF MintSpecs, Front
<1> QED BY <1>1, <1>2, <1>3

LEMMA BackReplaced ==
    ASSUME NEW s \in MintSpecs, NEW o \in OrchardBlock, NEW k \in LDKBlock,
           NEW r \in PrometheusBlock, NEW g \in GRPCProcessor(Nat)
    PROVE  LET t == Back(s, o, k, r, g)
           IN /\ t \in MintSpecs
              /\ t.orchard = o /\ t.ldkNode = k /\ t.prometheus = r /\ t.grpc = g
              /\ t.engine = s.engine /\ t.postgres = s.postgres /\ t.listenPort = s.listenPort
              /\ t.managementRPC = s.managementRPC /\ t.backup = s.backup
              /\ t.backends = s.backends
<1>1. Back(s, o, k, r, g) \in MintSpecs
  BY DEF MintSpecs, OrchardBlock, LDKBlock, PrometheusBlock, Back
<1>2. LET t == Back(s, o, k, r, g)
      IN t.orchard = o /\ t.ldkNode = k /\ t.prometheus = r /\ t.grpc = g
  BY DEF MintSpecs, Back
<1>3. LET t == Back(s, o, k, r, g)
      IN /\ t.engine = s.engine /\ t.postgres = s.postgres /\ t.listenPort = s.listenPort
         /\ t.managementRPC = s.managementRPC /\ t.backup = s.backup
         /\ t.backends = s.backends
  BY DEF MintSpecs, Back
<1> QED BY <1>1, <1>2, <1>3

\* The fields of a spec, each in its part of the schema.
LEMMA Blocks ==
    ASSUME NEW s \in MintSpecs
    PROVE  /\ s.engine \in Engines /\ s.postgres \in PostgresBlock /\ s.listenPort \in Nat
           /\ s.managementRPC \in RPCBlock /\ s.orchard \in OrchardBlock
           /\ s.ldkNode \in LDKBlock /\ s.prometheus \in PrometheusBlock
           /\ s.backup \in BackupBlock /\ s.grpc \in GRPCProcessor(Nat)
BY DEF MintSpecs, PostgresBlock, RPCBlock, OrchardBlock, LDKBlock, PrometheusBlock, BackupBlock

\* What the webhook's defaulting leaves in an enabled Orchard and backup.
Linked(s) ==
    /\ On(s.orchard) => /\ s.managementRPC.set /\ s.orchard.image # ""
                        /\ s.orchard.rpc.set => s.orchard.rpc.port # 0 /\ s.orchard.rpc.mTLS # ""
    /\ On(s.backup) => s.backup.schedule

\* Nothing is left to default.
Settled(s) ==
    /\ s.engine # "" /\ s.listenPort # 0
    /\ s.postgres.set => s.postgres.tlsMode # ""
    /\ RPCFilled(s.managementRPC) /\ LDKFilled(s.ldkNode) /\ GRPCFilled(s.grpc, s.backends)
    /\ s.orchard.set => s.orchard.port # 0
    /\ s.prometheus.set => s.prometheus.port # 0
    /\ Linked(s)

\* Orchard stays, and its rpc block with it.
RPCKept(o, p) ==
    /\ p.set = o.set
    /\ o.set => p.rpc.set = o.rpc.set /\ RPCPortKept(o.rpc, p.rpc)

LEMMA RPCKeptAlong ==
    ASSUME NEW o, NEW p, NEW q, RPCKept(o, p), RPCKept(p, q) PROVE RPCKept(o, q)
BY DEF RPCKept, RPCPortKept

\* Engine and PostgreSQL are replaced together.
Database(s, e, p) == [s EXCEPT !.engine = e, !.postgres = p]

LEMMA DatabaseReplaced ==
    ASSUME NEW s \in MintSpecs, NEW e \in Engines, NEW p \in PostgresBlock
    PROVE  LET t == Database(s, e, p)
           IN /\ t \in MintSpecs
              /\ t.engine = e /\ t.postgres = p /\ t.orchard = s.orchard
              /\ e = s.engine /\ p = s.postgres => t = s
BY DEF MintSpecs, PostgresBlock, Database

\* defaultMintInfo, defaultDatabase
LEMMA DefaultDatabaseFacts ==
    ASSUME NEW s \in MintSpecs
    PROVE  LET t == DefaultDatabase(DefaultMintInfo(s)) IN
           /\ t \in MintSpecs
           /\ s.engine # "" => t.engine = s.engine
           /\ s.postgres.set /\ s.postgres.tlsMode # "" => t.postgres = s.postgres
           /\ t.postgres.set = s.postgres.set /\ t.orchard = s.orchard
           /\ Settled(s) => t = s
<1>1. PICK l \in Nat : l = DefaultListenPort(s.listenPort) /\ (s.listenPort # 0 => l = s.listenPort)
  BY Blocks, FilledPortFacts DEF DefaultListenPort
<1>2. PICK a : a = DefaultMintInfo(s)
  OBVIOUS
<1>3. a = [s EXCEPT !.listenPort = l]
  BY <1>1, <1>2 DEF DefaultMintInfo
<1>4. a \in MintSpecs /\ a.engine = s.engine /\ a.postgres = s.postgres /\ a.orchard = s.orchard
  BY <1>3 DEF MintSpecs
<1>5. s.listenPort # 0 => a = s
  BY <1>1, <1>3 DEF MintSpecs
<1>6. PICK e \in Engines : e = Filled(a.engine, "postgres") /\ (s.engine # "" => e = s.engine)
  BY <1>4, Blocks DEF Filled, Engines
<1>7. PICK v \in {"disable", "require"} :
          v = IF a.postgres.set /\ a.postgres.autoProvision THEN "disable" ELSE "require"
  OBVIOUS
<1> DEFINE p == DefaultTLSMode(a.postgres, v)
<1>8. /\ p \in PostgresBlock /\ p.set = a.postgres.set
      /\ ~a.postgres.set \/ a.postgres.tlsMode # "" => p = a.postgres
  <2>1. a.postgres \in PostgresBlock
    BY <1>4, Blocks
  <2> QED BY <2>1, TLSModeFacts, Zenon
<1>9. DefaultDatabase(a) = IF e = "postgres" THEN Database(a, e, p)
                                             ELSE [a EXCEPT !.engine = e]
  BY <1>6, <1>7 DEF DefaultDatabase, Database
<1> HIDE DEF p
<1>10. LET t == Database(a, e, p) IN
       /\ t \in MintSpecs /\ t.engine = e /\ t.postgres = p /\ t.orchard = a.orchard
       /\ e = a.engine /\ p = a.postgres => t = a
  BY <1>4, <1>8, DatabaseReplaced
<1>11. LET t == [a EXCEPT !.engine = e] IN
       t \in MintSpecs /\ t.engine = e /\ t.postgres = a.postgres /\ t.orchard = a.orchard
  BY <1>4 DEF MintSpecs
<1>12. e = a.engine => [a EXCEPT !.engine = e] = a
  BY <1>4 DEF MintSpecs
<1>13. PICK t : t = DefaultDatabase(a)
  OBVIOUS
<1>14. /\ t \in MintSpecs /\ t.engine = e /\ t.postgres \in {p, a.postgres}
       /\ t.orchard = a.orchard
       /\ e = a.engine /\ p = a.postgres => t = a
  BY <1>9, <1>10, <1>11, <1>12, <1>13
<1>15. Settled(s) => t = s
  BY <1>4, <1>5, <1>6, <1>8, <1>14, Blocks DEF Settled, PostgresBlock, Nil, Postgres
<1> QED BY <1>2, <1>4, <1>6, <1>8, <1>13, <1>14, <1>15

\* Management RPC and Orchard are replaced together.
Pair(s, m, o) == [[s EXCEPT !.managementRPC = m] EXCEPT !.orchard = o]

LEMMA PairReplaced ==
    ASSUME NEW s \in MintSpecs, NEW m \in RPCBlock, NEW o \in OrchardBlock
    PROVE  LET t == Pair(s, m, o)
           IN /\ t \in MintSpecs
              /\ t.orchard = o /\ t.managementRPC = m
              /\ t.engine = s.engine /\ t.postgres = s.postgres /\ t.backup = s.backup
              /\ m = s.managementRPC /\ o = s.orchard => t = s
BY DEF MintSpecs, OrchardBlock, RPCBlock, Pair

\* Whether a block is given; the enabled ones are.
LEMMA GivenBlocks ==
    ASSUME NEW s \in MintSpecs
    PROVE  /\ s.orchard.set => s.orchard \in Orchard(Nat)
           /\ s.backup.set => s.backup \in Backup
<1>1. ~Nil.set
  BY DEF Nil
<1> QED BY <1>1, Blocks DEF OrchardBlock, BackupBlock

\* defaultOrchard: it leaves nothing of an enabled Orchard to default.
LEMMA DefaultOrchardFacts ==
    ASSUME NEW s \in MintSpecs
    PROVE  LET t == DefaultOrchard(s) IN
           /\ t \in MintSpecs
           /\ t.engine = s.engine /\ t.postgres = s.postgres /\ t.backup = s.backup
           /\ On(t.orchard) => /\ t.managementRPC.set /\ t.orchard.image # ""
                               /\ t.orchard.rpc.set => t.orchard.rpc.port # 0 /\ t.orchard.rpc.mTLS # ""
           /\ RPCKept(s.orchard, t.orchard)
           /\ Settled(s) => t = s
<1>1. CASE ~On(s.orchard)
  <2>1. RPCKept(s.orchard, s.orchard)
    BY DEF RPCKept, RPCPortKept
  <2> QED BY <1>1, <2>1 DEF DefaultOrchard
<1>2. CASE On(s.orchard)
  <2> DEFINE o == s.orchard
             m == IF s.managementRPC.set THEN s.managementRPC
                  ELSE [set |-> TRUE, enabled |-> TRUE, address |-> "", port |-> 0,
                        tlsSecretRef |-> "nil"]
             v == IF ManagementRPCTLSEnabled([s EXCEPT !.managementRPC = m]) THEN "true" ELSE "false"
             i == Filled(o.image, DefaultOrchardImage(s.engine))
             n == FilledPort(o.port, 3321)
             r == DefaultOrchardRPC(o.rpc, v)
             c == [o EXCEPT !.image = i, !.port = n, !.rpc = r]
  <2>1. o \in Orchard(Nat) /\ o.enabled
    BY <1>2, GivenBlocks DEF On
  <2>2. o.image \in {"", "sqlite", "postgres"} /\ o.port \in Nat /\ o.rpc \in OrchardRPCBlock
    BY <2>1 DEF Orchard, OrchardRPCBlock
  <2>3. m \in RPCBlock /\ m.set /\ (s.managementRPC.set => m = s.managementRPC)
    <3>1. [set |-> TRUE, enabled |-> TRUE, address |-> "", port |-> 0,
           tlsSecretRef |-> "nil"] \in RPCBlock
      BY DEF RPCBlock, ManagementRPC, Refs, Hosts
    <3> QED BY <3>1, Blocks
  <2>4. DefaultOrchard(s) = Pair(s, m, c)
    BY <1>2 DEF DefaultOrchard, Pair
  <2>5. v \in {"false", "true"}
    OBVIOUS
  <2> HIDE DEF m, v
  <2>6. i \in {"sqlite", "postgres"} /\ (o.image # "" => i = o.image)
    BY <2>2 DEF Filled, DefaultOrchardImage
  <2>7. n \in Nat /\ n # 0 /\ (o.port # 0 => n = o.port)
    <3>1. o.port \in Nat
      BY <2>2
    <3> HIDE DEF o
    <3> QED BY <3>1, FilledPortFacts
  <2>8. /\ r \in OrchardRPCBlock
        /\ r.set => r.port # 0 /\ r.mTLS # ""
        /\ ~o.rpc.set \/ (o.rpc.port # 0 /\ o.rpc.mTLS # "") => r = o.rpc
        /\ r.set = o.rpc.set /\ RPCPortKept(o.rpc, r)
    BY <2>2, <2>5, OrchardRPCFacts, Zenon
  <2> HIDE DEF i, n, r
  <2>9. /\ c \in Orchard(Nat)
        /\ c.set = TRUE /\ c.enabled = o.enabled /\ c.image = i /\ c.port = n /\ c.rpc = r
        /\ i = o.image /\ n = o.port /\ r = o.rpc => c = o
    BY <2>1, <2>6, <2>7, <2>8 DEF Orchard, OrchardRPCBlock
  <2> HIDE DEF c
  <2>10. c \in OrchardBlock
    BY <2>9 DEF OrchardBlock
  <2>11. LET t == Pair(s, m, c)
         IN /\ t \in MintSpecs
            /\ t.orchard = c /\ t.managementRPC = m
            /\ t.engine = s.engine /\ t.postgres = s.postgres /\ t.backup = s.backup
            /\ m = s.managementRPC /\ c = s.orchard => t = s
    BY <2>3, <2>10, PairReplaced
  <2>12. ASSUME Settled(s) PROVE m = s.managementRPC /\ c = s.orchard
    <3>1. /\ s.managementRPC.set /\ o.image # "" /\ o.port # 0
          /\ ~o.rpc.set \/ (o.rpc.port # 0 /\ o.rpc.mTLS # "")
      BY <1>2, <2>12 DEF Settled, Linked, On
    <3> QED BY <2>3, <2>6, <2>7, <2>8, <2>9, <3>1
  <2>13. i # ""
    BY <2>6
  <2>14. RPCKept(s.orchard, c)
    <3>1. s.orchard.set
      BY <1>2 DEF On
    <3> QED BY <2>8, <2>9, <3>1 DEF RPCKept
  <2> QED BY <2>3, <2>4, <2>8, <2>9, <2>11, <2>12, <2>13, <2>14
<1> QED BY <1>1, <1>2

\* defaultOperational and defaultPaymentBackend fill ports and the schedule of
\* an enabled backup.
Operations(s, m, r, b) == [s EXCEPT !.managementRPC = m, !.prometheus = r, !.backup = b]

LEMMA OperationsReplaced ==
    ASSUME NEW s \in MintSpecs, NEW m \in RPCBlock, NEW r \in PrometheusBlock, NEW b \in BackupBlock
    PROVE  LET t == Operations(s, m, r, b)
           IN /\ t \in MintSpecs
              /\ t.managementRPC = m /\ t.backup = b
              /\ t.engine = s.engine /\ t.postgres = s.postgres /\ t.orchard = s.orchard
              /\ t.ldkNode = s.ldkNode
              /\ m = s.managementRPC /\ r = s.prometheus /\ b = s.backup => t = s
<1>1. Operations(s, m, r, b) \in MintSpecs
  BY DEF MintSpecs, RPCBlock, PrometheusBlock, BackupBlock, Operations
<1>2. LET t == Operations(s, m, r, b)
      IN t.managementRPC = m /\ t.backup = b
  BY DEF MintSpecs, Operations
<1>3. LET t == Operations(s, m, r, b)
      IN /\ t.engine = s.engine /\ t.postgres = s.postgres /\ t.orchard = s.orchard
         /\ t.ldkNode = s.ldkNode
  BY DEF MintSpecs, Operations
<1>4. m = s.managementRPC /\ r = s.prometheus /\ b = s.backup => Operations(s, m, r, b) = s
  BY DEF MintSpecs, Operations
<1> QED BY <1>1, <1>2, <1>3, <1>4

LEMMA DefaultOperationalFacts ==
    ASSUME NEW s \in MintSpecs
    PROVE  LET t == DefaultOperational(s) IN
           /\ t \in MintSpecs
           /\ t.engine = s.engine /\ t.postgres = s.postgres /\ t.orchard = s.orchard
           /\ t.managementRPC.set = s.managementRPC.set
           /\ On(t.backup) => t.backup.schedule
           /\ Settled(s) => t = s
<1> DEFINE m == IF On(s.managementRPC) THEN DefaultManagementRPC(s.managementRPC)
                                       ELSE s.managementRPC
           r == IF On(s.prometheus) THEN DefaultPrometheus(s.prometheus) ELSE s.prometheus
           b == IF On(s.backup) THEN [s.backup EXCEPT !.schedule = TRUE] ELSE s.backup
<1>1. DefaultOperational(s) = Operations(s, m, r, b)
  BY DEF DefaultOperational, Operations
<1>2. /\ m \in RPCBlock /\ m.set = s.managementRPC.set
      /\ RPCFilled(s.managementRPC) => m = s.managementRPC
  BY Blocks, RPCFacts
<1>3. /\ r \in PrometheusBlock
      /\ ~s.prometheus.set \/ s.prometheus.port # 0 => r = s.prometheus
  BY Blocks, PrometheusPort DEF DefaultPrometheus
<1>4. /\ b \in BackupBlock /\ (On(b) => b.schedule)
      /\ (On(s.backup) => s.backup.schedule) => b = s.backup
  <2>1. CASE ~On(s.backup)
    BY <2>1, Blocks
  <2>2. CASE On(s.backup)
    <3>1. s.backup \in Backup
      BY <2>2, GivenBlocks DEF On
    <3>2. b = [s.backup EXCEPT !.schedule = TRUE]
      BY <2>2
    <3>3. b \in Backup /\ b.schedule
      BY <3>1, <3>2 DEF Backup
    <3>4. s.backup.schedule => b = s.backup
      BY <3>1, <3>2 DEF Backup
    <3> HIDE DEF b
    <3> QED BY <2>2, <3>3, <3>4 DEF BackupBlock
  <2> QED BY <2>1, <2>2
<1> HIDE DEF m, r, b
<1>5. LET t == Operations(s, m, r, b)
      IN /\ t \in MintSpecs
         /\ t.managementRPC = m /\ t.backup = b
         /\ t.engine = s.engine /\ t.postgres = s.postgres /\ t.orchard = s.orchard
         /\ m = s.managementRPC /\ r = s.prometheus /\ b = s.backup => t = s
  BY <1>2, <1>3, <1>4, OperationsReplaced
<1>6. Settled(s) => m = s.managementRPC /\ r = s.prometheus /\ b = s.backup
  BY <1>2, <1>3, <1>4 DEF Settled, Linked
<1> QED BY <1>1, <1>2, <1>4, <1>5, <1>6

LEMMA DefaultPaymentBackendFacts ==
    ASSUME NEW s \in MintSpecs
    PROVE  LET t == DefaultPaymentBackend(s) IN
           /\ t \in MintSpecs
           /\ t.engine = s.engine /\ t.postgres = s.postgres /\ t.orchard = s.orchard
           /\ t.managementRPC = s.managementRPC /\ t.backup = s.backup
           /\ Settled(s) => t = s
<1> DEFINE k == IF On(s.ldkNode) THEN DefaultLDKNode(s.ldkNode) ELSE s.ldkNode
           g == DefaultGRPCProcessor(s.grpc, s.backends)
           t == [s EXCEPT !.ldkNode = k, !.grpc = g]
<1>1. k \in LDKBlock /\ (LDKFilled(s.ldkNode) => k = s.ldkNode)
  BY Blocks, LDKFacts
<1>2. g \in GRPCProcessor(Nat) /\ (GRPCFilled(s.grpc, s.backends) => g = s.grpc)
  BY Blocks, GRPCFacts
<1>3. DefaultPaymentBackend(s) = t
  BY DEF DefaultPaymentBackend
<1> HIDE DEF k, g
<1>4. t \in MintSpecs
  BY <1>1, <1>2 DEF MintSpecs, LDKBlock
<1>5. /\ t.engine = s.engine /\ t.postgres = s.postgres /\ t.orchard = s.orchard
      /\ t.managementRPC = s.managementRPC /\ t.backup = s.backup
  BY DEF MintSpecs
<1>6. k = s.ldkNode /\ g = s.grpc => t = s
  BY DEF MintSpecs
<1> HIDE DEF t
<1>7. Settled(s) => k = s.ldkNode /\ g = s.grpc
  BY <1>1, <1>2 DEF Settled
<1> QED BY <1>3, <1>4, <1>5, <1>6, <1>7

\* The mutating webhook keeps a spec in the schema, leaves nothing of an enabled
\* Orchard or backup to default, and does not touch a spec that is settled.
LEMMA DefaultFacts ==
    ASSUME NEW s \in MintSpecs
    PROVE  LET t == Default(s) IN
           /\ t \in MintSpecs
           /\ Linked(t)
           /\ t.postgres.set = s.postgres.set
           /\ s.postgres.set /\ s.postgres.tlsMode # "" => t.postgres = s.postgres
           /\ RPCKept(s.orchard, t.orchard)
           /\ Settled(s) => t = s
<1>1. PICK a : a = DefaultDatabase(DefaultMintInfo(s))
  OBVIOUS
<1>2. /\ a \in MintSpecs /\ a.postgres.set = s.postgres.set /\ a.orchard = s.orchard
      /\ s.postgres.set /\ s.postgres.tlsMode # "" => a.postgres = s.postgres
      /\ Settled(s) => a = s
  BY <1>1, DefaultDatabaseFacts
<1>3. PICK b : b = DefaultOrchard(a)
  OBVIOUS
<1>4. /\ b \in MintSpecs /\ b.postgres = a.postgres /\ RPCKept(a.orchard, b.orchard)
      /\ On(b.orchard) => /\ b.managementRPC.set /\ b.orchard.image # ""
                          /\ b.orchard.rpc.set => b.orchard.rpc.port # 0 /\ b.orchard.rpc.mTLS # ""
      /\ Settled(a) => b = a
  BY <1>2, <1>3, DefaultOrchardFacts
<1>5. PICK c : c = DefaultOperational(b)
  OBVIOUS
<1>6. /\ c \in MintSpecs /\ c.postgres = b.postgres /\ c.orchard = b.orchard
      /\ c.managementRPC.set = b.managementRPC.set
      /\ On(c.backup) => c.backup.schedule
      /\ Settled(b) => c = b
  BY <1>4, <1>5, DefaultOperationalFacts
<1>7. PICK d : d = DefaultPaymentBackend(c)
  OBVIOUS
<1>8. /\ d \in MintSpecs /\ d.postgres = c.postgres /\ d.orchard = c.orchard
      /\ d.managementRPC = c.managementRPC /\ d.backup = c.backup
      /\ Settled(c) => d = c
  BY <1>6, <1>7, DefaultPaymentBackendFacts
<1>9. Default(s) = d
  BY <1>1, <1>3, <1>5, <1>7 DEF Default
<1>10. Linked(d)
  BY <1>4, <1>6, <1>8 DEF Linked
<1>11. Settled(s) => d = s
  BY <1>2, <1>4, <1>6, <1>8
<1> QED BY <1>2, <1>4, <1>6, <1>8, <1>9, <1>10, <1>11

\* The schema settles what the webhook has linked, and does not touch a spec that
\* is settled.
LEMMA SchemaDefaultFacts ==
    ASSUME NEW s \in MintSpecs
    PROVE  LET t == SchemaDefault(s) IN
           /\ t \in MintSpecs
           /\ t.postgres.set = s.postgres.set
           /\ t.postgres.set => /\ t.postgres.tlsMode # ""
                                /\ s.postgres.tlsMode # "" => t.postgres.tlsMode = s.postgres.tlsMode
                                /\ s.postgres.tlsMode = "" => t.postgres.tlsMode = "require"
           /\ RPCKept(s.orchard, t.orchard)
           /\ Linked(s) => Settled(t)
           /\ Settled(s) => t = s
<1>1. PICK e \in Engines : e = Filled(s.engine, "postgres")
  BY Blocks DEF Filled, Engines
<1>2. PICK p \in PostgresBlock : p = DefaultTLSMode(s.postgres, "require")
  BY Blocks, TLSModeFacts
<1>3. PICK l \in Nat : l = DefaultListenPort(s.listenPort)
  BY Blocks DEF FilledPort, DefaultListenPort
<1>4. PICK m \in RPCBlock : m = DefaultManagementRPC(s.managementRPC)
  BY Blocks, RPCFacts
<1>5. PICK o \in OrchardBlock : o = DefaultOrchardPort(s.orchard)
  BY Blocks, OrchardPort DEF DefaultOrchardPort
<1>6. PICK k \in LDKBlock : k = DefaultLDKNode(s.ldkNode)
  BY Blocks, LDKFacts
<1>7. PICK r \in PrometheusBlock : r = DefaultPrometheus(s.prometheus)
  BY Blocks, PrometheusPort DEF DefaultPrometheus
<1>23. PICK g \in GRPCProcessor(Nat) : g = DefaultGRPCProcessor(s.grpc, s.backends)
  BY Blocks, GRPCFacts
<1> DEFINE u == Front(s, e, p, l, m)
           t == Back(u, o, k, r, g)
<1>8. SchemaDefault(s) = t
  BY <1>1, <1>2, <1>3, <1>4, <1>5, <1>6, <1>7, <1>23 DEF SchemaDefault, Front, Back
<1>9. /\ u \in MintSpecs
      /\ u.engine = e /\ u.postgres = p /\ u.listenPort = l /\ u.managementRPC = m
      /\ u.orchard = s.orchard /\ u.ldkNode = s.ldkNode /\ u.prometheus = s.prometheus
      /\ u.backup = s.backup /\ u.grpc = s.grpc /\ u.backends = s.backends
  BY FrontReplaced
<1>10. e = s.engine /\ p = s.postgres /\ l = s.listenPort /\ m = s.managementRPC => u = s
  BY DEF Front, MintSpecs
<1> HIDE DEF u
<1>11. /\ t \in MintSpecs
       /\ t.orchard = o /\ t.ldkNode = k /\ t.prometheus = r /\ t.grpc = g
       /\ t.engine = e /\ t.postgres = p /\ t.listenPort = l
       /\ t.managementRPC = m /\ t.backup = s.backup /\ t.backends = s.backends
  BY <1>9, BackReplaced
<1>12. o = s.orchard /\ k = s.ldkNode /\ r = s.prometheus /\ g = s.grpc => t = u
  BY <1>9 DEF Back, MintSpecs
<1> HIDE DEF t
<1>13. e # "" /\ (s.engine # "" => e = s.engine)
  BY <1>1 DEF Filled
<1>14. /\ p.set = s.postgres.set
       /\ p.set => /\ p.tlsMode # ""
                   /\ s.postgres.tlsMode # "" => p.tlsMode = s.postgres.tlsMode
                   /\ s.postgres.tlsMode = "" => p.tlsMode = "require"
       /\ ~s.postgres.set \/ s.postgres.tlsMode # "" => p = s.postgres
  <2>1. s.postgres \in PostgresBlock
    BY Blocks
  <2>2. LET c == DefaultTLSMode(s.postgres, "require") IN
        /\ c.set = s.postgres.set
        /\ c.set => c.tlsMode # "" /\ c.tlsMode = IF s.postgres.tlsMode = "" THEN "require"
                                                                             ELSE s.postgres.tlsMode
        /\ ~s.postgres.set \/ s.postgres.tlsMode # "" => c = s.postgres
    BY <2>1, TLSModeFacts, Zenon
  <2> QED BY <1>2, <2>2
<1>15. l # 0 /\ (s.listenPort # 0 => l = s.listenPort)
  BY <1>3, Blocks, FilledPortFacts DEF DefaultListenPort
<1>16. /\ m.set = s.managementRPC.set /\ RPCFilled(m)
       /\ RPCFilled(s.managementRPC) => m = s.managementRPC
  BY <1>4, Blocks, RPCFacts
<1>17. /\ o.set = s.orchard.set /\ (o.set => o.port # 0)
       /\ ~s.orchard.set \/ s.orchard.port # 0 => o = s.orchard
       /\ s.orchard.set => /\ o.enabled = s.orchard.enabled
                           /\ o.image = s.orchard.image /\ o.rpc = s.orchard.rpc
  BY <1>5, Blocks, OrchardPort DEF DefaultOrchardPort
<1>18. LDKFilled(k) /\ (LDKFilled(s.ldkNode) => k = s.ldkNode)
  BY <1>6, Blocks, LDKFacts
<1>24. GRPCFilled(g, s.backends) /\ (GRPCFilled(s.grpc, s.backends) => g = s.grpc)
  BY <1>23, Blocks, GRPCFacts
<1>25. RPCKept(s.orchard, o)
  BY <1>17 DEF RPCKept, RPCPortKept
<1>19. /\ r.set => r.port # 0
       /\ ~s.prometheus.set \/ s.prometheus.port # 0 => r = s.prometheus
  BY <1>7, Blocks, PrometheusPort DEF DefaultPrometheus
<1>20. Linked(s) => Linked(t)
  BY <1>11, <1>16, <1>17 DEF Linked, On
<1>21. Linked(s) => Settled(t)
  BY <1>11, <1>13, <1>14, <1>15, <1>16, <1>17, <1>18, <1>19, <1>20, <1>24 DEF Settled
<1>22. Settled(s) => t = s
  BY <1>10, <1>12, <1>13, <1>14, <1>15, <1>16, <1>17, <1>18, <1>19, <1>24 DEF Settled
<1> QED BY <1>8, <1>11, <1>14, <1>21, <1>22, <1>25

---------------------------------------------------------------------------
(* What is stored *)

\* Admission keeps a spec in the schema; with the webhook it leaves nothing to
\* default, and a second admission changes nothing.
LEMMA AdmittedFacts ==
    ASSUME NEW s \in MintSpecs
    PROVE  LET t == Admitted(s) IN
           /\ t \in MintSpecs
           /\ t.postgres.set = s.postgres.set
           /\ t.postgres.set => /\ t.postgres.tlsMode # ""
                                /\ s.postgres.tlsMode # "" => t.postgres.tlsMode = s.postgres.tlsMode
                                /\ s.postgres.tlsMode = "" => t.postgres.tlsMode = "require"
           /\ RPCKept(s.orchard, t.orchard)
           /\ hook => Settled(t)
           /\ hook /\ Settled(s) => t = s
<1>1. CASE ~hook
  <2>1. PICK t : t = SchemaDefault(s)
    OBVIOUS
  <2>2. Admitted(s) = t
    BY <1>1, <2>1 DEF Admitted
  <2>3. /\ t \in MintSpecs
        /\ t.postgres.set = s.postgres.set
        /\ t.postgres.set => /\ t.postgres.tlsMode # ""
                             /\ s.postgres.tlsMode # "" => t.postgres.tlsMode = s.postgres.tlsMode
                             /\ s.postgres.tlsMode = "" => t.postgres.tlsMode = "require"
        /\ RPCKept(s.orchard, t.orchard)
    BY <2>1, SchemaDefaultFacts
  <2> QED BY <1>1, <2>2, <2>3
<1>2. CASE hook
  <2>1. PICK a : a = SchemaDefault(s)
    OBVIOUS
  <2>2. PICK b : b = Default(a)
    OBVIOUS
  <2>3. PICK c : c = SchemaDefault(b)
    OBVIOUS
  <2>4. Admitted(s) = c
    BY <1>2, <2>1, <2>2, <2>3 DEF Admitted
  <2>5. /\ a \in MintSpecs
        /\ a.postgres.set = s.postgres.set
        /\ a.postgres.set => /\ a.postgres.tlsMode # ""
                             /\ s.postgres.tlsMode # "" => a.postgres.tlsMode = s.postgres.tlsMode
                             /\ s.postgres.tlsMode = "" => a.postgres.tlsMode = "require"
        /\ RPCKept(s.orchard, a.orchard)
        /\ Settled(s) => a = s
    BY <2>1, SchemaDefaultFacts
  <2>6. /\ b \in MintSpecs /\ Linked(b)
        /\ b.postgres.set = a.postgres.set
        /\ a.postgres.set /\ a.postgres.tlsMode # "" => b.postgres = a.postgres
        /\ RPCKept(a.orchard, b.orchard)
        /\ Settled(a) => b = a
    BY <2>2, <2>5, DefaultFacts
  <2>7. /\ c \in MintSpecs /\ Settled(c)
        /\ c.postgres.set = b.postgres.set
        /\ c.postgres.set /\ b.postgres.tlsMode # "" => c.postgres.tlsMode = b.postgres.tlsMode
        /\ RPCKept(b.orchard, c.orchard)
        /\ Settled(b) => c = b
    BY <2>3, <2>6, SchemaDefaultFacts
  <2>8. c.postgres.set => /\ c.postgres.tlsMode # ""
                          /\ s.postgres.tlsMode # "" => c.postgres.tlsMode = s.postgres.tlsMode
                          /\ s.postgres.tlsMode = "" => c.postgres.tlsMode = "require"
    BY <2>5, <2>6, <2>7
  <2>9. RPCKept(s.orchard, c.orchard)
    <3>1. RPCKept(s.orchard, a.orchard) /\ RPCKept(a.orchard, b.orchard)
          /\ RPCKept(b.orchard, c.orchard)
      BY <2>5, <2>6, <2>7
    <3> QED BY <3>1, RPCKeptAlong, Zenon
  <2> QED BY <2>4, <2>5, <2>6, <2>7, <2>8, <2>9
<1> QED BY <1>1, <1>2

\* What a write through the webhook leaves is settled as well as valid.
SettledInv ==
    /\ TypeOK
    /\ Screened
    /\ screened => \A s \in stored : Settled(s)

\* A TLS mode that no user chose is the schema's.
TLSInv ==
    /\ TypeOK
    /\ \A s \in stored :
          s.postgres.set => /\ s.postgres.tlsMode # ""
                            /\ "tlsMode" \in explicit \/ s.postgres.tlsMode = "require"

\* A port of Orchard's rpc block that no user chose is the webhook's.
RPCPortInv ==
    /\ TypeOK
    /\ \A s \in stored :
          s.orchard.set /\ s.orchard.rpc.set /\ s.orchard.rpc.port # 0 =>
              "rpcPort" \in explicit \/ s.orchard.rpc.port = 8086

\* The writes of a user are kept within the bound.
LEMMA OneMore == ASSUME NEW w \in 0..MaxWrites, w < MaxWrites PROVE w + 1 \in 0..MaxWrites
BY MaxWritesAssumption

\* A spec is stored by itself.
LEMMA StoredAlone ==
    ASSUME NEW s \in MintSpecs
    PROVE  {s} \subseteq MintSpecs /\ Cardinality({s}) <= 1
<1>1. Cardinality({s}) = 1
  BY FS_Singleton
<1> QED BY <1>1

LEMMA SubmitsTyped ==
    ASSUME TypeOK, NEW s, NEW old, Submits(s, old) PROVE TypeOK'
<1>1. s \in MintSpecs /\ writes < MaxWrites
  BY DEF Submits
<1>2. PICK t \in MintSpecs : t = Admitted(s)
  BY <1>1, AdmittedFacts
<1>3. stored' = {t}
  BY <1>2 DEF Submits
<1>4. stored' \subseteq MintSpecs /\ Cardinality(stored') <= 1
  BY <1>2, <1>3, StoredAlone
<1>5. hook' \in BOOLEAN /\ served' \in BOOLEAN /\ screened' \in BOOLEAN
  BY DEF TypeOK, Submits
<1>6. explicit' \subseteq {"tlsMode", "rpcPort"}
  <2>1. DOMAIN Chosen(s) = {"tlsMode", "rpcPort"}
    BY DEF Chosen
  <2>2. explicit' \subseteq DOMAIN Chosen(s)
    BY DEF Submits
  <2> QED BY <2>1, <2>2
<1>7. writes' \in 0..MaxWrites
  BY <1>1, OneMore DEF TypeOK, Submits
<1> QED BY <1>4, <1>5, <1>6, <1>7 DEF TypeOK

LEMMA TypeInit == Init => TypeOK
<1> SUFFICES ASSUME Init PROVE TypeOK
  OBVIOUS
<1>1. stored \subseteq MintSpecs /\ Cardinality(stored) <= 1
  <2>1. Cardinality({}) = 0
    BY FS_EmptySet
  <2> QED BY <2>1 DEF Init
<1>2. hook \in BOOLEAN /\ served \in BOOLEAN /\ screened \in BOOLEAN
  BY Zenon DEF Init
<1>3. explicit \subseteq {"tlsMode", "rpcPort"} /\ writes \in 0..MaxWrites
  BY MaxWritesAssumption DEF Init
<1> QED BY <1>1, <1>2, <1>3 DEF TypeOK

LEMMA TypeStep == TypeOK /\ [Next]_vars => TypeOK'
<1> SUFFICES ASSUME TypeOK, [Next]_vars PROVE TypeOK'
  OBVIOUS
<1>1. CASE UserCreates
  BY <1>1, SubmitsTyped DEF UserCreates
<1>2. CASE UserPatches
  BY <1>2, SubmitsTyped DEF UserPatches
<1>3. CASE UserDeletes
  <2>1. Cardinality({}) = 0
    BY FS_EmptySet
  <2>2. stored' \subseteq MintSpecs /\ Cardinality(stored') <= 1
    BY <1>3, <2>1 DEF UserDeletes
  <2>3. hook' \in BOOLEAN /\ served' \in BOOLEAN /\ screened' \in BOOLEAN
    BY <1>3, Zenon DEF UserDeletes, TypeOK
  <2>4. explicit' \subseteq {"tlsMode", "rpcPort"}
    BY <1>3 DEF UserDeletes
  <2>5. writes' \in 0..MaxWrites
    BY <1>3, OneMore DEF UserDeletes, TypeOK
  <2> QED BY <2>2, <2>3, <2>4, <2>5 DEF TypeOK
<1>4. CASE OperatorUpdates
  <2>1. PICK s \in stored : stored' = {Admitted(s)} /\ screened' = hook
                            /\ UNCHANGED <<hook, served, explicit, writes>>
    BY <1>4 DEF OperatorUpdates
  <2>2. s \in MintSpecs
    BY <2>1 DEF TypeOK
  <2>3. PICK t \in MintSpecs : t = Admitted(s)
    BY <2>2, AdmittedFacts
  <2>4. stored' \subseteq MintSpecs /\ Cardinality(stored') <= 1
    BY <2>1, <2>3, StoredAlone
  <2> QED BY <2>1, <2>4 DEF TypeOK
<1>5. CASE InstallWebhook
  BY <1>5 DEF InstallWebhook, TypeOK
<1>6. CASE UNCHANGED vars
  BY <1>6 DEF vars, TypeOK
<1> QED
  BY <1>1, <1>2, <1>3, <1>4, <1>5, <1>6 DEF Next

\* The store holds at most one spec, and defaulting never takes it out of the
\* schema, whatever is created, patched and written back.
THEOREM TypeCorrect == Spec => []TypeOK
BY TypeInit, TypeStep, PTL DEF Spec

\* Every write through the webhook stores a settled spec.
LEMMA SettledStep == SettledInv /\ [Next]_vars => SettledInv'
<1> SUFFICES ASSUME SettledInv, [Next]_vars PROVE SettledInv'
  OBVIOUS
<1>1. TypeOK' /\ Screened'
  BY TypeStep, ScreenedStep DEF SettledInv
<1> DEFINE I == screened => \A s \in stored : Settled(s)
<1>2. ASSUME NEW s \in MintSpecs, stored' = {Admitted(s)}, screened' = hook PROVE I'
  <2>1. hook => Settled(Admitted(s))
    BY <1>2, AdmittedFacts
  <2> QED BY <1>2, <2>1
<1>3. ASSUME NEW s, NEW old, Submits(s, old) PROVE I'
  BY <1>2, <1>3 DEF Submits
<1>4. I'
  <2>1. CASE UserCreates
    BY <1>3, <2>1 DEF UserCreates
  <2>2. CASE UserPatches
    BY <1>3, <2>2 DEF UserPatches
  <2>3. CASE UserDeletes
    BY <2>3 DEF UserDeletes
  <2>4. CASE OperatorUpdates
    <3>1. PICK s \in stored : stored' = {Admitted(s)} /\ screened' = hook
      BY <2>4 DEF OperatorUpdates
    <3>2. s \in MintSpecs
      BY <3>1 DEF SettledInv, TypeOK
    <3> QED BY <1>2, <3>1, <3>2
  <2>5. CASE InstallWebhook \/ UNCHANGED vars
    BY <2>5 DEF SettledInv, InstallWebhook, vars
  <2> QED BY <2>1, <2>2, <2>3, <2>4, <2>5 DEF Next
<1> QED BY <1>1, <1>4 DEF SettledInv

\* The operator's own Update of a screened mint is never refused and never
\* changes the spec: defaulting is idempotent on everything the webhook stores,
\* in whatever order blocks were added, emptied and removed.
THEOREM FinalizerCorrect == Spec => []FinalizerUpdatesPass
<1>1. Init => SettledInv
  BY TypeInit DEF Init, SettledInv, Screened
<1>2. SettledInv => FinalizerUpdatesPass
  <2> SUFFICES ASSUME SettledInv, NEW s \in stored, hook, screened
               PROVE  Accepted(Admitted(s)) /\ Admitted(s) = s
    BY DEF FinalizerUpdatesPass
  <2>1. s \in MintSpecs /\ Settled(s) /\ ValidateCashuMint(s) /\ served
    BY DEF SettledInv, TypeOK, Screened
  <2>2. Admitted(s) = s
    BY <2>1, AdmittedFacts
  <2> QED BY <2>1, <2>2 DEF Accepted
<1> QED
  BY <1>1, <1>2, SettledStep, PTL DEF Spec

\* A value that a request carries is either new, and then its user's choice, or
\* the one that was stored.
LEMMA ChoiceKept ==
    ASSUME NEW s, NEW old, NEW f \in {"tlsMode", "rpcPort"}, Submits(s, old),
           Chosen(s)[f] # {}, f \notin explicit'
    PROVE  f \notin explicit /\ \E o \in old : Chosen(o)[f] = Chosen(s)[f]
<1>1. f \in DOMAIN Chosen(s)
  BY DEF Chosen
<1> QED BY <1>1 DEF Submits

LEMMA SubmitsTLS ==
    ASSUME TLSInv, NEW s, NEW old \in SUBSET stored, Submits(s, old) PROVE TLSInv'
<1>1. s \in MintSpecs
  BY DEF Submits
<1>2. PICK t : t = Admitted(s)
  OBVIOUS
<1>3. /\ t.postgres.set = s.postgres.set
      /\ t.postgres.set => /\ t.postgres.tlsMode # ""
                           /\ s.postgres.tlsMode # "" => t.postgres.tlsMode = s.postgres.tlsMode
                           /\ s.postgres.tlsMode = "" => t.postgres.tlsMode = "require"
  BY <1>1, <1>2, AdmittedFacts
<1>4. ASSUME t.postgres.set, s.postgres.tlsMode # "", "tlsMode" \notin explicit'
      PROVE  s.postgres.tlsMode = "require"
  <2>1. Chosen(s)["tlsMode"] = {s.postgres.tlsMode}
    BY <1>3, <1>4 DEF Chosen, When
  <2>2. "tlsMode" \notin explicit /\ \E o \in old : Chosen(o)["tlsMode"] = Chosen(s)["tlsMode"]
    <3>1. Chosen(s)["tlsMode"] # {}
      BY <2>1
    <3> QED BY <1>4, <3>1, ChoiceKept, Zenon
  <2>3. PICK o \in old : Chosen(o)["tlsMode"] = {s.postgres.tlsMode}
    BY <2>1, <2>2
  <2>4. Chosen(o)["tlsMode"] = When(o.postgres.set, {o.postgres.tlsMode} \ {""})
    BY DEF Chosen
  <2>5. o.postgres.set /\ o.postgres.tlsMode = s.postgres.tlsMode
    BY <2>3, <2>4 DEF When
  <2> QED BY <2>2, <2>3, <2>5 DEF TLSInv
<1>5. stored' = {t}
  BY <1>2 DEF Submits
<1>6. TypeOK'
  BY SubmitsTyped DEF TLSInv
<1> QED BY <1>3, <1>4, <1>5, <1>6 DEF TLSInv

LEMMA TLSStep == TLSInv /\ [Next]_vars => TLSInv'
<1> SUFFICES ASSUME TLSInv, [Next]_vars PROVE TLSInv'
  OBVIOUS
<1>1. TypeOK'
  BY TypeStep DEF TLSInv
<1>2. CASE UserCreates
  <2>1. PICK s : Submits(s, {})
    BY <1>2 DEF UserCreates
  <2>2. {} \in SUBSET stored
    OBVIOUS
  <2> QED BY <2>1, <2>2, SubmitsTLS
<1>3. CASE UserPatches
  <2>1. PICK s \in stored : \E a : Submits(a, {s})
    BY <1>3 DEF UserPatches
  <2>2. {s} \in SUBSET stored
    OBVIOUS
  <2> QED BY <2>1, <2>2, SubmitsTLS
<1>4. CASE UserDeletes
  BY <1>1, <1>4 DEF UserDeletes, TLSInv
<1>5. CASE OperatorUpdates
  <2>1. PICK s \in stored : stored' = {Admitted(s)} /\ UNCHANGED explicit
    BY <1>5 DEF OperatorUpdates
  <2>2. s \in MintSpecs
    BY <2>1 DEF TLSInv, TypeOK
  <2>3. PICK t : t = Admitted(s)
    OBVIOUS
  <2>4. /\ t.postgres.set = s.postgres.set
        /\ t.postgres.set => /\ t.postgres.tlsMode # ""
                             /\ s.postgres.tlsMode # "" => t.postgres.tlsMode = s.postgres.tlsMode
                             /\ s.postgres.tlsMode = "" => t.postgres.tlsMode = "require"
    BY <2>2, <2>3, AdmittedFacts
  <2> QED BY <1>1, <2>1, <2>3, <2>4 DEF TLSInv
<1>6. CASE InstallWebhook \/ UNCHANGED vars
  BY <1>1, <1>6 DEF InstallWebhook, vars, TLSInv
<1> QED
  BY <1>2, <1>3, <1>4, <1>5, <1>6 DEF Next

\* A mint that left the provisioned PostgreSQL for an external one requires TLS
\* of it unless a user said otherwise: the "disable" of defaultPostgres is never
\* stored, because the schema fills in "require" before the webhook runs.
THEOREM ExternalTLSCorrect == Spec => []ExternalTLSRequired
<1>1. Init => TLSInv
  BY TypeInit DEF Init, TLSInv
<1>2. TLSInv => ExternalTLSRequired
  BY DEF TLSInv, ExternalTLSRequired, ConfigTLSMode, Filled
<1> QED
  BY <1>1, <1>2, TLSStep, PTL DEF Spec

LEMMA SubmitsRPCPort ==
    ASSUME RPCPortInv, NEW s, NEW old \in SUBSET stored, Submits(s, old) PROVE RPCPortInv'
<1>1. s \in MintSpecs
  BY DEF Submits
<1>2. PICK t : t = Admitted(s)
  OBVIOUS
<1>3. RPCKept(s.orchard, t.orchard)
  BY <1>1, <1>2, AdmittedFacts
<1>4. ASSUME t.orchard.set, t.orchard.rpc.set, t.orchard.rpc.port # 0, "rpcPort" \notin explicit'
      PROVE  t.orchard.rpc.port = 8086
  <2>1. s.orchard.set /\ s.orchard.rpc.set
    BY <1>3, <1>4 DEF RPCKept
  <2>2. CASE s.orchard.rpc.port = 0
    BY <1>3, <1>4, <2>1, <2>2 DEF RPCKept, RPCPortKept
  <2>3. CASE s.orchard.rpc.port # 0
    <3>1. Chosen(s)["rpcPort"] = {s.orchard.rpc.port}
      BY <2>1, <2>3 DEF Chosen, When
    <3>2. "rpcPort" \notin explicit /\ \E o \in old : Chosen(o)["rpcPort"] = Chosen(s)["rpcPort"]
      BY <1>4, <3>1, ChoiceKept
    <3>3. PICK o \in old : Chosen(o)["rpcPort"] = {s.orchard.rpc.port}
      BY <3>1, <3>2
    <3>4. Chosen(o)["rpcPort"] = When(o.orchard.set /\ o.orchard.rpc.set, {o.orchard.rpc.port} \ {0})
      BY DEF Chosen
    <3>5. /\ o.orchard.set /\ o.orchard.rpc.set /\ o.orchard.rpc.port # 0
          /\ o.orchard.rpc.port = s.orchard.rpc.port
      BY <3>3, <3>4 DEF When
    <3>6. s.orchard.rpc.port = 8086
      BY <3>2, <3>3, <3>5 DEF RPCPortInv
    <3> QED BY <1>3, <2>1, <2>3, <3>6 DEF RPCKept, RPCPortKept
  <2> QED BY <2>2, <2>3
<1>5. stored' = {t}
  BY <1>2 DEF Submits
<1>6. TypeOK'
  BY SubmitsTyped DEF RPCPortInv
<1> QED BY <1>4, <1>5, <1>6 DEF RPCPortInv

LEMMA RPCPortStep == RPCPortInv /\ [Next]_vars => RPCPortInv'
<1> SUFFICES ASSUME RPCPortInv, [Next]_vars PROVE RPCPortInv'
  OBVIOUS
<1>1. TypeOK'
  BY TypeStep DEF RPCPortInv
<1>2. CASE UserCreates
  <2>1. PICK s : Submits(s, {})
    BY <1>2 DEF UserCreates
  <2>2. {} \in SUBSET stored
    OBVIOUS
  <2> QED BY <2>1, <2>2, SubmitsRPCPort
<1>3. CASE UserPatches
  <2>1. PICK s \in stored : \E a : Submits(a, {s})
    BY <1>3 DEF UserPatches
  <2>2. {s} \in SUBSET stored
    OBVIOUS
  <2> QED BY <2>1, <2>2, SubmitsRPCPort
<1>4. CASE UserDeletes
  BY <1>1, <1>4 DEF UserDeletes, RPCPortInv
<1>5. CASE OperatorUpdates
  <2>1. PICK s \in stored : stored' = {Admitted(s)} /\ UNCHANGED explicit
    BY <1>5 DEF OperatorUpdates
  <2>2. s \in MintSpecs
    BY <2>1 DEF RPCPortInv, TypeOK
  <2>3. PICK t : t = Admitted(s)
    OBVIOUS
  <2>4. RPCKept(s.orchard, t.orchard)
    BY <2>2, <2>3, AdmittedFacts
  <2>5. ASSUME t.orchard.set, t.orchard.rpc.set, t.orchard.rpc.port # 0, "rpcPort" \notin explicit
        PROVE  t.orchard.rpc.port = 8086
    <3>1. s.orchard.set /\ s.orchard.rpc.set
      BY <2>4, <2>5 DEF RPCKept
    <3>2. CASE s.orchard.rpc.port = 0
      BY <2>4, <2>5, <3>1, <3>2 DEF RPCKept, RPCPortKept
    <3>3. CASE s.orchard.rpc.port # 0
      <4>1. s.orchard.rpc.port = 8086
        BY <2>1, <2>5, <3>1, <3>3 DEF RPCPortInv
      <4> QED BY <2>4, <3>1, <3>3, <4>1 DEF RPCKept, RPCPortKept
    <3> QED BY <3>2, <3>3
  <2> QED BY <1>1, <2>1, <2>3, <2>5 DEF RPCPortInv
<1>6. CASE InstallWebhook \/ UNCHANGED vars
  BY <1>1, <1>6 DEF InstallWebhook, vars, RPCPortInv
<1> QED
  BY <1>2, <1>3, <1>4, <1>5, <1>6 DEF Next

\* Where each part of the pod listens, one listener at a time.
LEMMA ListenersOf ==
    ASSUME NEW s, NEW l
    PROVE  l \in Listeners(s) <=>
             \/ l = <<"api", FilledPort(s.listenPort, 8085), "any">>
             \/ /\ On(s.ldkNode)
                /\ \/ l = <<"ldk", DefaultedPort(s.ldkNode, 8090), "any">>
                   \/ l = <<"webserver", WebserverPort(s),
                            Filled(s.ldkNode.webserverHost, "loopback")>>
             \/ /\ On(s.managementRPC)
                /\ l = <<"management", ManagementPort(s),
                         Filled(s.managementRPC.address, "loopback")>>
             \/ On(s.prometheus) /\ l = <<"metrics", DefaultedPort(s.prometheus, 9000), "any">>
             \/ On(s.orchard) /\ l = <<"orchard", DefaultedPort(s.orchard, 3321), "any">>
BY DEF Listeners, InfoListeners, LDKNodeListeners, ManagementRPCListeners,
       PrometheusListeners, OrchardListeners, DefaultedPort, WebserverPort, ManagementPort, When

LEMMA ContainerPortsOf ==
    ASSUME NEW s, NEW p
    PROVE  p \in ContainerPorts(s) <=>
             \/ p = <<"api", FilledPort(s.listenPort, 8085)>>
             \/ On(s.prometheus) /\ p = <<"metrics", DefaultedPort(s.prometheus, 9000)>>
             \/ /\ On(s.ldkNode)
                /\ \/ p = <<"ldk", DefaultedPort(s.ldkNode, 8090)>>
                   \/ p = <<"webserver", WebserverPort(s)>>
             \/ SidecarRuns(s) /\ p = <<"grpc", GRPCProcessorPort(s)>>
             \/ On(s.orchard) /\ p = <<"orchard", DefaultedPort(s.orchard, 3321)>>
BY DEF ContainerPorts, MintContainerPorts, LDKContainerPorts, SidecarContainerPorts,
       OrchardContainerPorts, When

\* Services, Ingresses, containers, config.toml, environment and Orchard agree on
\* every port, with the exceptions that RoutesResolve names.  All but one part
\* hold of any spec whatever; that Orchard finds the management RPC depends on
\* how the port of its rpc block came about.
THEOREM RoutesCorrect == Spec => []RoutesResolve
<1>1. Init => RPCPortInv
  BY TypeInit DEF Init, RPCPortInv
<1>2. ASSUME NEW s PROVE ServicesReachPorts(s)
  <2>1. /\ \A r \in ServicePorts(s) \cup OrchardServicePorts(s) :
              <<r[2], r[1]>> \in ContainerPorts(s)
        /\ <<IngressBackend(s), "api">> \in ServicePorts(s)
        /\ On(s.orchard) => <<OrchardIngressBackend(s), "orchard">> \in OrchardServicePorts(s)
    BY DEF ServicePorts, OrchardServicePorts, ContainerPorts, MintContainerPorts,
           LDKContainerPorts, OrchardContainerPorts, IngressBackend, OrchardIngressBackend, When
  <2>2. ASSUME "podMonitor" \in Generated(s)
        PROVE  \E r \in ContainerPorts(s) : r[1] = "metrics"
    <3>1. <<"metrics", DefaultedPort(s.prometheus, 9000)>> \in ContainerPorts(s)
      BY <2>2, GeneratedKinds DEF ContainerPorts, MintContainerPorts, When
    <3> QED BY <3>1
  <2> QED BY <2>1, <2>2 DEF ServicesReachPorts
<1>3. ASSUME NEW s PROVE PortsListened(s)
  <2>1. {<<l[1], l[2]>> : l \in Listeners(s)}
            = {p \in ContainerPorts(s) : p[1] # "grpc"}
              \cup {<<"management", p>> : p \in ManagementServicePorts(s)}
    <3> DEFINE a == FilledPort(s.listenPort, 8085)
               k == DefaultedPort(s.ldkNode, 8090)
               w == WebserverPort(s)
               h == Filled(s.ldkNode.webserverHost, "loopback")
               m == ManagementPort(s)
               i == Filled(s.managementRPC.address, "loopback")
               r == DefaultedPort(s.prometheus, 9000)
               o == DefaultedPort(s.orchard, 3321)
    <3>1. \A l : l \in Listeners(s) <=>
              \/ l = <<"api", a, "any">>
              \/ On(s.ldkNode) /\ (l = <<"ldk", k, "any">> \/ l = <<"webserver", w, h>>)
              \/ On(s.managementRPC) /\ l = <<"management", m, i>>
              \/ On(s.prometheus) /\ l = <<"metrics", r, "any">>
              \/ On(s.orchard) /\ l = <<"orchard", o, "any">>
      BY ListenersOf
    <3>2. \A p : p \in ContainerPorts(s) <=>
              \/ p = <<"api", a>>
              \/ On(s.prometheus) /\ p = <<"metrics", r>>
              \/ On(s.ldkNode) /\ (p = <<"ldk", k>> \/ p = <<"webserver", w>>)
              \/ SidecarRuns(s) /\ p = <<"grpc", GRPCProcessorPort(s)>>
              \/ On(s.orchard) /\ p = <<"orchard", o>>
      BY ContainerPortsOf
    <3>3. \A p : p \in ManagementServicePorts(s) <=> On(s.managementRPC) /\ p = m
      BY DEF ManagementServicePorts, ManagementPort, When
    <3> HIDE DEF a, k, w, h, m, i, r, o
    <3>4. ASSUME NEW l \in Listeners(s)
          PROVE  \/ <<l[1], l[2]>> \in ContainerPorts(s) /\ l[1] # "grpc"
                 \/ l[1] = "management" /\ l[2] \in ManagementServicePorts(s)
      BY <3>1, <3>2, <3>3
    <3>5. ASSUME NEW p \in ContainerPorts(s), p[1] # "grpc"
          PROVE  \E l \in Listeners(s) : p = <<l[1], l[2]>>
      <4>1. CASE p = <<"api", a>>
        <5>1. <<"api", a, "any">> \in Listeners(s)
          BY <3>1, <4>1
        <5> WITNESS <<"api", a, "any">> \in Listeners(s)
        <5> QED BY <4>1
      <4>2. CASE On(s.prometheus) /\ p = <<"metrics", r>>
        <5>1. <<"metrics", r, "any">> \in Listeners(s)
          BY <3>1, <4>2
        <5> WITNESS <<"metrics", r, "any">> \in Listeners(s)
        <5> QED BY <4>2
      <4>3. CASE On(s.ldkNode) /\ p = <<"ldk", k>>
        <5>1. <<"ldk", k, "any">> \in Listeners(s)
          BY <3>1, <4>3
        <5> WITNESS <<"ldk", k, "any">> \in Listeners(s)
        <5> QED BY <4>3
      <4>4. CASE On(s.ldkNode) /\ p = <<"webserver", w>>
        <5>1. <<"webserver", w, h>> \in Listeners(s)
          BY <3>1, <4>4
        <5> WITNESS <<"webserver", w, h>> \in Listeners(s)
        <5> QED BY <4>4
      <4>5. CASE On(s.orchard) /\ p = <<"orchard", o>>
        <5>1. <<"orchard", o, "any">> \in Listeners(s)
          BY <3>1, <4>5
        <5> WITNESS <<"orchard", o, "any">> \in Listeners(s)
        <5> QED BY <4>5
      <4> QED BY <3>2, <3>5, <4>1, <4>2, <4>3, <4>4, <4>5
    <3>6. ASSUME NEW p \in ManagementServicePorts(s)
          PROVE  \E l \in Listeners(s) : <<"management", p>> = <<l[1], l[2]>>
      <4>1. p = m
        BY <3>3
      <4>2. <<"management", m, i>> \in Listeners(s)
        BY <3>1, <3>3
      <4> WITNESS <<"management", m, i>> \in Listeners(s)
      <4> QED BY <4>1
    <3> QED BY <3>4, <3>5, <3>6
  <2>2. CoreEnvListeners(s) \cup ManagementRPCEnvListeners(s) \subseteq Listeners(s)
    BY DEF CoreEnvListeners, ManagementRPCEnvListeners, Listeners, InfoListeners,
           ManagementRPCListeners, DefaultedPort
  <2> QED BY <2>1, <2>2 DEF PortsListened
<1>4. ASSUME NEW s \in MintSpecs PROVE LoopbackOnly(s)
  <2> DEFINE a == FilledPort(s.listenPort, 8085)
             k == DefaultedPort(s.ldkNode, 8090)
             w == WebserverPort(s)
             h == Filled(s.ldkNode.webserverHost, "loopback")
             m == ManagementPort(s)
             i == Filled(s.managementRPC.address, "loopback")
             r == DefaultedPort(s.prometheus, 9000)
             o == DefaultedPort(s.orchard, 3321)
  <2>1. \A l : l \in Listeners(s) <=>
            \/ l = <<"api", a, "any">>
            \/ On(s.ldkNode) /\ (l = <<"ldk", k, "any">> \/ l = <<"webserver", w, h>>)
            \/ On(s.managementRPC) /\ l = <<"management", m, i>>
            \/ On(s.prometheus) /\ l = <<"metrics", r, "any">>
            \/ On(s.orchard) /\ l = <<"orchard", o, "any">>
    BY ListenersOf
  <2>2. /\ On(s.ldkNode) => s.ldkNode.webserverHost \in {"", "any", "loopback"}
        /\ On(s.managementRPC) => s.managementRPC.address \in {"", "any", "loopback"}
    <3>1. ~Nil.set
      BY DEF Nil
    <3> QED BY <3>1 DEF MintSpecs, LDKNode, ManagementRPC, Hosts, On
  <2>3. /\ On(s.ldkNode) => (h = "loopback" <=> s.ldkNode.webserverHost # "any")
        /\ On(s.managementRPC) => (i = "loopback" <=> s.managementRPC.address # "any")
    BY <2>2 DEF Filled
  <2> HIDE DEF a, k, w, h, m, i, r, o
  <2> DEFINE Closed == {l[1] : l \in {l \in Listeners(s) : l[3] = "loopback"}}
  <2>4. ASSUME NEW l \in Listeners(s), l[3] = "loopback"
        PROVE  \/ l[1] = "webserver" /\ On(s.ldkNode) /\ s.ldkNode.webserverHost # "any"
               \/ l[1] = "management" /\ On(s.managementRPC) /\ s.managementRPC.address # "any"
    BY <2>1, <2>3, <2>4
  <2>5. ASSUME On(s.ldkNode), s.ldkNode.webserverHost # "any" PROVE "webserver" \in Closed
    <3>1. <<"webserver", w, h>> \in Listeners(s) /\ h = "loopback"
      BY <2>1, <2>3, <2>5
    <3> QED BY <3>1
  <2>6. ASSUME On(s.managementRPC), s.managementRPC.address # "any" PROVE "management" \in Closed
    <3>1. <<"management", m, i>> \in Listeners(s) /\ i = "loopback"
      BY <2>1, <2>3, <2>6
    <3> QED BY <3>1
  <2>7. \A x : x \in Closed <=>
            \/ x = "webserver" /\ On(s.ldkNode) /\ s.ldkNode.webserverHost # "any"
            \/ x = "management" /\ On(s.managementRPC) /\ s.managementRPC.address # "any"
    BY <2>4, <2>5, <2>6
  <2>8. LoopbackOnly(s) <=>
            Closed = When(On(s.ldkNode) /\ s.ldkNode.webserverHost # "any", {"webserver"})
                \cup When(On(s.managementRPC) /\ s.managementRPC.address # "any", {"management"})
    BY DEF LoopbackOnly
  <2> HIDE DEF Closed
  <2> QED BY <2>7, <2>8 DEF When
<1>5. ASSUME RPCPortInv, NEW s \in stored PROVE PeersFound(s)
  <2>1. SidecarRuns(s) /\ ~s.grpc.address =>
            <<"grpc", GRPCProcessorPort(s)>> \in ContainerPorts(s)
    BY DEF ContainerPorts, SidecarContainerPorts, When
  <2>2. <<"api", OrchardMintAPIPort(s)>> \in ContainerPorts(s)
    BY DEF ContainerPorts, MintContainerPorts, OrchardMintAPIPort
  <2>3. ASSUME On(s.orchard), On(s.managementRPC), "rpcPort" \notin explicit
        PROVE  OrchardMintRPCPort(s) = IF s.orchard.rpc.set /\ s.orchard.rpc.port # 0
                                       THEN 8086 ELSE ManagementPort(s)
    <3>1. s.orchard.set /\ s.managementRPC.set
      BY <2>3 DEF On
    <3>2. s.orchard.rpc.set /\ s.orchard.rpc.port # 0 => s.orchard.rpc.port = 8086
      BY <1>5, <2>3, <3>1 DEF RPCPortInv
    <3> QED BY <3>1, <3>2 DEF OrchardMintRPCPort
  <2> QED BY <2>1, <2>2, <2>3 DEF PeersFound
<1>6. RPCPortInv => RoutesResolve
  BY <1>2, <1>3, <1>4, <1>5 DEF RoutesResolve, RPCPortInv, TypeOK
<1> QED
  BY <1>1, <1>6, RPCPortStep, PTL DEF Spec
=============================================================================
