--------------------------- MODULE CashuMintSpec ---------------------------
(***************************************************************************)
(* The spec of a CashuMint as the API server admits it: the defaults of    *)
(* the CRD schema, the mutating webhook (Default) and the validating       *)
(* webhook (validateCashuMint) of api/v1alpha1.  Blocks behind a pointer   *)
(* are records with set = FALSE when nil: reading a field of a nil block   *)
(* is an error here as it is in Go.  Only the fields that decide an        *)
(* object, a reference or a rejection are kept; a BOOLEAN says whether a   *)
(* string or reference is given, "" and 0 are the zero values that         *)
(* defaulting fills.  Of the addresses that are listened on, those are     *)
(* kept whose default is the loopback interface.                           *)
(***************************************************************************)
EXTENDS Naturals, FiniteSets

Nil == [set |-> FALSE]
On(b) == b.set /\ b.enabled

Engines == {"", "postgres", "sqlite", "redb"}
Backends == {"lnd", "cln", "lnbits", "fakeWallet", "grpcProcessor"}
Refs == {"nil", "unnamed", "named"}

\* The address of a listener: not given, one that the pod's network reaches, or
\* 127.0.0.1.
Hosts == {"", "any", "loopback"}

Postgres == [set : {TRUE}, autoProvision : BOOLEAN, url : BOOLEAN,
             urlSecretRef : BOOLEAN, tlsMode : {"", "disable", "prefer", "require"}]

Sidecar == [set : {TRUE}, enabled : BOOLEAN, image : BOOLEAN, workingDir : BOOLEAN,
            enableTLS : BOOLEAN, tlsSecretRef : BOOLEAN]

GRPCProcessor(ports) == [address : BOOLEAN, port : ports, tlsSecretRef : BOOLEAN,
                         sidecar : Sidecar \cup {Nil}]

ManagementRPC(ports) ==
    [set : {TRUE}, enabled : BOOLEAN, address : Hosts, port : ports, tlsSecretRef : Refs]

Ingress == [set : {TRUE}, enabled : BOOLEAN, host : BOOLEAN, tls : BOOLEAN,
            certManager : BOOLEAN, issuerName : BOOLEAN]

OrchardRPC(ports) == [set : {TRUE}, port : ports, mTLS : {"", "false", "true"}]

\* The services Orchard may be connected to; rpc: their host and port are given.
Bitcoin == [set : {TRUE}, rpc : BOOLEAN, userRef : BOOLEAN, passwordRef : BOOLEAN]

Lightning == [set : {TRUE}, rpc : BOOLEAN, type : {"lnd", "cln"},
              refs : SUBSET {"macaroon", "cert", "key", "ca"}]

TaprootAssets == [set : {TRUE}, rpc : BOOLEAN, refs : SUBSET {"macaroon", "cert"}]

Orchard(ports) ==
    [set : {TRUE}, enabled : BOOLEAN, image : {"", "sqlite", "postgres"},
     port : ports, setupKey : BOOLEAN, rpc : OrchardRPC(ports) \cup {Nil},
     bitcoin : Bitcoin \cup {Nil}, lightning : Lightning \cup {Nil},
     taproot : TaprootAssets \cup {Nil}, ai : Refs, ingress : Ingress \cup {Nil}]

Backup == [set : {TRUE}, enabled : BOOLEAN, schedule : BOOLEAN, s3 : BOOLEAN]

LDKNode(ports) == [set : {TRUE}, enabled : BOOLEAN, port : ports,
                   webserverHost : Hosts, webserverPort : ports]

Prometheus(ports) == [set : {TRUE}, enabled : BOOLEAN, port : ports]

MintSpecs ==
    [engine : Engines, postgres : Postgres \cup {Nil},
     listenPort : Nat, autoMnemonic : BOOLEAN, mnemonicRef : BOOLEAN,
     backends : SUBSET Backends, lndRefs : SUBSET {"macaroon", "cert"},
     grpc : GRPCProcessor(Nat), ldkNode : LDKNode(Nat) \cup {Nil},
     managementRPC : ManagementRPC(Nat) \cup {Nil}, orchard : Orchard(Nat) \cup {Nil},
     prometheus : Prometheus(Nat) \cup {Nil}, ingress : Ingress \cup {Nil},
     backup : Backup \cup {Nil}]

---------------------------------------------------------------------------
(* Helpers of cashumint_types.go *)

DefaultOrchardImage(engine) == IF engine = "postgres" THEN "postgres" ELSE "sqlite"

ManagementRPCTLSEnabled(s) ==
    On(s.managementRPC) /\ (On(s.orchard) \/ s.managementRPC.tlsSecretRef # "nil")

\* "" unless exactly one backend is configured.
ActiveBackend(s) ==
    IF Cardinality(s.backends) = 1 THEN CHOOSE b \in s.backends : TRUE ELSE ""

---------------------------------------------------------------------------
(* Defaulting *)

Filled(value, default) == IF value = "" THEN default ELSE value
FilledPort(port, default) == IF port = 0 THEN default ELSE port
DefaultPort(b, port) == IF b.set THEN [b EXCEPT !.port = FilledPort(@, port)] ELSE b

DefaultTLSMode(p, mode) == IF p.set THEN [p EXCEPT !.tlsMode = Filled(@, mode)] ELSE p

DefaultListenPort(port) == FilledPort(port, 8085)
DefaultOrchardPort(b) == DefaultPort(b, 3321)
DefaultPrometheus(b) == DefaultPort(b, 9000)

DefaultManagementRPC(b) ==
    IF b.set THEN [b EXCEPT !.address = Filled(@, "loopback"), !.port = FilledPort(@, 8086)]
             ELSE b

DefaultLDKNode(b) ==
    IF b.set THEN [b EXCEPT !.port = FilledPort(@, 8090),
                            !.webserverHost = Filled(@, "loopback"),
                            !.webserverPort = FilledPort(@, 8888)]
             ELSE b

\* The block of the gRPC processor is there when it is a backend.
DefaultGRPCProcessor(g, backends) ==
    IF "grpcProcessor" \in backends THEN [g EXCEPT !.port = FilledPort(@, 50051)] ELSE g

\* Faulty: an engine that the schema's enum does not know.
SchemaDefaultTypo(s) == [s EXCEPT !.engine = Filled(@, "postgresql")]

\* Faulty: tlsMode has no default in the schema.
SchemaDefaultNoTLS(s) == [s EXCEPT !.engine = Filled(@, "postgres")]

\* The schema's defaults: the API server fills in what a manifest that has the
\* block leaves out, before the webhook is called.  The webhook fills in the
\* same values again, in enabled blocks.
SchemaDefault(s) ==
    [s EXCEPT !.engine = Filled(@, "postgres"),
              !.postgres = DefaultTLSMode(@, "require"),
              !.listenPort = DefaultListenPort(@),
              !.managementRPC = DefaultManagementRPC(@),
              !.orchard = DefaultOrchardPort(@),
              !.ldkNode = DefaultLDKNode(@),
              !.prometheus = DefaultPrometheus(@),
              !.grpc = DefaultGRPCProcessor(@, s.backends)]

DefaultMintInfo(s) == [s EXCEPT !.listenPort = DefaultListenPort(@)]

\* defaultDatabase and defaultPostgres
DefaultDatabase(s) ==
    LET e == Filled(s.engine, "postgres")
        tls == IF s.postgres.set /\ s.postgres.autoProvision THEN "disable" ELSE "require"
    IN IF e = "postgres" THEN [s EXCEPT !.engine = e, !.postgres = DefaultTLSMode(@, tls)]
                         ELSE [s EXCEPT !.engine = e]

\* Faulty: a missing rpc block is added, and its fields are left to the next write.
DefaultOrchardRPCLate(r, mTLS) ==
    IF r.set THEN [r EXCEPT !.port = FilledPort(@, 8086), !.mTLS = Filled(@, mTLS)]
             ELSE [set |-> TRUE, port |-> 0, mTLS |-> ""]

\* The rpc block of Orchard.
DefaultOrchardRPC(r, mTLS) ==
    IF r.set THEN [r EXCEPT !.port = FilledPort(@, 8086), !.mTLS = Filled(@, mTLS)] ELSE r

\* defaultOrchard: management RPC is switched on before mTLS is inferred.
DefaultOrchard(s) ==
    LET rpc == IF s.managementRPC.set THEN s.managementRPC
               ELSE [set |-> TRUE, enabled |-> TRUE, address |-> "", port |-> 0,
                     tlsSecretRef |-> "nil"]
        s1 == [s EXCEPT !.managementRPC = rpc]
        mTLS == IF ManagementRPCTLSEnabled(s1) THEN "true" ELSE "false"
        o == s.orchard
    IN IF On(o)
       THEN [s1 EXCEPT !.orchard =
                [o EXCEPT !.image = Filled(o.image, DefaultOrchardImage(s.engine)),
                          !.port = FilledPort(o.port, 3321),
                          !.rpc = DefaultOrchardRPC(o.rpc, mTLS)]]
       ELSE s

\* defaultOperational and the blocks it delegates to
DefaultOperational(s) ==
    [s EXCEPT !.managementRPC = IF On(@) THEN DefaultManagementRPC(@) ELSE @,
              !.prometheus = IF On(@) THEN DefaultPrometheus(@) ELSE @,
              !.backup = IF On(@) THEN [@ EXCEPT !.schedule = TRUE] ELSE @]

DefaultPaymentBackend(s) ==
    [s EXCEPT !.ldkNode = IF On(@) THEN DefaultLDKNode(@) ELSE @,
              !.grpc = DefaultGRPCProcessor(@, s.backends)]

Default(s) ==
    DefaultPaymentBackend(DefaultOperational(DefaultOrchard(
        DefaultDatabase(DefaultMintInfo(s)))))

---------------------------------------------------------------------------
(* Validation *)

ValidateIngressConfig(i) == On(i) => i.host /\ (i.tls /\ i.certManager => i.issuerName)

ValidateManagementRPC(s) ==
    s.managementRPC.set => s.managementRPC.tlsSecretRef # "unnamed"

ValidateDatabase(s) ==
    s.engine = "postgres" =>
        /\ s.postgres.set
        /\ s.postgres.autoProvision \/ s.postgres.url \/ s.postgres.urlSecretRef
        /\ ~(s.postgres.url /\ s.postgres.urlSecretRef)

ValidatePaymentBackend(s) ==
    LET sidecar == On(s.grpc.sidecar) IN
    /\ Cardinality(s.backends) = 1
    /\ "grpcProcessor" \in s.backends =>
          /\ sidecar \/ s.grpc.address
          /\ sidecar => /\ s.grpc.sidecar.image
                        /\ s.grpc.sidecar.enableTLS => s.grpc.sidecar.tlsSecretRef

\* Faulty: any PostgreSQL will do.
ValidateBackupAnyServer(s) ==
    On(s.backup) => s.engine = "postgres" /\ s.backup.schedule /\ s.backup.s3

ValidateBackup(s) ==
    On(s.backup) => /\ s.engine = "postgres"
                    /\ s.postgres.set /\ s.postgres.autoProvision
                    /\ s.backup.schedule /\ s.backup.s3

\* Faulty: Orchard's mTLS is not compared with the management RPC.
ValidateOrchardMintSkipped(s) == TRUE

\* Orchard may not claim mTLS towards a management RPC that is not served.
ValidateOrchardMint(s) ==
    s.orchard.rpc.set /\ s.orchard.rpc.mTLS = "true" => On(s.managementRPC)

\* Faulty: only the address of bitcoind is asked for.
ValidateOrchardBitcoinAddress(b) == b.set => b.rpc

ValidateOrchardBitcoin(b) == b.set => b.rpc /\ b.userRef /\ b.passwordRef

ValidateOrchardLightning(l) ==
    l.set => /\ l.rpc
             /\ IF l.type = "lnd" THEN {"macaroon", "cert"} \subseteq l.refs
                                  ELSE {"key", "ca"} \subseteq l.refs

ValidateOrchardTaprootAssets(t) == t.set => t.rpc /\ t.refs = {"macaroon", "cert"}

ValidateOrchardAI(ai) == ai # "unnamed"

ValidateOrchard(s) ==
    On(s.orchard) => /\ s.engine # "redb"
                     /\ s.orchard.setupKey
                     /\ ValidateIngressConfig(s.orchard.ingress)
                     /\ ValidateOrchardMint(s)
                     /\ ValidateOrchardBitcoin(s.orchard.bitcoin)
                     /\ ValidateOrchardLightning(s.orchard.lightning)
                     /\ ValidateOrchardTaprootAssets(s.orchard.taproot)
                     /\ ValidateOrchardAI(s.orchard.ai)

ValidateCashuMint(s) ==
    /\ ValidateDatabase(s)
    /\ ValidatePaymentBackend(s)
    /\ ValidateIngressConfig(s.ingress)
    /\ ValidateBackup(s)
    /\ ValidateManagementRPC(s)
    /\ ValidateOrchard(s)
=============================================================================
