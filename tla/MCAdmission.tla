---------------------------- MODULE MCAdmission ----------------------------
(* Manifests and edits that make the interesting cases of MintAdmission small. *)
EXTENDS MintAdmission, TLC

\* A manifest that gives only what it must.
Minimal ==
    [engine |-> "", postgres |-> Nil, listenPort |-> 0,
     autoMnemonic |-> TRUE, mnemonicRef |-> FALSE,
     backends |-> {"fakeWallet"}, lndRefs |-> {},
     grpc |-> [address |-> FALSE, port |-> 0, tlsSecretRef |-> FALSE, sidecar |-> Nil],
     ldkNode |-> Nil, managementRPC |-> Nil, orchard |-> Nil,
     prometheus |-> Nil, ingress |-> Nil, backup |-> Nil]

Provisioned == [set |-> TRUE, autoProvision |-> TRUE, url |-> FALSE,
                urlSecretRef |-> FALSE, tlsMode |-> ""]

WithOrchard == [set |-> TRUE, enabled |-> TRUE, image |-> "", port |-> 0,
                setupKey |-> TRUE, rpc |-> Nil, bitcoin |-> Nil, lightning |-> Nil,
                taproot |-> Nil, ai |-> "nil", ingress |-> Nil]

Exposed == [set |-> TRUE, enabled |-> TRUE, host |-> TRUE, tls |-> TRUE,
            certManager |-> TRUE, issuerName |-> TRUE]

UserPorts == {0, 9001}
UserHosts == {"", "any"}

\* Orchard with its rpc block, next to a management RPC that is given too.
OrchardManifest ==
    [Minimal EXCEPT !.engine = "sqlite",
                    !.managementRPC = [set |-> TRUE, enabled |-> FALSE, address |-> "",
                                       port |-> 0, tlsSecretRef |-> "nil"],
                    !.orchard = [WithOrchard EXCEPT
                        !.rpc = [set |-> TRUE, port |-> 0, mTLS |-> ""]]]

\* A provisioned PostgreSQL that is backed up.
BackedUpManifest ==
    [Minimal EXCEPT !.postgres = Provisioned,
                    !.backup = [set |-> TRUE, enabled |-> TRUE, schedule |-> FALSE,
                                s3 |-> TRUE]]

AllManifests ==
    {[Minimal EXCEPT !.postgres = Provisioned], Minimal, OrchardManifest, BackedUpManifest}

DatabasePatches ==
    (<<"engine">> :> {"postgres", "sqlite", "redb"})
    @@ (<<"postgres">> :> Postgres \cup {Nil})
    @@ (<<"postgres", "autoProvision">> :> BOOLEAN)
    @@ (<<"postgres", "url">> :> BOOLEAN)
    @@ (<<"backup">> :> Backup \cup {Nil})
    @@ (<<"autoMnemonic">> :> {FALSE})
    @@ (<<"mnemonicRef">> :> {TRUE})

OrchardPatches ==
    (<<"managementRPC">> :> {Nil} \cup [set : {TRUE}, enabled : BOOLEAN, address : UserHosts,
                                         port : UserPorts, tlsSecretRef : Refs])
    @@ (<<"managementRPC", "enabled">> :> BOOLEAN)
    @@ (<<"orchard">> :> {WithOrchard, Nil})
    @@ (<<"orchard", "enabled">> :> BOOLEAN)
    @@ (<<"orchard", "port">> :> UserPorts)
    @@ (<<"orchard", "setupKey">> :> {FALSE})
    @@ (<<"orchard", "rpc">> :> OrchardRPC(UserPorts) \cup {Nil})
    @@ (<<"orchard", "bitcoin">> :> {Nil} \cup [set : {TRUE}, rpc : {TRUE}, userRef : {TRUE},
                                              passwordRef : BOOLEAN])
    @@ (<<"orchard", "lightning">> :>
            {[set |-> TRUE, rpc |-> TRUE, type |-> "lnd", refs |-> {"macaroon", "cert"}],
             [set |-> TRUE, rpc |-> TRUE, type |-> "cln", refs |-> {"key", "ca", "cert"}]})
    @@ (<<"orchard", "taproot">> :>
            [set : {TRUE}, rpc : {TRUE}, refs : {{"macaroon"}, {"macaroon", "cert"}}])
    @@ (<<"orchard", "ai">> :> {"unnamed", "named"})
    @@ (<<"orchard", "ingress">> :> {Exposed, [Exposed EXCEPT !.certManager = FALSE]})

BackendPatches ==
    (<<"backends">> :> {{"lnd"}, {"lnbits"}, {"grpcProcessor"}, {"lnd", "grpcProcessor"}})
    @@ (<<"lndRefs">> :> SUBSET {"macaroon", "cert"})
    @@ (<<"grpc">> :> [address : BOOLEAN, port : {9001}, tlsSecretRef : BOOLEAN,
                       sidecar : {Nil} \cup [set : {TRUE}, enabled : BOOLEAN, image : {TRUE},
                                             workingDir : {TRUE}, enableTLS : BOOLEAN,
                                             tlsSecretRef : BOOLEAN]])
    @@ (<<"ldkNode">> :> {Nil} \cup [set : {TRUE}, enabled : {TRUE}, port : UserPorts,
                                    webserverHost : UserHosts, webserverPort : {0, 9002}])
    @@ (<<"ldkNode", "enabled">> :> BOOLEAN)
    @@ (<<"prometheus">> :> Prometheus(UserPorts) \cup {Nil})
    @@ (<<"listenPort">> :> UserPorts)
    @@ (<<"ingress">> :> {Nil, Exposed})

AllPatches == DatabasePatches @@ OrchardPatches @@ BackendPatches
=============================================================================
