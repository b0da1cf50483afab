CONSTANTS
    Manifests <- AllManifests
    Patches <- AllPatches
    MaxWrites = 3
SPECIFICATION Spec
INVARIANTS TypeOK MountsHaveVolumes EnvSourcesGiven FilesMounted FinalizerUpdatesPass
           ReferencesGenerated RoutesResolve AdmittedBackupRuns ExternalTLSRequired
