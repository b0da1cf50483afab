CONSTANTS
    Manifests <- AllManifests
    Patches <- AllPatches
    MaxWrites = 3
SPECIFICATION Spec
INVARIANTS OrchardEnablesRPC
