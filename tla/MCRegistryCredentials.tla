----------------------- MODULE MCRegistryCredentials -----------------------
(* Small instances of RegistryCredentials for TLC.                         *)
EXTENDS RegistryCredentials, TLC

(* Names as the service has them: no region is a prefix of another.        *)
OneRegion == {<<"us", "-", "central1">>}
OneRegistry == {<<"r1">>}
TwoRegistries == {<<"r1">>, <<"r2">>}

(* Names the resource pattern allows, whose cache keys coincide.           *)
NestedRegions == {<<"us">>, <<"us", "-", "central1">>}
NestedRegistries == {<<"fleet">>, <<"central1", "-", "fleet">>}

AnyGoroutine == Permutations(Goroutines)
=============================================================================
