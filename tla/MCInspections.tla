---------------------------- MODULE MCInspections ----------------------------
(***************************************************************************)
(* The instance of the inspections that TLC checks.  Two of the three      *)
(* members share a host; of the keys that may be stored one begins another *)
(* and one is Kubernetes' compact_rev_key.                                 *)
(***************************************************************************)
EXTENDS InspectionsProperties

NodeNumbers == 1 .. 3
NodeHosts   == <<"h1", "h1", "h2">>
StoredKeys  == {<<1>>, <<1, 1>>, <<2>>, <<99>>}
=============================================================================
