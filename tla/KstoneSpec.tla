----------------------------- MODULE KstoneSpec -----------------------------
(***************************************************************************)
(* The specification the kstone provider writes into the operator's        *)
(* resource etcdclusters.etcd.tkestack.io and how it later decides whether *)
(* that resource still says what the user wants                            *)
(* (pkg/clusterprovider/providers/kstone/kstone.go).  EtcdCluster sees all *)
(* of this through ViewOf: here is what the view is made of.               *)
(*                                                                         *)
(* A version is its number and whether it is written with a leading "v".   *)
(* A list of quantities that is nil is not in DOMAIN resources, a quantity *)
(* that is missing not in the domain of its list.  The labels,             *)
(* annotations, affinity, tolerations, certificate names and the disk type *)
(* are one value, "rest": all are copied and none is compared.             *)
(***************************************************************************)
CONSTANTS
  Sizes,       \* member counts
  Numbers,     \* version numbers
  DiskSizes,   \* in Gi
  Lists,       \* lists of quantities, as functions of the names they give
  Schemes,     \* the "scheme" annotation, "https" or not
  Envs,        \* lists of environment variables, the empty one included
  Images,      \* repositories, "" included
  Secrets,     \* names of CA secrets, "" included
  Rests

Kinds == {"requests", "limits"}
Names == {"cpu", "memory"}

\* What of the user's EtcdCluster the provider reads.
ClusterSpecs ==
  [ size : Sizes, version : [v : BOOLEAN, number : Numbers], disk : DiskSizes,
    resources : UNION { [K -> Lists] : K \in SUBSET Kinds },
    env : Envs, scheme : Schemes, secret : Secrets, image : Images, rest : Rests ]

\* getDesiredResource: a quantity that is not there reads as "0".
DesiredResource(spec, k, n) ==
  IF k \in DOMAIN spec.resources /\ n \in DOMAIN spec.resources[k]
  THEN spec.resources[k][n] ELSE "0"

\* generateEtcdSpec: a list of quantities is written whole or not at all.
Generate(spec) ==
  [ size |-> spec.size, version |-> spec.version, storage |-> <<spec.disk, "Gi">>,
    resources |-> [ k \in DOMAIN spec.resources |->
                      [n \in Names |-> DesiredResource(spec, k, n)] ],
    env |-> spec.env,
    args |-> {"logger=zap"}
               \cup (IF spec.scheme = "https" THEN {"client-cert-auth=true"} ELSE {}),
    autoTLS |-> IF spec.scheme = "https" THEN {spec.secret} ELSE {},
    image |-> spec.image, rest |-> spec.rest ]

\* updateEtcdSpec: nothing of the old specification stays.
UpdateSpec(old, spec) == Generate(spec)

\* getOldResource
OldResource(old, k, n) ==
  IF k \in DOMAIN old.resources THEN old.resources[k][n] ELSE "0"

\* Mutant of ResourceEqual: only the requests are compared.
RequestsEqual(old, spec) ==
  \A n \in Names : OldResource(old, "requests", n) = DesiredResource(spec, "requests", n)

\* resourceEqual
ResourceEqual(old, spec) ==
  \A k \in Kinds, n \in Names : OldResource(old, k, n) = DesiredResource(spec, k, n)

\* Equal: "v3.4" is "3.4", the storage is compared without its unit.
Equal(old, spec) ==
  /\ old.size = spec.size
  /\ old.version.number = spec.version.number
  /\ old.storage[1] = spec.disk
  /\ ResourceEqual(old, spec)
  /\ old.env = spec.env

-----------------------------------------------------------------------------
(* What Equal and Update promise each other *)

\* Equal finds nothing to do in what Update has just written, whatever the
\* operator's resource said before: the controller does not update for ever.
Settles ==
  \A old, new \in ClusterSpecs : Equal(UpdateSpec(Generate(old), new), new)

Amount(spec, k, n) == DesiredResource(spec, k, n)

View(spec) ==
  << spec.size, spec.version.number, spec.disk, spec.env,
     [k \in Kinds |-> [n \in Names |-> Amount(spec, k, n)]] >>

\* An edit is noticed exactly when it changes the view: how the version is
\* spelt, an explicit zero and everything in "rest", the image, the scheme and
\* the secret do not count.
NoticesView ==
  \A old, new \in ClusterSpecs : Equal(Generate(old), new) <=> View(old) = View(new)
=============================================================================
