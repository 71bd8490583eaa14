------------------------- MODULE UserStoreProperties -------------------------
(***************************************************************************)
(* What the users and tokens of kstone-api must do, whatever requests run  *)
(* at the same time.                                                       *)
(***************************************************************************)
EXTENDS UserStore

TypeOK ==
  /\ store \in Maps /\ hashes \in Hashes \ {0}
  /\ keyFile \in Keys \cup {"garbled", "missing"}
  /\ {signer, verifier} \subseteq Keys \cup {"garbled", "unread"}
  /\ tokens \subseteq Tokens
  /\ pc \in [Requests -> Steps] /\ op \in [Requests -> Ops]
  /\ who \in [Requests -> Users] /\ bearer \in [Requests -> Tokens \cup {NoToken}]
  /\ copy \in [Requests -> Maps]
  /\ fresh \subseteq Requests /\ revoked \subseteq Requests /\ edits \in 0 .. MaxEdits

(* Every store operation is one step of the UserDirectory, although it is  *)
(* a Get, a look at the copy and an Update of the whole map among those of *)
(* other requests: no write undoes another, the guards hold for the map    *)
(* that is replaced (the last user stays, nobody is added twice), and a    *)
(* password always gets a hash no user has (store.go:85-149).              *)
Directory == INSTANCE UserDirectory WITH directory <- store
RefinesDirectory == Directory!DirectorySpec

(* A token that no longer carries the stored hash of its user never does   *)
(* again, not even when the old password is set anew or the user is added  *)
(* again: hashes are salted (jwt.go:102, helper.go:100).  Only a client that *)
(* writes the ConfigMap itself can bring an old hash back.                 *)
TokensStayRevoked ==
  [][\A t \in tokens : store[t.user] # t.hash =>
        store'[t.user] # t.hash \/ edits' # edits]_vars

(* A request that came with a revoked token never gets past the middleware *)
(* (auth.go:33-36, jwt.go:97-104) unless somebody restores the old hash in  *)
(* the ConfigMap itself; one whose token is revoked while it is being       *)
(* served may still go on.                                                  *)
RevokedChangeNothing ==
  edits = 0 => \A r \in revoked : pc[r] = "auth"

(* A token a request was let in with stays good until its user's entry     *)
(* changes, it expires or the process ends, also when the mounted key is   *)
(* replaced in between (jwt.go:65-88).  While the key file is missing      *)
(* every token is refused (bearertoken.go:60-63); it is accepted again as  *)
(* soon as any file is there.                                              *)
Trusted(t) == verifier \in Keys /\ Verifies(t) /\ Current(t)
Accepts(t) == CanRead /\ Trusted(t)
AcceptedStaysAccepted ==
  [][\A t \in tokens : Trusted(t) =>
        \/ IF CanRead' THEN Accepts(t)' ELSE Trusted(t)'
        \/ store'[t.user] # t.hash
        \/ t \notin tokens'
        \/ verifier' = "unread"]_vars
=============================================================================
