----------------------------- MODULE UserStore -----------------------------
(***************************************************************************)
(* The users of kstone-api and the tokens that speak for them              *)
(* (pkg/authentication, the middleware and the handlers of pkg/router):    *)
(* concurrent requests that each read the users' ConfigMap, look at it,    *)
(* and write it back whole; tokens that carry the password hash they were  *)
(* issued for; and the two singletons that read the signing key once.      *)
(*                                                                         *)
(* A bcrypt hash is salted, so no two hashes are equal even if the         *)
(* passwords are: a hash is the number of its generation.  An Update       *)
(* succeeds only for a copy whose resourceVersion is current; fresh says   *)
(* whether a copy is.  A panic in a handler is recovered by gin and        *)
(* answered 500: the request ends.                                         *)
(***************************************************************************)
EXTENDS Integers, FiniteSets

CONSTANTS
  Users,       \* the names a request may carry
  Admin,       \* the user of the ConfigMap kstone is installed with
  Keys,        \* signing keys
  Requests,    \* handlers running at once
  LastHash,    \* hashes are numbered 1..LastHash, 0 is no entry (bound)
  MaxTokens,   \* tokens that have not expired (bound)
  MaxEdits,    \* writes around the store (bound)
  Faults       \* which disturbances may happen, see FaultKinds

FaultKinds == {"api", "key", "restart"}

ASSUME UsersAssumption ==
  /\ Admin \in Users
  /\ LastHash \in Nat \ {0} /\ MaxTokens \in Nat /\ MaxEdits \in Nat
  /\ Keys \cap {"missing", "garbled", "unread"} = {}
  /\ Faults \subseteq FaultKinds

Hashes == 0 .. LastHash
Maps   == [Users -> Hashes]
Tokens == [user : Users, hash : Hashes, key : Keys]
NoMap   == [u \in Users |-> 0]
NoToken == [user |-> Admin, hash |-> 0, key |-> "unread"]

VARIABLES
  store,     \* the data of the users' ConfigMap
  hashes,    \* hashes generated
  keyFile,   \* what DefaultKeyPath holds: a key, "garbled", or "missing"
  signer,    \* the key of the TokenGenerator singleton
  verifier,  \* the key of the TokenAuthenticator singleton
  tokens,    \* the tokens issued that have not expired
  pc,        \* where a request is
  op,        \* what it asks for
  who,       \* the user it is about
  bearer,    \* the token it came with, until it is checked
  copy,      \* the ConfigMap it has read
  fresh,     \* the requests whose copy is current
  revoked,   \* the requests that came with a token revoked already (history)
  edits      \* writes of the ConfigMap around the store (history)

keyVars == <<keyFile, signer, verifier>>
reqVars == <<pc, op, who, bearer, copy>>
vars == <<store, hashes, keyFile, signer, verifier, tokens, pc, op, who, bearer, copy,
          fresh, revoked, edits>>

May(fault) == fault \in Faults

Writes == {"add", "delete", "update"}
Ops   == Writes \cup {"list", "proxy"}
Steps == {"idle", "auth", "get", "put", "proxy"}

Init ==
  /\ store = [u \in Users |-> IF u = Admin THEN 1 ELSE 0]
  /\ hashes = 1
  /\ keyFile \in Keys /\ signer = "unread" /\ verifier = "unread"
  /\ tokens = {}
  /\ pc = [r \in Requests |-> "idle"] /\ op = [r \in Requests |-> "list"]
  /\ who = [r \in Requests |-> Admin] /\ bearer = [r \in Requests |-> NoToken]
  /\ copy = [r \in Requests |-> NoMap] /\ fresh = {} /\ revoked = {} /\ edits = 0

-----------------------------------------------------------------------------
(* Keys, hashes and tokens *)

\* Mutant of ReadOnce: the key is parsed anew for every request.
ReadAlways(singleton) == keyFile

\* initTokenInstance: the first call parses the file, and whatever it finds stays
\* until the process ends.
ReadOnce(singleton) == IF singleton = "unread" THEN keyFile ELSE singleton

\* What a request that needs a key does first: with a missing file it ends there.
CanRead == keyFile # "missing"

\* Mutant of NewHash: without a salt, a password set again has its old hash again.
UnsaltedHash == 1

\* GeneratePasswordHash.
NewHash == hashes + 1

\* UserGet; 0 is its error for a name that is not there.
UserGet(u) == store[u]

\* AuthenticateToken: the claims name the password hash that is stored now.
Current(t) == UserGet(t.user) # 0 /\ UserGet(t.user) = t.hash

\* NewTokenGenerator is a singleton like initTokenInstance.
Generator == ReadOnce(signer)

\* GenerateToken signs the name and the hash.
Signed(u, key) == [user |-> u, hash |-> UserGet(u), key |-> key]

\* info: the signature verifies; a token that has expired is not in tokens.
Verifies(t) == t \in tokens /\ ReadOnce(verifier) = t.key

-----------------------------------------------------------------------------
(* Requests.  Every action is one call to the API server with the code      *)
(* around it.                                                               *)

\* The handler returns, or panics and is recovered.
Reply(r) ==
  /\ pc' = [pc EXCEPT ![r] = "idle"] /\ op' = [op EXCEPT ![r] = "list"]
  /\ who' = [who EXCEPT ![r] = Admin] /\ bearer' = [bearer EXCEPT ![r] = NoToken]
  /\ copy' = [copy EXCEPT ![r] = NoMap]

\* LoginRequest with the right password: UserGet, CheckPassword, GenerateToken.
\* A login that is refused changes nothing; neither does one whose key is garbled,
\* but for the singleton.
Login(u) ==
  /\ UserGet(u) # 0 /\ CanRead
  /\ signer' = Generator
  /\ tokens' = IF Generator \in Keys THEN tokens \cup {Signed(u, Generator)} ELSE tokens
  /\ Cardinality(tokens') <= MaxTokens
  /\ UNCHANGED <<store, hashes, keyFile, verifier, reqVars, fresh, revoked, edits>>

\* The router hands a private route to Auth first, which reads the key, verifies
\* the signature, and only then looks the user up.
Private(r, t, o, u) ==
  /\ pc[r] = "idle"
  /\ verifier' = IF CanRead THEN ReadOnce(verifier) ELSE verifier
  /\ IF ~ CanRead \/ ~ Verifies(t)
     THEN UNCHANGED <<pc, op, who, bearer, revoked>>
     ELSE /\ pc' = [pc EXCEPT ![r] = "auth"] /\ op' = [op EXCEPT ![r] = o]
          /\ who' = IF o \in Writes THEN [who EXCEPT ![r] = u] ELSE who
          /\ bearer' = [bearer EXCEPT ![r] = t]
          /\ revoked' = IF Current(t) THEN revoked ELSE revoked \cup {r}
  /\ UNCHANGED <<store, hashes, keyFile, signer, tokens, copy, fresh, edits>>

\* The request goes on to its handler.
Enter(r) ==
  /\ pc' = [pc EXCEPT ![r] = IF op[r] = "proxy" THEN "proxy" ELSE "get"]
  /\ bearer' = [bearer EXCEPT ![r] = NoToken]
  /\ UNCHANGED <<op, who, copy>>

\* Mutant of Authorize: the middleware does not abort a request it refuses.
AuthorizeAll(r) == Enter(r)

\* AuthenticateToken looks the user up; Auth aborts what it refuses.
Authorize(r) ==
  \/ Current(bearer[r]) /\ Enter(r)
  \/ (~ Current(bearer[r]) \/ May("api")) /\ Reply(r)

Authenticate(r) ==
  /\ pc[r] = "auth"
  /\ Authorize(r)
  /\ revoked' = IF pc'[r] = "idle" THEN revoked \ {r} ELSE revoked
  /\ UNCHANGED <<store, hashes, keyVars, tokens, fresh, edits>>

\* UserList: the names that have an entry.
Entries(map) == {u \in Users : map[u] # 0}

\* What UserAdd, UserChangePassword and UserDelete ask of the map they have read.
\* UserAdd panics on the nil map of a ConfigMap without data.
MayAdd(u, map)    == map[u] = 0 /\ Entries(map) # {}
MayChange(u, map) == map[u] # 0
MayDelete(u, map) == map[u] # 0 /\ Cardinality(Entries(map)) # 1

MayWrite(r, map) ==
  \/ op[r] = "add" /\ MayAdd(who[r], map)
  \/ op[r] = "update" /\ MayChange(who[r], map)
  \/ op[r] = "delete" /\ MayDelete(who[r], map)

\* The Get of a store operation; for UserList it is all there is.
StoreGet(r) ==
  /\ pc[r] = "get"
  /\ \/ /\ MayWrite(r, store)
        /\ pc' = [pc EXCEPT ![r] = "put"]
        /\ copy' = [copy EXCEPT ![r] = store] /\ fresh' = fresh \cup {r}
        /\ UNCHANGED <<op, who, bearer, revoked>>
     \/ /\ ~ MayWrite(r, store) \/ May("api")
        /\ Reply(r) /\ revoked' = revoked \ {r} /\ UNCHANGED fresh
  /\ UNCHANGED <<store, hashes, keyVars, tokens, edits>>

\* The map a request sends back.
Edited(r, map) == [map EXCEPT ![who[r]] = IF op[r] = "delete" THEN 0 ELSE NewHash]

\* Mutant of Accepted: the Update names no resourceVersion.
AcceptedAlways(r) == TRUE

\* The API server takes an Update of the current resourceVersion only.
Accepted(r) == r \in fresh

\* The Update.  With an "api" fault it fails, or is made and its answer lost.
\* The handler hashed the password before the Get; nothing depends on when.
StorePut(r) ==
  /\ pc[r] = "put"
  /\ \/ /\ Accepted(r)
        /\ hashes' = IF op[r] = "delete" THEN hashes ELSE hashes + 1
        /\ hashes' <= LastHash
        /\ store' = Edited(r, copy[r]) /\ fresh' = {}
     \/ (~ Accepted(r) \/ May("api")) /\ UNCHANGED <<store, hashes>> /\ fresh' = fresh \ {r}
  /\ Reply(r)
  /\ revoked' = revoked \ {r}
  /\ UNCHANGED <<keyVars, tokens, edits>>

\* ReverseProxy hands a PUT, PATCH or DELETE of configmaps/kstone-api-user on as it
\* is: the client writes what map it likes, of hashes it has seen.
ProxyWrite(r) ==
  /\ pc[r] = "proxy"
  /\ \/ /\ edits < MaxEdits
        /\ store' \in [Users -> 0 .. hashes]
        /\ fresh' = {} /\ edits' = edits + 1
     \/ UNCHANGED <<store, fresh, edits>>
  /\ Reply(r)
  /\ revoked' = revoked \ {r}
  /\ UNCHANGED <<hashes, keyVars, tokens>>

-----------------------------------------------------------------------------
(* The process and its surroundings *)

\* defaultTTL after a login.
Expire(t) ==
  /\ tokens' = tokens \ {t}
  /\ UNCHANGED <<store, hashes, keyVars, reqVars, fresh, revoked, edits>>

\* The mounted secret is replaced.
RotateKey(k) ==
  /\ May("key") /\ keyFile # k
  /\ keyFile' = k
  /\ UNCHANGED <<store, hashes, signer, verifier, tokens, reqVars, fresh, revoked, edits>>

\* kstone-api ends and starts again.
Restart ==
  /\ May("restart")
  /\ signer' = "unread" /\ verifier' = "unread"
  /\ pc' = [r \in Requests |-> "idle"] /\ op' = [r \in Requests |-> "list"]
  /\ who' = [r \in Requests |-> Admin] /\ bearer' = [r \in Requests |-> NoToken]
  /\ copy' = [r \in Requests |-> NoMap] /\ fresh' = {} /\ revoked' = {}
  /\ UNCHANGED <<store, hashes, keyFile, tokens, edits>>

Serve(r) == Authenticate(r) \/ StoreGet(r) \/ StorePut(r) \/ ProxyWrite(r)

Next ==
  \/ \E u \in Users : Login(u)
  \/ \E r \in Requests :
       \/ Serve(r)
       \/ \E u \in Users, t \in tokens, o \in Ops : Private(r, t, o, u)
  \/ \E t \in tokens : Expire(t)
  \/ \E k \in Keys \cup {"garbled", "missing"} : RotateKey(k)
  \/ Restart

Spec == Init /\ [][Next]_vars
=============================================================================
