-------------------------- MODULE UserStore_proofs --------------------------
(***************************************************************************)
(* Theorems about the users and tokens of kstone-api, for every number of  *)
(* users, keys, requests, hashes and tokens, and every set of faults.      *)
(***************************************************************************)
EXTENDS UserStoreProperties, FiniteSetTheorems, TLAPS

\* A password that is set gets a hash nobody has, and no token carries: the hashes
\* in use are numbered at most hashes.
HashesKnown ==
  /\ \A u \in Users : store[u] <= hashes
  /\ \A t \in tokens : t.hash \in 1 .. hashes
  /\ \A r \in Requests : pc[r] = "auth" => bearer[r] \in Tokens /\ bearer[r].hash \in 1 .. hashes

\* A request whose copy is current is about to write it back, and its guard holds
\* for what is stored now.
CopiesCurrent ==
  \A r \in fresh : pc[r] = "put" /\ copy[r] = store /\ MayWrite(r, store)

\* As long as nobody edits the ConfigMap itself, a request that came with a revoked
\* token is still before the middleware, and its token still revoked.
RevokedWait == edits = 0 => \A r \in revoked : pc[r] = "auth" /\ ~ Current(bearer[r])

\* The inductive invariant.
IInv == TypeOK /\ HashesKnown /\ CopiesCurrent /\ RevokedWait

-----------------------------------------------------------------------------
(* The initial states *)

\* What the store holds at the start.
LEMMA InitInvariant == Init => IInv
<1> SUFFICES ASSUME Init PROVE IInv
  OBVIOUS
<1> USE UsersAssumption DEF UsersAssumption
<1>1. TypeOK
  <2>1. 0 \in Hashes /\ 1 \in Hashes
    BY DEF Hashes
  <2>2. store \in Maps /\ NoMap \in Maps
    BY <2>1 DEF Init, Maps, NoMap
  <2> QED
    BY <2>1, <2>2 DEF Init, TypeOK, Steps, Ops, Writes
<1>2. HashesKnown /\ CopiesCurrent /\ RevokedWait
  BY DEF Init, HashesKnown, CopiesCurrent, RevokedWait
<1> QED
  BY <1>1, <1>2 DEF IInv

-----------------------------------------------------------------------------
(* Logins and the process *)

\* The key a singleton holds once it was used.
LEMMA ReadOnceType ==
  ASSUME CanRead, keyFile \in Keys \cup {"garbled", "missing"},
         NEW s \in Keys \cup {"garbled", "unread"}
  PROVE  ReadOnce(s) \in Keys \cup {"garbled"}
BY DEF ReadOnce, CanRead

\* A token that is issued carries the hash that is stored.
LEMMA LoginInvariant ==
  ASSUME IInv, NEW u \in Users, Login(u)
  PROVE  IInv'
<1>1. Generator \in Keys \cup {"garbled"}
  BY ReadOnceType DEF IInv, TypeOK, Login, Generator
<1>2. store[u] \in 1 .. hashes /\ store[u] \in Hashes
  BY DEF IInv, TypeOK, HashesKnown, Login, UserGet, Maps, Hashes
<1>3. \A t \in tokens' : t \in Tokens /\ t.hash \in 1 .. hashes
  BY <1>1, <1>2 DEF IInv, TypeOK, HashesKnown, Login, Signed, UserGet, Tokens
<1>4. TypeOK'
  BY <1>1, <1>3 DEF IInv, TypeOK, Login, reqVars
<1>5. HashesKnown'
  BY <1>3 DEF IInv, HashesKnown, Login, reqVars
<1>6. CopiesCurrent' /\ RevokedWait'
  BY DEF IInv, CopiesCurrent, RevokedWait, Login, reqVars, MayWrite, Current, UserGet
<1> QED
  BY <1>4, <1>5, <1>6 DEF IInv

\* A token that expires is good for nothing more.
LEMMA ExpireInvariant ==
  ASSUME IInv, NEW t \in tokens, Expire(t)
  PROVE  IInv'
<1>1. TypeOK' /\ HashesKnown'
  BY DEF IInv, TypeOK, HashesKnown, Expire, reqVars, keyVars
<1>2. CopiesCurrent' /\ RevokedWait'
  BY DEF IInv, CopiesCurrent, RevokedWait, Expire, reqVars, MayWrite, Current, UserGet
<1> QED
  BY <1>1, <1>2 DEF IInv

\* The mounted key file changes; what was read of it stays.
LEMMA RotateKeyInvariant ==
  ASSUME IInv, NEW k \in Keys \cup {"garbled", "missing"}, RotateKey(k)
  PROVE  IInv'
<1>1. TypeOK' /\ HashesKnown'
  BY DEF IInv, TypeOK, HashesKnown, RotateKey, reqVars
<1>2. CopiesCurrent' /\ RevokedWait'
  BY DEF IInv, CopiesCurrent, RevokedWait, RotateKey, reqVars, MayWrite, Current, UserGet
<1> QED
  BY <1>1, <1>2 DEF IInv

\* The server ends, with the requests it was at.
LEMMA RestartInvariant ==
  ASSUME IInv, Restart
  PROVE  IInv'
<1>1. NoMap \in Maps /\ Admin \in Users
  BY UsersAssumption DEF UsersAssumption, NoMap, Maps, Hashes
<1>2. TypeOK'
  BY <1>1 DEF IInv, TypeOK, Restart, Steps, Ops, Writes
<1>3. HashesKnown' /\ CopiesCurrent' /\ RevokedWait'
  BY DEF IInv, HashesKnown, CopiesCurrent, RevokedWait, Restart
<1> QED
  BY <1>2, <1>3 DEF IInv

-----------------------------------------------------------------------------
(* Requests *)

\* A request that ends leaves the others as they are.
LEMMA ReplyKeeps ==
  ASSUME TypeOK, NEW r \in Requests, Reply(r)
  PROVE  /\ pc' \in [Requests -> Steps] /\ op' \in [Requests -> Ops]
         /\ who' \in [Requests -> Users] /\ bearer' \in [Requests -> Tokens \cup {NoToken}]
         /\ copy' \in [Requests -> Maps]
         /\ pc'[r] = "idle"
         /\ \A q \in Requests \ {r} : /\ pc'[q] = pc[q] /\ op'[q] = op[q]
                                      /\ who'[q] = who[q] /\ bearer'[q] = bearer[q]
                                      /\ copy'[q] = copy[q]
<1>1. NoMap \in Maps /\ Admin \in Users
  BY UsersAssumption DEF UsersAssumption, NoMap, Maps, Hashes
<1> QED
  BY <1>1 DEF TypeOK, Reply, Steps, Ops, Writes

\* A token is checked for its signature before anything else.
LEMMA PrivateInvariant ==
  ASSUME IInv, NEW r \in Requests, NEW t \in tokens, NEW o \in Ops, NEW u \in Users,
         Private(r, t, o, u)
  PROVE  IInv'
<1>1. t \in Tokens /\ t.hash \in 1 .. hashes
  BY DEF IInv, TypeOK, HashesKnown
<1>2. verifier' \in Keys \cup {"garbled", "unread"}
  BY ReadOnceType DEF IInv, TypeOK, Private
<1>3. CASE ~ CanRead \/ ~ Verifies(t)
  <2>1. TypeOK'
    BY <1>2, <1>3 DEF IInv, TypeOK, Private
  <2>2. HashesKnown' /\ CopiesCurrent' /\ RevokedWait'
    BY <1>3 DEF IInv, HashesKnown, CopiesCurrent, RevokedWait, Private, MayWrite, Current,
                UserGet
  <2> QED
    BY <2>1, <2>2 DEF IInv
<1>4. CASE CanRead /\ Verifies(t)
  <2>1. /\ pc' = [pc EXCEPT ![r] = "auth"] /\ op' = [op EXCEPT ![r] = o]
        /\ bearer' = [bearer EXCEPT ![r] = t]
        /\ who' = IF o \in Writes THEN [who EXCEPT ![r] = u] ELSE who
        /\ revoked' = IF Current(t) THEN revoked ELSE revoked \cup {r}
        /\ pc[r] = "idle"
        /\ UNCHANGED <<store, hashes, keyFile, signer, tokens, copy, fresh, edits>>
    BY <1>4 DEF Private
  <2>2. TypeOK'
    BY <1>1, <1>2, <2>1 DEF IInv, TypeOK, Steps
  <2>3. HashesKnown'
    BY <1>1, <2>1 DEF IInv, TypeOK, HashesKnown
  <2>4. CopiesCurrent'
    <3> SUFFICES ASSUME NEW q \in fresh
                 PROVE  (pc[q] = "put" /\ copy[q] = store /\ MayWrite(q, store))'
      BY <2>1 DEF CopiesCurrent
    <3>1. pc[q] = "put" /\ copy[q] = store /\ MayWrite(q, store) /\ q \in Requests
      BY DEF IInv, TypeOK, CopiesCurrent
    <3>2. q # r
      BY <3>1, <2>1
    <3> QED
      BY <3>1, <3>2, <2>1 DEF MayWrite, IInv, TypeOK
  <2>5. RevokedWait'
    <3> SUFFICES ASSUME edits' = 0, NEW q \in revoked'
                 PROVE  (pc[q] = "auth" /\ ~ Current(bearer[q]))'
      BY DEF RevokedWait
    <3>1. q \in Requests
      BY <2>2 DEF TypeOK
    <3>2. CASE q = r /\ ~ Current(t)
      BY <3>2, <2>1 DEF IInv, TypeOK, Current, UserGet
    <3>3. CASE q \in revoked
      BY <3>1, <3>3, <2>1 DEF IInv, TypeOK, RevokedWait, Current, UserGet
    <3> QED
      BY <3>2, <3>3, <2>1
  <2> QED
    BY <2>2, <2>3, <2>4, <2>5 DEF IInv
<1> QED
  BY <1>3, <1>4

\* The middleware lets a request pass only when its token is current.
LEMMA AuthenticateInvariant ==
  ASSUME IInv, NEW r \in Requests, Authenticate(r)
  PROVE  IInv'
<1>1. /\ pc[r] = "auth"
      /\ revoked' = IF pc'[r] = "idle" THEN revoked \ {r} ELSE revoked
      /\ UNCHANGED <<store, hashes, keyFile, signer, verifier, tokens, fresh, edits>>
  BY DEF Authenticate, keyVars
<1>2. /\ pc' \in [Requests -> Steps] /\ op' \in [Requests -> Ops]
      /\ who' \in [Requests -> Users] /\ bearer' \in [Requests -> Tokens \cup {NoToken}]
      /\ copy' \in [Requests -> Maps]
      /\ pc'[r] # "auth" /\ (pc'[r] # "idle" => Current(bearer[r]))
      /\ \A q \in Requests \ {r} : /\ pc'[q] = pc[q] /\ op'[q] = op[q]
                                   /\ who'[q] = who[q] /\ bearer'[q] = bearer[q]
                                   /\ copy'[q] = copy[q]
  <2>1. CASE Current(bearer[r]) /\ Enter(r)
    BY <2>1 DEF IInv, TypeOK, Enter, Steps
  <2>2. CASE Reply(r)
    BY <2>2, ReplyKeeps DEF IInv
  <2> QED
    BY <2>1, <2>2 DEF Authenticate, Authorize
<1>3. TypeOK'
  BY <1>1, <1>2 DEF IInv, TypeOK
<1>4. HashesKnown'
  BY <1>1, <1>2 DEF IInv, HashesKnown
<1>5. CopiesCurrent'
  <2> SUFFICES ASSUME NEW q \in fresh
               PROVE  (pc[q] = "put" /\ copy[q] = store /\ MayWrite(q, store))'
    BY <1>1 DEF CopiesCurrent
  <2>1. pc[q] = "put" /\ copy[q] = store /\ MayWrite(q, store) /\ q \in Requests \ {r}
    BY <1>1 DEF IInv, TypeOK, CopiesCurrent
  <2> QED
    BY <2>1, <1>1, <1>2 DEF MayWrite
<1>6. RevokedWait'
  <2> SUFFICES ASSUME edits' = 0, NEW q \in revoked'
               PROVE  (pc[q] = "auth" /\ ~ Current(bearer[q]))'
    BY DEF RevokedWait
  <2>1. q \in Requests /\ pc[q] = "auth" /\ ~ Current(bearer[q])
    BY <1>1 DEF IInv, TypeOK, RevokedWait
  <2>2. q # r
    BY <2>1, <1>1, <1>2
  <2> QED
    BY <2>1, <2>2, <1>1, <1>2 DEF Current, UserGet
<1> QED
  BY <1>3, <1>4, <1>5, <1>6 DEF IInv

\* A request that writes has read the map that is stored, and its guard holds for it.
LEMMA StoreGetInvariant ==
  ASSUME IInv, NEW r \in Requests, StoreGet(r)
  PROVE  IInv'
<1>1. /\ pc[r] = "get" /\ UNCHANGED <<store, hashes, keyFile, signer, verifier, tokens, edits>>
  BY DEF StoreGet, keyVars
<1>2. CASE /\ MayWrite(r, store) /\ pc' = [pc EXCEPT ![r] = "put"]
           /\ copy' = [copy EXCEPT ![r] = store] /\ fresh' = fresh \cup {r}
           /\ UNCHANGED <<op, who, bearer, revoked>>
  <2>1. TypeOK'
    BY <1>1, <1>2 DEF IInv, TypeOK, Steps
  <2>2. HashesKnown'
    BY <1>1, <1>2 DEF IInv, TypeOK, HashesKnown
  <2>3. CopiesCurrent'
    BY <1>1, <1>2 DEF IInv, TypeOK, CopiesCurrent, MayWrite
  <2>4. RevokedWait'
    BY <1>1, <1>2 DEF IInv, TypeOK, RevokedWait, Current, UserGet
  <2> QED
    BY <2>1, <2>2, <2>3, <2>4 DEF IInv
<1>3. CASE Reply(r) /\ revoked' = revoked \ {r} /\ UNCHANGED fresh
  <2>1. TypeOK'
    BY <1>1, <1>3, ReplyKeeps DEF IInv, TypeOK
  <2>2. HashesKnown'
    BY <1>1, <1>3, ReplyKeeps DEF IInv, HashesKnown
  <2>3. CopiesCurrent'
    <3> SUFFICES ASSUME NEW q \in fresh
                 PROVE  (pc[q] = "put" /\ copy[q] = store /\ MayWrite(q, store))'
      BY <1>3 DEF CopiesCurrent
    <3>1. pc[q] = "put" /\ copy[q] = store /\ MayWrite(q, store) /\ q \in Requests \ {r}
      BY <1>1 DEF IInv, TypeOK, CopiesCurrent
    <3> QED
      BY <3>1, <1>1, <1>3, ReplyKeeps DEF MayWrite, IInv
  <2>4. RevokedWait'
    BY <1>1, <1>3, ReplyKeeps DEF IInv, TypeOK, RevokedWait, Current, UserGet
  <2> QED
    BY <2>1, <2>2, <2>3, <2>4 DEF IInv
<1> QED
  BY <1>2, <1>3 DEF StoreGet

-----------------------------------------------------------------------------
(* Updates *)

\* What an accepted Update makes of the map: one entry is taken away or gets a hash
\* that was never used, and the guard of its operation holds for the map it replaces.
LEMMA AcceptedUpdate ==
  ASSUME IInv, NEW r \in Requests, pc[r] = "put", Accepted(r),
         hashes' = (IF op[r] = "delete" THEN hashes ELSE hashes + 1),
         hashes' <= LastHash, store' = Edited(r, copy[r])
  PROVE  /\ MayWrite(r, store)
         /\ store' = [store EXCEPT ![who[r]] =
                        IF op[r] = "delete" THEN 0 ELSE hashes + 1]
         /\ hashes' \in Hashes \ {0} /\ hashes <= hashes'
         /\ store' \in Maps /\ \A u \in Users : store'[u] <= hashes'
         /\ \A t \in Tokens : t.hash \in 1 .. hashes /\ ~ Current(t) => ~ Current(t)'
<1>1. copy[r] = store /\ MayWrite(r, store)
  BY DEF IInv, CopiesCurrent, Accepted
<1>2. hashes \in Nat \ {0} /\ hashes <= LastHash /\ LastHash \in Nat
  BY UsersAssumption DEF UsersAssumption, IInv, TypeOK, Hashes
<1>3. hashes' \in Hashes \ {0} /\ hashes <= hashes'
  BY <1>2 DEF Hashes
<1>4. store' = [store EXCEPT ![who[r]] = IF op[r] = "delete" THEN 0 ELSE hashes + 1]
  BY <1>1 DEF Edited, NewHash
<1>5. who[r] \in Users /\ store \in [Users -> Hashes]
  BY DEF IInv, TypeOK, Maps
<1>6. (IF op[r] = "delete" THEN 0 ELSE hashes + 1) \in 0 .. hashes'
  BY <1>2
<1>7. store' \in Maps
  BY <1>3, <1>4, <1>5, <1>6, <1>2 DEF Maps, Hashes
<1>8. \A u \in Users : store'[u] <= hashes'
  <2> TAKE u \in Users
  <2>1. CASE u = who[r]
    BY <2>1, <1>4, <1>5, <1>6
  <2>2. CASE u # who[r]
    BY <2>2, <1>2, <1>3, <1>4, <1>5 DEF IInv, HashesKnown, Hashes
  <2> QED
    BY <2>1, <2>2
<1>9. ASSUME NEW t \in Tokens, t.hash \in 1 .. hashes, ~ Current(t)
      PROVE  ~ Current(t)'
  <2>1. t.user \in Users
    BY DEF Tokens
  <2>2. CASE t.user = who[r]
    <3>1. store'[t.user] = 0 \/ store'[t.user] = hashes + 1
      BY <2>2, <1>4, <1>5
    <3> QED
      BY <3>1, <1>2, <1>9 DEF Current, UserGet
  <2>3. CASE t.user # who[r]
    BY <2>1, <2>3, <1>4, <1>5, <1>9 DEF Current, UserGet
  <2> QED
    BY <2>2, <2>3
<1> QED
  BY <1>1, <1>3, <1>4, <1>7, <1>8, <1>9

\* The user store writes what a request carries.
LEMMA StorePutInvariant ==
  ASSUME IInv, NEW r \in Requests, StorePut(r)
  PROVE  IInv'
<1>1. /\ pc[r] = "put" /\ Reply(r) /\ revoked' = revoked \ {r}
      /\ UNCHANGED <<keyFile, signer, verifier, tokens, edits>>
  BY DEF StorePut, keyVars
<1>2. CASE /\ Accepted(r) /\ hashes' = (IF op[r] = "delete" THEN hashes ELSE hashes + 1)
           /\ hashes' <= LastHash /\ store' = Edited(r, copy[r]) /\ fresh' = {}
  <2>1. TypeOK'
    BY <1>1, <1>2, AcceptedUpdate, ReplyKeeps DEF IInv, TypeOK
  <2>2. HashesKnown'
    <3>1. hashes \in Nat /\ hashes' \in Nat /\ hashes <= hashes'
      BY <1>1, <1>2, AcceptedUpdate DEF IInv, TypeOK, Hashes
    <3>2. \A u \in Users : store'[u] <= hashes'
      BY <1>1, <1>2, AcceptedUpdate
    <3>3. \A t \in tokens' : t.hash \in 1 .. hashes'
      BY <3>1, <1>1 DEF IInv, HashesKnown
    <3>4. \A q \in Requests : pc'[q] = "auth" =>
            bearer'[q] \in Tokens /\ bearer'[q].hash \in 1 .. hashes'
      BY <3>1, <1>1, ReplyKeeps DEF IInv, HashesKnown
    <3> QED
      BY <3>2, <3>3, <3>4 DEF HashesKnown
  <2>3. CopiesCurrent'
    BY <1>2 DEF CopiesCurrent
  <2>4. RevokedWait'
    <3> SUFFICES ASSUME edits' = 0, NEW q \in revoked'
                 PROVE  (pc[q] = "auth" /\ ~ Current(bearer[q]))'
      BY DEF RevokedWait
    <3>1. q \in Requests \ {r} /\ pc[q] = "auth" /\ ~ Current(bearer[q])
      BY <1>1 DEF IInv, TypeOK, RevokedWait
    <3>2. bearer[q] \in Tokens /\ bearer[q].hash \in 1 .. hashes
      BY <3>1 DEF IInv, HashesKnown
    <3>3. pc'[q] = "auth" /\ bearer'[q] = bearer[q]
      BY <3>1, <1>1, ReplyKeeps DEF IInv
    <3>4. \A t \in Tokens : t.hash \in 1 .. hashes /\ ~ Current(t) => ~ Current(t)'
      BY <1>1, <1>2, AcceptedUpdate
    <3> QED
      BY <3>1, <3>2, <3>3, <3>4 DEF Current, UserGet
  <2> QED
    BY <2>1, <2>2, <2>3, <2>4 DEF IInv
<1>3. CASE UNCHANGED <<store, hashes>> /\ fresh' = fresh \ {r}
  <2>1. TypeOK'
    BY <1>1, <1>3, ReplyKeeps DEF IInv, TypeOK
  <2>2. HashesKnown'
    BY <1>1, <1>3, ReplyKeeps DEF IInv, HashesKnown
  <2>3. CopiesCurrent'
    <3> SUFFICES ASSUME NEW q \in fresh \ {r}
                 PROVE  (pc[q] = "put" /\ copy[q] = store /\ MayWrite(q, store))'
      BY <1>3 DEF CopiesCurrent
    <3>1. pc[q] = "put" /\ copy[q] = store /\ MayWrite(q, store) /\ q \in Requests \ {r}
      BY DEF IInv, TypeOK, CopiesCurrent
    <3> QED
      BY <3>1, <1>1, <1>3, ReplyKeeps DEF MayWrite, IInv
  <2>4. RevokedWait'
    BY <1>1, <1>3, ReplyKeeps DEF IInv, TypeOK, RevokedWait, Current, UserGet
  <2> QED
    BY <2>1, <2>2, <2>3, <2>4 DEF IInv
<1> QED
  BY <1>2, <1>3 DEF StorePut

\* A client that edits the ConfigMap itself makes every copy old, and ends what can be
\* said of revoked tokens.
LEMMA ProxyWriteInvariant ==
  ASSUME IInv, NEW r \in Requests, ProxyWrite(r)
  PROVE  IInv'
<1>1. /\ pc[r] = "proxy" /\ Reply(r) /\ revoked' = revoked \ {r}
      /\ UNCHANGED <<hashes, keyFile, signer, verifier, tokens>>
  BY DEF ProxyWrite, keyVars
<1>2. CASE /\ edits < MaxEdits /\ store' \in [Users -> 0 .. hashes]
           /\ fresh' = {} /\ edits' = edits + 1
  <2>1. hashes \in Nat /\ 0 .. hashes \subseteq Hashes /\ edits' \in 0 .. MaxEdits /\ edits' # 0
    BY <1>2, UsersAssumption DEF UsersAssumption, IInv, TypeOK, Hashes
  <2>2. store' \in Maps
    BY <2>1, <1>2 DEF Maps
  <2>3. TypeOK'
    BY <2>1, <2>2, <1>1, <1>2, ReplyKeeps DEF IInv, TypeOK
  <2>4. HashesKnown'
    BY <2>1, <1>1, <1>2, ReplyKeeps DEF IInv, HashesKnown
  <2>5. CopiesCurrent' /\ RevokedWait'
    BY <2>1, <1>2 DEF CopiesCurrent, RevokedWait
  <2> QED
    BY <2>3, <2>4, <2>5 DEF IInv
<1>3. CASE UNCHANGED <<store, fresh, edits>>
  <2>1. TypeOK'
    BY <1>1, <1>3, ReplyKeeps DEF IInv, TypeOK
  <2>2. HashesKnown'
    BY <1>1, <1>3, ReplyKeeps DEF IInv, HashesKnown
  <2>3. CopiesCurrent'
    <3> SUFFICES ASSUME NEW q \in fresh
                 PROVE  (pc[q] = "put" /\ copy[q] = store /\ MayWrite(q, store))'
      BY <1>3 DEF CopiesCurrent
    <3>1. pc[q] = "put" /\ copy[q] = store /\ MayWrite(q, store) /\ q \in Requests \ {r}
      BY <1>1 DEF IInv, TypeOK, CopiesCurrent
    <3> QED
      BY <3>1, <1>1, <1>3, ReplyKeeps DEF MayWrite, IInv
  <2>4. RevokedWait'
    BY <1>1, <1>3, ReplyKeeps DEF IInv, TypeOK, RevokedWait, Current, UserGet
  <2> QED
    BY <2>1, <2>2, <2>3, <2>4 DEF IInv
<1> QED
  BY <1>2, <1>3 DEF ProxyWrite

-----------------------------------------------------------------------------
(* The invariant *)

\* Every step keeps the invariant.
LEMMA NextInvariant == IInv /\ [Next]_vars => IInv'
<1> SUFFICES ASSUME IInv, [Next]_vars PROVE IInv'
  OBVIOUS
<1>1. CASE \E u \in Users : Login(u)
  BY <1>1, LoginInvariant
<1>2. CASE \E r \in Requests : Serve(r)
  BY <1>2, AuthenticateInvariant, StoreGetInvariant, StorePutInvariant, ProxyWriteInvariant
     DEF Serve
<1>3. CASE \E r \in Requests, u \in Users, t \in tokens, o \in Ops : Private(r, t, o, u)
  BY <1>3, PrivateInvariant
<1>4. CASE \E t \in tokens : Expire(t)
  BY <1>4, ExpireInvariant
<1>5. CASE \E k \in Keys \cup {"garbled", "missing"} : RotateKey(k)
  BY <1>5, RotateKeyInvariant
<1>6. CASE Restart
  BY <1>6, RestartInvariant
<1>7. CASE UNCHANGED vars
  BY <1>7 DEF vars, IInv, TypeOK, HashesKnown, CopiesCurrent, RevokedWait, MayWrite, Current,
              UserGet
<1> QED
  BY <1>1, <1>2, <1>3, <1>4, <1>5, <1>6, <1>7 DEF Next

\* The inductive invariant holds in every state.
LEMMA Invariant == Spec => []IInv
BY InitInvariant, NextInvariant, PTL DEF Spec

\* Every variable of the users and tokens of kstone-api keeps its type, whatever requests,
\* restarts and changes of the signing key come in between.
THEOREM TypeCorrect == Spec => []TypeOK
<1>1. IInv => TypeOK
  BY DEF IInv
<1> QED
  BY <1>1, Invariant, PTL

\* A request that came with a token whose user has another password by then never gets
\* past the middleware, unless somebody edits the ConfigMap itself.
THEOREM RevokedSafe == Spec => []RevokedChangeNothing
<1>1. IInv => RevokedChangeNothing
  BY DEF IInv, RevokedWait, RevokedChangeNothing
<1> QED
  BY <1>1, Invariant, PTL

-----------------------------------------------------------------------------
(* What a step does to the users *)

\* An accepted Update of the store, and an edit of the ConfigMap through the proxy, are
\* the only steps that change it.
LEMMA StoreSteps ==
  ASSUME IInv, [Next]_vars
  PROVE  \/ UNCHANGED <<store, edits>>
         \/ /\ store' \in [Users -> 0 .. hashes] /\ edits' = edits + 1
         \/ \E r \in Requests :
              /\ pc[r] = "put" /\ Accepted(r) /\ edits' = edits
              /\ hashes' = (IF op[r] = "delete" THEN hashes ELSE hashes + 1)
              /\ hashes' <= LastHash /\ store' = Edited(r, copy[r])
<1>1. CASE \E r \in Requests : Serve(r)
  BY <1>1 DEF Serve, Authenticate, StoreGet, StorePut, ProxyWrite
<1>2. CASE ~ \E r \in Requests : Serve(r)
  BY <1>2 DEF Next, vars, Login, Private, Expire, RotateKey, Restart
<1> QED
  BY <1>1, <1>2

\* A token that no longer carries its user's hash never does again, unless somebody edits
\* the ConfigMap itself: a password set anew gets a hash nobody had before.
THEOREM RevokedForEver == Spec => TokensStayRevoked
<1>1. ASSUME IInv, [Next]_vars
      PROVE  [\A t \in tokens : store[t.user] # t.hash =>
                store'[t.user] # t.hash \/ edits' # edits]_vars
  <2> SUFFICES ASSUME NEW t \in tokens, store[t.user] # t.hash, edits' = edits
               PROVE  store'[t.user] # t.hash
    OBVIOUS
  <2>1. t \in Tokens /\ t.hash \in 1 .. hashes /\ t.user \in Users
    BY <1>1 DEF IInv, TypeOK, HashesKnown, Tokens
  <2>2. edits \in Nat
    BY <1>1, UsersAssumption DEF UsersAssumption, IInv, TypeOK
  <2>3. CASE store' = store
    BY <2>3
  <2>4. CASE \E r \in Requests :
               /\ pc[r] = "put" /\ Accepted(r) /\ edits' = edits
               /\ hashes' = (IF op[r] = "delete" THEN hashes ELSE hashes + 1)
               /\ hashes' <= LastHash /\ store' = Edited(r, copy[r])
    <3>1. PICK r \in Requests :
               store' = [store EXCEPT ![who[r]] = IF op[r] = "delete" THEN 0 ELSE hashes + 1]
      BY <1>1, <2>4, AcceptedUpdate
    <3>2. who[r] \in Users /\ store \in [Users -> Hashes] /\ hashes \in Nat
      BY <1>1 DEF IInv, TypeOK, Maps, Hashes
    <3>3. store'[t.user] \in {store[t.user], 0, hashes + 1}
      BY <2>1, <3>1, <3>2
    <3> QED
      BY <2>1, <3>2, <3>3
  <2> QED
    BY <1>1, <2>2, <2>3, <2>4, StoreSteps
<1> QED
  BY <1>1, Invariant, PTL DEF Spec, TokensStayRevoked

\* An Update that is accepted is one operation of the directory: its guard holds for the
\* map that is stored, so nobody is added twice and the last user stays.
LEMMA UpdateRefines ==
  ASSUME IInv, NEW r \in Requests, pc[r] = "put", Accepted(r), edits' = edits,
         hashes' = (IF op[r] = "delete" THEN hashes ELSE hashes + 1),
         hashes' <= LastHash, store' = Edited(r, copy[r])
  PROVE  Directory!DirectoryNext
<1>1. /\ MayWrite(r, store)
      /\ store' = [store EXCEPT ![who[r]] = IF op[r] = "delete" THEN 0 ELSE hashes + 1]
  BY AcceptedUpdate
<1>2. who[r] \in Users /\ hashes \in Nat \ {0} /\ store \in Maps /\ LastHash \in Nat
  BY UsersAssumption DEF UsersAssumption, IInv, TypeOK, Hashes
<1>3. hashes + 1 \notin Directory!InUse
  BY <1>2 DEF Directory!InUse, IInv, HashesKnown, Maps, Hashes
<1>4. CASE op[r] = "delete"
  <2>1. store[who[r]] # 0 /\ Cardinality(Entries(store)) # 1
    BY <1>1, <1>4 DEF MayWrite, MayDelete
  <2>2. \E v \in Entries(store) : v # who[r]
    <3> SUFFICES ASSUME \A v \in Entries(store) : v = who[r]
                 PROVE  FALSE
      OBVIOUS
    <3>1. Entries(store) = {who[r]}
      BY <1>2, <2>1 DEF Entries
    <3> QED
      BY <3>1, <2>1, FS_Singleton
  <2>3. Directory!Delete(who[r])
    BY <1>1, <1>2, <1>4, <2>1, <2>2 DEF Directory!Delete, Directory!Members, Entries
  <2> QED
    BY <2>3, <1>2 DEF Directory!DirectoryNext
<1>5. CASE op[r] # "delete"
  <2>1. hashes + 1 \in 1 .. LastHash
    BY <1>2, <1>5
  <2>2. \/ Directory!Add(who[r], hashes + 1)
        \/ Directory!ChangePassword(who[r], hashes + 1)
    BY <1>1, <1>2, <1>3, <1>5
       DEF MayWrite, MayAdd, MayChange, Directory!Add, Directory!ChangePassword,
           Directory!Members
  <2> QED
    BY <2>1, <2>2, <1>2 DEF Directory!DirectoryNext
<1> QED
  BY <1>4, <1>5

\* Whatever requests run at the same time, every operation on the users is one indivisible
\* step of the UserDirectory, at its Update.
THEOREM Refinement == Spec => RefinesDirectory
<1>1. Init => Directory!DirectoryInit
  BY UsersAssumption DEF UsersAssumption, Init, Directory!DirectoryInit
<1>2. ASSUME IInv, [Next]_vars
      PROVE  [Directory!DirectoryNext]_(Directory!directoryVars)
  <2>1. CASE UNCHANGED <<store, edits>>
    BY <2>1 DEF Directory!directoryVars
  <2>2. CASE store' \in [Users -> 0 .. hashes] /\ edits' = edits + 1
    <3>1. hashes <= LastHash /\ hashes \in Nat /\ LastHash \in Nat
      BY <1>2, UsersAssumption DEF UsersAssumption, IInv, TypeOK, Hashes
    <3>2. store' \in [Users -> 0 .. LastHash]
      BY <3>1, <2>2
    <3> QED
      BY <3>2, <2>2 DEF Directory!Edit, Directory!DirectoryNext
  <2>3. CASE \E r \in Requests :
               /\ pc[r] = "put" /\ Accepted(r) /\ edits' = edits
               /\ hashes' = (IF op[r] = "delete" THEN hashes ELSE hashes + 1)
               /\ hashes' <= LastHash /\ store' = Edited(r, copy[r])
    BY <1>2, <2>3, UpdateRefines
  <2> QED
    BY <1>2, <2>1, <2>2, <2>3, StoreSteps
<1> QED
  BY <1>1, <1>2, Invariant, PTL DEF Spec, RefinesDirectory, Directory!DirectorySpec

-----------------------------------------------------------------------------
(* Keys *)

\* A token that was accepted is accepted whenever the key file is there, until its user's
\* entry changes, it expires or the process ends: the key that was read first is used for
\* good, and while the file is missing nothing of that is lost.
THEOREM AcceptedForGood == Spec => AcceptedStaysAccepted
<1>1. ASSUME [Next]_vars
      PROVE  [\A t \in tokens : Trusted(t) =>
                \/ IF CanRead' THEN Accepts(t)' ELSE Trusted(t)'
                \/ store'[t.user] # t.hash
                \/ t \notin tokens'
                \/ verifier' = "unread"]_vars
  <2> SUFFICES ASSUME NEW t \in tokens, Trusted(t), store'[t.user] = t.hash, t \in tokens',
                      verifier' # "unread"
               PROVE  Trusted(t)'
    BY DEF Accepts
  <2>1. verifier # "unread" /\ verifier \in Keys /\ verifier = t.key
    BY UsersAssumption DEF UsersAssumption, Trusted, Verifies, ReadOnce
  <2>2. verifier' = verifier
    BY <1>1, <2>1 DEF Next, vars, keyVars, ReadOnce, Login, Private, Expire, RotateKey,
                      Restart, Serve, Authenticate, StoreGet, StorePut, ProxyWrite
  <2> QED
    BY <2>1, <2>2 DEF Trusted, Verifies, Current, UserGet, ReadOnce
<1> QED
  BY <1>1, PTL DEF Spec, AcceptedStaysAccepted
=============================================================================
