--------------------------- MODULE UserDirectory ---------------------------
(***************************************************************************)
(* What kstone-api promises about its users: every operation on them is    *)
(* one indivisible step that touches one user, the last user cannot be     *)
(* deleted, and every password set is a hash nobody had before.  The only  *)
(* other writes are those a client makes to the users' ConfigMap itself,   *)
(* through the proxy to the Kubernetes API; they are counted.              *)
(***************************************************************************)
EXTENDS Integers

CONSTANTS Users, LastHash

VARIABLES
  directory,   \* user -> the hash of the password, 0: no such user
  edits        \* writes made around the store

directoryVars == <<directory, edits>>

Members == {u \in Users : directory[u] # 0}
InUse   == {directory[u] : u \in Users}

DirectoryInit ==
  /\ \E u \in Users : directory = [v \in Users |-> IF v = u THEN 1 ELSE 0]
  /\ edits = 0

Add(u, h) ==
  /\ u \notin Members /\ h \notin InUse
  /\ directory' = [directory EXCEPT ![u] = h]
  /\ UNCHANGED edits

ChangePassword(u, h) ==
  /\ u \in Members /\ h \notin InUse
  /\ directory' = [directory EXCEPT ![u] = h]
  /\ UNCHANGED edits

Delete(u) ==
  /\ u \in Members
  /\ \E v \in Members : v # u
  /\ directory' = [directory EXCEPT ![u] = 0]
  /\ UNCHANGED edits

\* The ConfigMap is written as a whole.
Edit ==
  /\ directory' \in [Users -> 0 .. LastHash]
  /\ edits' = edits + 1

DirectoryNext ==
  \/ Edit
  \/ \E u \in Users :
       \/ Delete(u)
       \/ \E h \in 1 .. LastHash : Add(u, h) \/ ChangePassword(u, h)

DirectorySpec == DirectoryInit /\ [][DirectoryNext]_directoryVars
=============================================================================
