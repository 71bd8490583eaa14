----------------------------- MODULE KeyBrowser -----------------------------
(***************************************************************************)
(* The key browser of kstone-api: EtcdKeyList (pkg/router) lists the keys  *)
(* of a cluster, or reads one with its value, which in a cluster that      *)
(* holds Kubernetes objects is taken apart by pkg/etcd/encoding.go.  A key *)
(* is the sequence of its bytes.  None of this keeps state: a behaviour    *)
(* asks one question and gets its answer.                                  *)
(***************************************************************************)
EXTENDS Integers, Sequences, SequencesExt

CONSTANT Stored   \* the keys that may be stored

VARIABLES
  asked,   \* the question
  answer   \* << >>, or the answer to it

\* What is stored under a key: an object of a registered type as "json" or "proto", of
\* another type as "otherJson" or "otherProto", a registered one behind other bytes as
\* "tailJson", or "text".
Kinds == {"json", "proto", "otherJson", "otherProto", "tailJson", "text"}

Contents == UNION {[stored -> Kinds] : stored \in SUBSET Stored}

Lexicographic(a, b) ==
  \/ IsPrefix(a, b)
  \/ \E i \in 1 .. Len(a) :
       i <= Len(b) /\ a[i] < b[i] /\ \A j \in 1 .. i - 1 : a[j] = b[j]

\* Mutant of Found: the last of the keys is shown.
FoundLast(content, key) ==
  CHOOSE k \in DOMAIN content : IsPrefix(key, k) /\
    \A l \in DOMAIN content : IsPrefix(key, l) => Lexicographic(l, k)

\* The Get with the prefix, of which the first key is shown.
Found(content, key) ==
  CHOOSE k \in DOMAIN content : IsPrefix(key, k) /\
    \A l \in DOMAIN content : IsPrefix(key, l) => Lexicographic(k, l)

\* DetectAndExtract: a proto prefix anywhere, or else a suffix that is JSON.
Detected(kind) ==
  CASE kind \in {"proto", "otherProto"} -> "proto"
    [] kind \in {"json", "otherJson", "tailJson"} -> "json"
    [] OTHER -> "none"

\* ConvertToData: all media types, or none when one fails.
Converted(kind) == IF kind \in {"json", "proto", "tailJson"} THEN {"json", "yaml"} ELSE {}

\* ConvertToJSON: the object as JSON, or the value as it is.
JSONOf(kind) == IF kind \in {"json", "proto"} THEN "object" ELSE "raw"

\* Kubernetes keeps a number, and no object, under "compact_rev_key".
CompactRevKey == <<99>>

\* EtcdKeyList: all keys, or one of them with its value, which is taken apart only
\* in a cluster that holds Kubernetes objects.
KeyList(content, key, kubernetes) ==
  IF key = << >>
  THEN [code |-> 200, keys |-> DOMAIN content, forms |-> {}, json |-> "none"]
  ELSE IF \A k \in DOMAIN content : ~ IsPrefix(key, k)
  THEN [code |-> 404, keys |-> {}, forms |-> {}, json |-> "none"]
  ELSE LET k == Found(content, key)  kind == content[k] IN
       IF ~ kubernetes \/ key = CompactRevKey
       THEN [code |-> 200, keys |-> {k}, forms |-> {"javascript"}, json |-> "none"]
       ELSE IF Detected(kind) = "none"
       THEN [code |-> 500, keys |-> {}, forms |-> {}, json |-> "none"]
       ELSE [code |-> 200, keys |-> {k}, forms |-> Converted(kind) \cup {"json"},
             json |-> JSONOf(kind)]

-----------------------------------------------------------------------------

Questions == [content : Contents, key : Stored \cup {<< >>}, kubernetes : BOOLEAN]

KeysInit == asked \in Questions /\ answer = << >>

EtcdKeyList ==
  /\ answer = << >>
  /\ answer' = <<KeyList(asked.content, asked.key, asked.kubernetes)>> /\ UNCHANGED asked
=============================================================================
