------------------------------ MODULE BlobStore ------------------------------
(***************************************************************************)
(* What a backend promises (cas/backend/base.py), without files and system *)
(* calls: named blobs that processes create, replace and delete, each at   *)
(* one instant, and that a crash leaves whole.  A call that returns has    *)
(* settled its blob; one that raises or dies may have taken effect or not, *)
(* and until the next call settles it a crash may still undo it.           *)
(***************************************************************************)
CONSTANTS
  Name,       \* blob names
  Value,      \* blob contents
  Process,    \* the processes that use the backend
  NoBlob      \* the name does not exist

VARIABLES
  blobs,      \* what readers see
  left,       \* the contents of each blob that a crash may leave
  firm,       \* the names whose place a crash cannot take away
  stage,      \* process -> "none", "asked" or, once its call took effect, "done"
  asked       \* process -> the name and the content of its last call

storeVars == <<blobs, left, firm, stage, asked>>

StoreInit ==
  /\ blobs = [n \in Name |-> NoBlob]
  /\ left = [n \in Name |-> {NoBlob}]
  /\ firm \in SUBSET Name
  /\ stage = [w \in Process |-> "none"]
  /\ asked \in [Process -> Name \X {NoBlob}]

Become(w, s) == stage' = [stage EXCEPT ![w] = s]

Change(n, v) ==
  /\ blobs' = [blobs EXCEPT ![n] = v]
  /\ left' = [left EXCEPT ![n] = @ \cup {v}]

Put(w, n, v) ==
  /\ stage[w] = "none"
  /\ Become(w, "asked")
  /\ asked' = [asked EXCEPT ![w] = <<n, v>>]
  /\ UNCHANGED <<blobs, left, firm>>

TakeEffect(w) ==
  /\ stage[w] = "asked"
  /\ Change(asked[w][1], asked[w][2])
  /\ Become(w, "done")
  /\ UNCHANGED <<firm, asked>>

(* A blob that does not exist is not deleted. *)
Delete(w, n) ==
  /\ stage[w] = "none" /\ blobs[n] # NoBlob
  /\ Change(n, NoBlob)
  /\ Become(w, "done")
  /\ asked' = [asked EXCEPT ![w] = <<n, NoBlob>>]
  /\ UNCHANGED firm

(* The blob of the call is settled, and maybe others. *)
Return(w) ==
  /\ stage[w] = "done"
  /\ \E N \in SUBSET Name :
       /\ asked[w][1] \in N
       /\ left' = [n \in Name |-> IF n \in N THEN {blobs[n]} ELSE left[n]]
  /\ firm' \in SUBSET Name /\ firm \subseteq firm'
  /\ Become(w, "none")
  /\ UNCHANGED <<blobs, asked>>

Fail(w) ==
  /\ stage[w] # "none"
  /\ Become(w, "none")
  /\ UNCHANGED <<blobs, left, firm, asked>>

Crash ==
  /\ blobs' \in [Name -> Value \cup {NoBlob}]
  /\ \A n \in Name : blobs'[n] \in left[n] \/ (n \notin firm /\ blobs'[n] = NoBlob)
  /\ left' = [n \in Name |-> {blobs'[n]}]
  /\ firm' \in SUBSET Name /\ firm \subseteq firm'
  /\ stage' = [w \in Process |-> "none"]
  /\ UNCHANGED asked

StoreNext ==
  \/ \E w \in Process :
       \/ \E n \in Name : (\E v \in Value : Put(w, n, v)) \/ Delete(w, n)
       \/ TakeEffect(w) \/ Return(w) \/ Fail(w)
  \/ Crash

StoreSpec == StoreInit /\ [][StoreNext]_storeVars
=============================================================================
