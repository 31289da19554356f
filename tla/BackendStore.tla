---------------------------- MODULE BackendStore -----------------------------
(***************************************************************************)
(* The local backend implements the blob store: a put takes effect when    *)
(* the temporary file is renamed, a delete when the name is unlinked, and  *)
(* the fsync of the directory settles every name in it.                    *)
(***************************************************************************)
EXTENDS LocalBackend

StageOf(w) == CASE pc[w] = "idle"   -> "none"
                [] pc[w] = "commit" -> "done"
                [] OTHER            -> "asked"

Store == INSTANCE BlobStore
           WITH blobs <- [n \in Name |-> visible[n].content],
                left  <- [n \in Name |-> {f.content : f \in maybe[n]}],
                firm  <- {n \in Name : Path(n) \subseteq sure},
                stage <- [w \in Process |-> StageOf(w)],
                asked <- job

(* Readers and crashes see each call at one instant or not at all, never a *)
(* mix and never half a blob; once a call has returned, no power loss      *)
(* undoes it as long as its directories are on disk (base.py, the          *)
(* atomicity contract; cas/backend/local.py, steps 1 to 4).                *)
StoreContract == Store!StoreSpec
=============================================================================
