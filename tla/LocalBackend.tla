----------------------------- MODULE LocalBackend -----------------------------
(***************************************************************************)
(* The local backend (cas/backend/local.py) on a file system that loses    *)
(* power: put_bytes and put_file write a temporary file in the target      *)
(* directory, fsync it, rename it over the final name and fsync the        *)
(* directory; delete unlinks and fsyncs the directory.                     *)
(*                                                                         *)
(* The file system is POSIX at its weakest: what was written without an    *)
(* fsync of the file may be torn after a power loss, and each change of a  *)
(* directory without an fsync of that directory may have happened or not.  *)
(* That holds of the directories too: mkdir is a change of the parent, and *)
(* nothing in the code fsyncs a directory for the sake of one made in it.  *)
(* Temporary files are invisible to list() and belong to their process.    *)
(***************************************************************************)
EXTENDS Naturals, FiniteSets

CONSTANTS
  Name,       \* blob names
  Dir,        \* the directories that hold them
  Root,       \* the repository directory itself, the parent of the others
  DirOf,      \* name -> directory
  Durable,    \* directories that are in their parents, on disk, from the start
  Value,      \* blob contents
  Process,    \* processes that use the backend, one call at a time
  NoBlob,     \* the name does not exist
  Torn        \* a file that is not what was written to it

ASSUME BackendAssumption ==
  /\ Root \in Dir /\ Durable \subseteq Dir
  /\ DirOf \in [Name -> Dir]
  /\ NoBlob \notin Value /\ Torn \notin Value \cup {NoBlob}

VARIABLES
  visible,    \* the files as running processes see them
  maybe,      \* the files that each name may have after a power loss
  made,       \* directories that exist
  sure,       \* directories whose parent holds them after any power loss
  pc,         \* where a process is in its call
  job,        \* the name and the content of its call
  tmp,        \* its temporary file
  allowed     \* history: the contents that the calls so far permit

vars == <<visible, maybe, made, sure, pc, job, tmp, allowed>>

(* A file: what it was meant to hold, and whether it was fsynced. *)
File == [content : Value \cup {NoBlob, Torn}, synced : BOOLEAN]

NoFile == [content |-> NoBlob, synced |-> TRUE]

BackendTypeOK ==
  /\ visible \in [Name -> File]
  /\ maybe \in [Name -> SUBSET File]
  /\ made \subseteq Dir /\ sure \subseteq made
  /\ pc \in [Process -> {"idle", "write", "fsync", "rename", "commit"}]
  /\ job \in [Process -> Name \X (Value \cup {NoBlob})]
  /\ tmp \in [Process -> File]
  /\ allowed \in [Name -> SUBSET (Value \cup {NoBlob})]

Init ==
  /\ visible = [n \in Name |-> NoFile]
  /\ maybe = [n \in Name |-> {NoFile}]
  /\ made = Durable \cup {Root} /\ sure = Durable
  /\ pc = [w \in Process |-> "idle"]
  /\ job \in [Process -> Name \X {NoBlob}]
  /\ tmp = [w \in Process |-> NoFile]
  /\ allowed = [n \in Name |-> {NoBlob}]

-----------------------------------------------------------------------------
Target(w)  == job[w][1]
Content(w) == job[w][2]

Goto(w, where) == pc' = [pc EXCEPT ![w] = where]

(* The directories that n needs. *)
Path(n) == {Root, DirOf[n]}

(* _resolve, mkdir of the parent and of its parents, mkstemp in it. *)
BeginPut(w, n, v) ==
  /\ pc[w] = "idle"
  /\ Goto(w, "write")
  /\ job' = [job EXCEPT ![w] = <<n, v>>]
  /\ made' = made \cup Path(n)
  /\ allowed' = [allowed EXCEPT ![n] = @ \cup {v}]
  /\ UNCHANGED <<visible, maybe, sure, tmp>>

WriteTemp(w) ==
  /\ pc[w] = "write"
  /\ tmp' = [tmp EXCEPT ![w] = [content |-> Content(w), synced |-> FALSE]]
  /\ Goto(w, "fsync")
  /\ UNCHANGED <<visible, maybe, made, sure, job, allowed>>

(* Mutant: the content is not fsynced before the rename.                   *)
FsyncTempSkipped(w) ==
  /\ pc[w] = "fsync"
  /\ Goto(w, "rename")
  /\ UNCHANGED <<visible, maybe, made, sure, job, tmp, allowed>>

FsyncTemp(w) ==
  /\ pc[w] = "fsync"
  /\ tmp' = [tmp EXCEPT ![w].synced = TRUE]
  /\ Goto(w, "rename")
  /\ UNCHANGED <<visible, maybe, made, sure, job, allowed>>

(* _atomic_publish, step 3. *)
Rename(w) ==
  /\ pc[w] = "rename"
  /\ visible' = [visible EXCEPT ![Target(w)] = tmp[w]]
  /\ maybe' = [maybe EXCEPT ![Target(w)] = @ \cup {tmp[w]}]
  /\ tmp' = [tmp EXCEPT ![w] = NoFile]
  /\ Goto(w, "commit")
  /\ UNCHANGED <<made, sure, job, allowed>>

(* delete: BlobNotFound changes nothing. *)
Unlink(w, n) ==
  /\ pc[w] = "idle"
  /\ visible[n] # NoFile
  /\ visible' = [visible EXCEPT ![n] = NoFile]
  /\ maybe' = [maybe EXCEPT ![n] = @ \cup {NoFile}]
  /\ job' = [job EXCEPT ![w] = <<n, NoBlob>>]
  /\ allowed' = [allowed EXCEPT ![n] = @ \cup {NoBlob}]
  /\ Goto(w, "commit")
  /\ UNCHANGED <<made, sure, tmp>>

(* Another process is in a call that changes n. *)
Contended(w, n) ==
  \E u \in Process \ {w} : pc[u] # "idle" /\ Target(u) = n

(* What a call on n that returns leaves permitted: what n is now, unless   *)
(* another call is under way; and none, if its directory may be lost.      *)
Acknowledge(w, n) ==
  allowed' = IF Contended(w, n)
             THEN allowed
             ELSE [allowed EXCEPT ![n] = {visible[n].content}
                                           \cup (IF Path(n) \subseteq sure' THEN {} ELSE {NoBlob})]

(* Mutant: the call returns without the fsync of the directory.            *)
FsyncDirSkipped(w) ==
  /\ pc[w] = "commit"
  /\ UNCHANGED <<visible, maybe, made, sure, job, tmp>>
  /\ Acknowledge(w, Target(w))
  /\ Goto(w, "idle")

(* _fsync_dir makes every change of the directory durable, the directories *)
(* made in it included, and the call returns.                              *)
FsyncDir(w) ==
  LET n == Target(w) IN
  /\ pc[w] = "commit"
  /\ maybe' = [m \in Name |-> IF DirOf[m] = DirOf[n] THEN {visible[m]} ELSE maybe[m]]
  /\ sure' = IF DirOf[n] = Root THEN sure \cup (made \ {Root}) ELSE sure
  /\ Acknowledge(w, n)
  /\ Goto(w, "idle")
  /\ UNCHANGED <<visible, made, job, tmp>>

(* OSError: the temporary file is unlinked and BackendError raised; or the *)
(* process dies.  After the rename the final name stays as it is.          *)
CallFails(w) ==
  /\ pc[w] # "idle"
  /\ tmp' = [tmp EXCEPT ![w] = NoFile]
  /\ Goto(w, "idle")
  /\ UNCHANGED <<visible, maybe, made, sure, job, allowed>>

-----------------------------------------------------------------------------
(* What is found of a file: its content, or anything if it was not synced. *)
Found(f) ==
  IF f.synced THEN {f} ELSE {[f EXCEPT !.synced = TRUE],
                             [content |-> Torn, synced |-> TRUE]}

(* The directories that are left; without the root none is. *)
Remaining == {D \in SUBSET made : IF Root \in D THEN sure \subseteq D
                                              ELSE D = {} /\ Root \notin sure}

PowerLoss ==
  /\ \E D \in Remaining : made' = D /\ sure' = D
  /\ visible' \in [Name -> UNION {UNION {Found(f) : f \in maybe[n]} : n \in Name}
                             \cup {NoFile}]
  /\ \A n \in Name :
       IF DirOf[n] \in made'
       THEN \E f \in maybe[n] : visible'[n] \in Found(f)
       ELSE visible'[n] = NoFile
  /\ maybe' = [n \in Name |-> {visible'[n]}]
  /\ pc' = [w \in Process |-> "idle"]
  /\ tmp' = [w \in Process |-> NoFile]
  /\ UNCHANGED <<job, allowed>>

Next ==
  \/ \E w \in Process :
       \/ \E n \in Name : (\E v \in Value : BeginPut(w, n, v)) \/ Unlink(w, n)
       \/ WriteTemp(w) \/ FsyncTemp(w) \/ Rename(w) \/ FsyncDir(w)
       \/ CallFails(w)
  \/ PowerLoss

Spec == Init /\ [][Next]_vars

-----------------------------------------------------------------------------
(* Properties. *)

(* A final name never holds a truncated or garbled file, whatever was      *)
(* going on when the power failed (cas/backend/base.py: the atomicity      *)
(* contract).                                                              *)
NoTornBlob == \A n \in Name : visible[n].content # Torn

(* A blob is what the last acknowledged call made it, or what a later call *)
(* that was not acknowledged was going to make it: a put that returned     *)
(* survives a power loss if its directories were on disk by then, and      *)
(* replacing a blob never loses it (cas/backend/local.py: after a crash at *)
(* any instant the final name holds the complete new content or the old    *)
(* content).                                                               *)
AcknowledgedSurvives == \A n \in Name : visible[n].content \in allowed[n]
=============================================================================
