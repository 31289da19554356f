----------------------------- MODULE InitProofs ------------------------------
(***************************************************************************)
(* Proofs about LocalBackend, for any names, directories, contents and     *)
(* number of processes, and about RepoInit, for any number of processes    *)
(* and keys.                                                               *)
(***************************************************************************)
EXTENDS RepoInit, BackendStore, TLAPS


-----------------------------------------------------------------------------
(* LocalBackend. *)

(* Only what was fsynced gets a final name, and what a name shows is among *)
(* what a power loss may leave of it.                                      *)
Intact ==
  /\ \A n \in Name : visible[n] \in maybe[n]
  /\ \A n \in Name : \A f \in maybe[n] : f.synced /\ f.content # Torn
  /\ \A w \in Process : pc[w] \in {"fsync", "rename"} => tmp[w].content = Content(w)
  /\ \A w \in Process : pc[w] = "rename" => tmp[w].synced

BackendInv == BackendTypeOK /\ Intact

(* What a power loss may leave is permitted, so is what a call that is     *)
(* under way is going to write, and nothing is promised of a blob whose    *)
(* place may be lost.                                                      *)
Promised ==
  /\ \A n \in Name : Path(n) \subseteq sure \/ NoBlob \in allowed[n]
  /\ \A n \in Name : \A f \in maybe[n] : f.content \in allowed[n]
  /\ \A w \in Process : pc[w] # "idle" => Content(w) \in allowed[Target(w)]

LEMMA FileFacts ==
  /\ NoFile \in File /\ NoFile.synced /\ NoFile.content = NoBlob
  /\ \A f \in File : f.synced => Found(f) = {f}
<1>1. NoFile \in File /\ NoFile.synced /\ NoFile.content = NoBlob
  BY DEF File, NoFile
<1>2. \A f \in File : f.synced => Found(f) = {f}
  BY DEF Found
<1> QED  BY <1>1, <1>2

LEMMA JobFacts ==
  ASSUME BackendTypeOK, NEW w \in Process
  PROVE  /\ Target(w) \in Name
         /\ Content(w) \in Value \cup {NoBlob} /\ Content(w) # Torn
  BY BackendAssumption DEF BackendTypeOK, Target, Content

LEMMA NewJob ==
  ASSUME BackendTypeOK, NEW w \in Process, NEW n \in Name, NEW v \in Value \cup {NoBlob},
         job' = [job EXCEPT ![w] = <<n, v>>]
  PROVE  /\ Target(w)' = n /\ Content(w)' = v
         /\ \A u \in Process \ {w} : Target(u)' = Target(u) /\ Content(u)' = Content(u)
  BY DEF BackendTypeOK, Target, Content

LEMMA SameJob ==
  ASSUME job' = job
  PROVE  \A u \in Process : Target(u)' = Target(u) /\ Content(u)' = Content(u)
  BY DEF Target, Content

-----------------------------------------------------------------------------
LEMMA BackendInit == Init => BackendInv
  BY BackendAssumption, FileFacts DEF Init, BackendInv, BackendTypeOK, Intact

LEMMA PowerLossFiles ==
  ASSUME BackendInv, PowerLoss, NEW n \in Name
  PROVE  visible'[n] \in maybe[n] \/ (DirOf[n] \notin made' /\ visible'[n] = NoFile)
<1>1. CASE DirOf[n] \in made'
  <2>1. PICK f \in maybe[n] : visible'[n] \in Found(f)
    BY <1>1 DEF PowerLoss
  <2>2. f \in File /\ f.synced
    BY <2>1 DEF BackendInv, BackendTypeOK, Intact
  <2> QED  BY <2>1, <2>2, FileFacts
<1>2. CASE DirOf[n] \notin made'
  BY <1>2 DEF PowerLoss
<1> QED  BY <1>1, <1>2

(* A place that is safe is still there.                                    *)
LEMMA SafePlaces ==
  ASSUME PowerLoss, NEW n \in Name, Path(n) \subseteq sure
  PROVE  Path(n) \subseteq made'
  BY DEF PowerLoss, Remaining, Path

LEMMA TypeStep ==
  ASSUME BackendInv, [Next]_vars
  PROVE  BackendTypeOK'
<1> USE DEF BackendTypeOK, Goto
<1>0. BackendTypeOK
  BY DEF BackendInv
<1>1. ASSUME NEW w \in Process, NEW n \in Name, NEW v \in Value, BeginPut(w, n, v)
      PROVE  BackendTypeOK'
  <2>1. Path(n) \subseteq Dir
    BY BackendAssumption DEF Path
  <2>2. made' \subseteq Dir /\ sure' \subseteq made'
    BY <1>0, <1>1, <2>1 DEF BeginPut
  <2>3. allowed' \in [Name -> SUBSET (Value \cup {NoBlob})]
    BY <1>0, <1>1 DEF BeginPut
  <2> QED  BY <1>0, <1>1, <2>2, <2>3 DEF BeginPut
<1>2. ASSUME NEW w \in Process, NEW n \in Name, Unlink(w, n)
      PROVE  BackendTypeOK'
  BY <1>0, <1>2, FileFacts DEF Unlink
<1>3. ASSUME NEW w \in Process, WriteTemp(w)
      PROVE  BackendTypeOK'
  BY <1>0, <1>3, JobFacts DEF WriteTemp, File
<1>4. ASSUME NEW w \in Process, FsyncTemp(w)
      PROVE  BackendTypeOK'
  <2>1. [tmp[w] EXCEPT !.synced = TRUE] \in File
    <3>1. tmp[w] \in File
      BY <1>0
    <3> QED  BY ONLY <3>1 DEF File
  <2> QED  BY <1>0, <1>4, <2>1 DEF FsyncTemp
<1>5. ASSUME NEW w \in Process, Rename(w)
      PROVE  BackendTypeOK'
  BY <1>0, <1>5, FileFacts, JobFacts DEF Rename
<1>6. ASSUME NEW w \in Process, FsyncDir(w)
      PROVE  BackendTypeOK'
  <2>n. Target(w) \in Name
    BY <1>0, JobFacts
  <2>s. visible[Target(w)] \in File /\ visible[Target(w)].content # Torn
    BY <1>0, <2>n DEF BackendInv, Intact
  <2>1. visible[Target(w)].content \in Value \cup {NoBlob}
    BY <2>s DEF File
  <2>2. allowed' \in [Name -> SUBSET (Value \cup {NoBlob})]
    BY <1>0, <1>6, <2>n, <2>1 DEF FsyncDir, Acknowledge
  <2> QED  BY <1>0, <1>6, <2>2 DEF FsyncDir
<1>7. ASSUME NEW w \in Process, CallFails(w)
      PROVE  BackendTypeOK'
  BY <1>0, <1>7, FileFacts DEF CallFails
<1>8. CASE PowerLoss
  <2>1. \A n \in Name : visible'[n] \in File
    BY <1>0, <1>8, PowerLossFiles, FileFacts
  <2>2. made' \subseteq Dir /\ sure' \subseteq made'
    BY <1>0, <1>8 DEF PowerLoss, Remaining
  <2> QED  BY <1>0, <1>8, <2>1, <2>2, FileFacts DEF PowerLoss
<1>9. CASE UNCHANGED vars
  BY <1>0, <1>9 DEF vars
<1> QED
  BY <1>1, <1>2, <1>3, <1>4, <1>5, <1>6, <1>7, <1>8, <1>9 DEF Next

LEMMA IntactStep ==
  ASSUME BackendInv, [Next]_vars
  PROVE  Intact'
<1> USE DEF Intact, Goto
<1>0. BackendTypeOK /\ Intact
  BY DEF BackendInv
<1>n. NoBlob # Torn
  BY BackendAssumption
<1>1. ASSUME NEW w \in Process, NEW n \in Name, NEW v \in Value, BeginPut(w, n, v)
      PROVE  Intact'
  <2>1. pc'[w] = "write" /\ \A u \in Process \ {w} : pc'[u] = pc[u]
    BY <1>0, <1>1 DEF BeginPut, BackendTypeOK
  <2>2. \A u \in Process \ {w} : Content(u)' = Content(u)
    BY <1>0, <1>1, NewJob DEF BeginPut
  <2> QED  BY <1>0, <1>1, <2>1, <2>2 DEF BeginPut
<1>2. ASSUME NEW w \in Process, NEW n \in Name, Unlink(w, n)
      PROVE  Intact'
  <2>1. pc'[w] = "commit" /\ \A u \in Process \ {w} : pc'[u] = pc[u]
    BY <1>0, <1>2 DEF Unlink, BackendTypeOK
  <2>2. \A u \in Process \ {w} : Content(u)' = Content(u)
    BY <1>0, <1>2, NewJob DEF Unlink
  <2>3. \A m \in Name : /\ visible'[m] \in maybe'[m]
                         /\ maybe'[m] \subseteq maybe[m] \cup {NoFile}
    BY <1>0, <1>2 DEF Unlink, BackendTypeOK
  <2> QED  BY <1>0, <1>2, <1>n, <2>1, <2>2, <2>3, FileFacts DEF Unlink
<1>3. ASSUME NEW w \in Process, WriteTemp(w)
      PROVE  Intact'
  BY <1>0, <1>3, SameJob DEF WriteTemp, BackendTypeOK
<1>4. ASSUME NEW w \in Process, FsyncTemp(w)
      PROVE  Intact'
  <2>1. tmp'[w].synced /\ tmp'[w].content = tmp[w].content
    BY <1>0, <1>4 DEF FsyncTemp, BackendTypeOK, File
  <2>2. \A u \in Process \ {w} : tmp'[u] = tmp[u] /\ pc'[u] = pc[u]
    BY <1>0, <1>4 DEF FsyncTemp, BackendTypeOK
  <2> QED  BY <1>0, <1>4, <2>1, <2>2, SameJob DEF FsyncTemp
<1>5. ASSUME NEW w \in Process, Rename(w)
      PROVE  Intact'
  BY <1>0, <1>5, JobFacts, SameJob DEF Rename, BackendTypeOK
<1>6. ASSUME NEW w \in Process, FsyncDir(w)
      PROVE  Intact'
  BY <1>0, <1>6, SameJob DEF FsyncDir, BackendTypeOK
<1>7. ASSUME NEW w \in Process, CallFails(w)
      PROVE  Intact'
  BY <1>0, <1>7, SameJob DEF CallFails, BackendTypeOK
<1>8. CASE PowerLoss
  <2>1. \A n \in Name : visible'[n].synced /\ visible'[n].content # Torn
    BY <1>0, <1>8, <1>n, PowerLossFiles, FileFacts
  <2> QED  BY <1>8, <2>1 DEF PowerLoss
<1>9. CASE UNCHANGED vars
  BY <1>0, <1>9, SameJob DEF vars
<1> QED
  BY <1>1, <1>2, <1>3, <1>4, <1>5, <1>6, <1>7, <1>8, <1>9 DEF Next

LEMMA BackendStep == BackendInv /\ [Next]_vars => BackendInv'
  BY TypeStep, IntactStep DEF BackendInv

THEOREM BackendCorrect == Spec => []BackendInv
  BY BackendInit, BackendStep, PTL DEF Spec

(* The type invariant, for any number of processes and names.              *)
THEOREM BackendTypeCorrect == Spec => []BackendTypeOK
  BY BackendCorrect, PTL DEF BackendInv

(* No final name ever holds a torn file (local.py, step 2), whether or not *)
(* the directories of the repository are durable.                          *)
THEOREM BlobsIntact == Spec => []NoTornBlob
<1>1. BackendInv => NoTornBlob
  BY DEF BackendInv, Intact, NoTornBlob
<1> QED  BY <1>1, BackendCorrect, PTL

-----------------------------------------------------------------------------
LEMMA PromisedStep ==
  ASSUME BackendInv, Promised, [Next]_vars
  PROVE  Promised'
<1> USE DEF Promised, Goto
<1>0. BackendTypeOK /\ Intact
  BY DEF BackendInv
<1>1. ASSUME NEW w \in Process, NEW n \in Name, NEW v \in Value, BeginPut(w, n, v)
      PROVE  Promised'
  <2>1. Target(w)' = n /\ Content(w)' = v
    BY <1>0, <1>1, NewJob DEF BeginPut
  <2>2. \A u \in Process \ {w} :
          pc'[u] = pc[u] /\ Target(u)' = Target(u) /\ Content(u)' = Content(u)
    BY <1>0, <1>1, NewJob DEF BeginPut, BackendTypeOK
  <2>3. v \in allowed'[n] /\ \A m \in Name : allowed[m] \subseteq allowed'[m]
    BY <1>0, <1>1 DEF BeginPut, BackendTypeOK
  <2> QED  BY <1>0, <1>1, <2>1, <2>2, <2>3, JobFacts DEF BeginPut
<1>2. ASSUME NEW w \in Process, NEW n \in Name, Unlink(w, n)
      PROVE  Promised'
  <2>1. Target(w)' = n /\ Content(w)' = NoBlob
    BY <1>0, <1>2, NewJob DEF Unlink
  <2>2. \A u \in Process \ {w} :
          pc'[u] = pc[u] /\ Target(u)' = Target(u) /\ Content(u)' = Content(u)
    BY <1>0, <1>2, NewJob DEF Unlink, BackendTypeOK
  <2>3. NoBlob \in allowed'[n] /\ \A m \in Name : allowed[m] \subseteq allowed'[m]
    BY <1>0, <1>2 DEF Unlink, BackendTypeOK
  <2>4. \A m \in Name : \A f \in maybe'[m] : f \in maybe[m] \/ (m = n /\ f = NoFile)
    BY <1>0, <1>2 DEF Unlink, BackendTypeOK
  <2> QED  BY <1>0, <1>2, <2>1, <2>2, <2>3, <2>4, JobFacts, FileFacts DEF Unlink
<1>3. ASSUME NEW w \in Process, WriteTemp(w) \/ FsyncTemp(w) \/ CallFails(w)
      PROVE  Promised'
  BY <1>0, <1>3, SameJob DEF WriteTemp, FsyncTemp, CallFails, BackendTypeOK
<1>4. ASSUME NEW w \in Process, Rename(w)
      PROVE  Promised'
  <2>1. tmp[w].content \in allowed[Target(w)]
    BY <1>0, <1>4 DEF Rename, Intact
  <2> QED  BY <1>0, <1>4, <2>1, SameJob, JobFacts DEF Rename, BackendTypeOK
<1>5. ASSUME NEW w \in Process, FsyncDir(w)
      PROVE  Promised'
  <2> DEFINE n == Target(w)
  <2>0. n \in Name
    BY <1>0, JobFacts
  <2>1. sure \subseteq sure'
    BY <1>5 DEF FsyncDir
  <2>2. \A m \in Name : maybe'[m] \subseteq maybe[m]
    BY <1>0, <1>5 DEF FsyncDir, BackendTypeOK, Intact
  <2>3. maybe'[n] = {visible[n]} /\ visible[n].content \in allowed[n]
    BY <1>0, <1>5, <2>0 DEF FsyncDir, BackendTypeOK, Intact
  <2>4. \A u \in Process : pc'[u] # "idle" => u # w /\ pc[u] # "idle"
    BY <1>0, <1>5 DEF FsyncDir, BackendTypeOK
  <2>5. CASE Contended(w, n)
    <3>1. allowed' = allowed
      BY <1>5, <2>5 DEF FsyncDir, Acknowledge
    <3> QED  BY <1>5, <2>1, <2>2, <2>4, <3>1, SameJob DEF FsyncDir
  <2>6. CASE ~Contended(w, n)
    <3> DEFINE now == {visible[n].content} \cup (IF Path(n) \subseteq sure' THEN {} ELSE {NoBlob})
    <3>1. \A u \in Process : pc'[u] # "idle" => Target(u) # n
      BY <2>4, <2>6 DEF Contended
    <3>2. allowed' = [allowed EXCEPT ![n] = now]
      BY <1>5, <2>6 DEF FsyncDir, Acknowledge
    <3>3. \A m \in Name \ {n} : allowed'[m] = allowed[m]
      BY <1>0, <3>2 DEF BackendTypeOK
    <3>4. allowed'[n] = now
      BY <1>0, <2>0, <3>2 DEF BackendTypeOK
    <3>5. \A u \in Process : pc'[u] # "idle" => Content(u) \in allowed'[Target(u)]
      BY <1>0, <2>4, <3>1, <3>3, JobFacts
    <3>6. \A m \in Name : \A f \in maybe'[m] : f.content \in allowed'[m]
      BY <2>2, <2>3, <3>3, <3>4
    <3>7. \A m \in Name : Path(m) \subseteq sure' \/ NoBlob \in allowed'[m]
      BY <2>1, <3>3, <3>4
    <3> QED  BY <1>5, <3>5, <3>6, <3>7, SameJob DEF FsyncDir
  <2> QED  BY <2>5, <2>6
<1>6. CASE PowerLoss
  <2>1. sure' = made' /\ allowed' = allowed
    BY <1>6 DEF PowerLoss
  <2>a. \A m \in Name : Path(m) \subseteq sure => Path(m) \subseteq made'
    BY <1>6, SafePlaces
  <2>2. \A m \in Name : visible'[m] \in maybe[m] \/ (~ (Path(m) \subseteq sure) /\ visible'[m] = NoFile)
    BY <1>6, <2>a, PowerLossFiles DEF Path
  <2>3. \A m \in Name : maybe'[m] = {visible'[m]}
    BY <1>6 DEF PowerLoss
  <2>4. \A u \in Process : pc'[u] = "idle"
    BY <1>6 DEF PowerLoss
  <2>5. \A m \in Name : \A f \in maybe'[m] : f.content \in allowed'[m]
    BY <2>1, <2>2, <2>3, FileFacts
  <2> QED  BY <2>1, <2>a, <2>4, <2>5
<1>7. CASE UNCHANGED vars
  BY <1>7, SameJob DEF vars
<1> QED
  BY <1>1, <1>2, <1>3, <1>4, <1>5, <1>6, <1>7 DEF Next

(* A call that returned when its directories were on disk survives every   *)
(* power loss, and a blob is never anything but the result of the last     *)
(* acknowledged call or of a later one (base.py: atomicity).               *)
THEOREM AcknowledgedKept == Spec => []AcknowledgedSurvives
<1>1. Init => Promised
  BY FileFacts DEF Init, Promised
<1>2. BackendInv /\ Promised /\ [Next]_vars => Promised'
  BY PromisedStep
<1>3. BackendInv /\ Promised => AcknowledgedSurvives
  BY DEF BackendInv, Intact, Promised, AcknowledgedSurvives
<1> QED  BY <1>1, <1>2, <1>3, BackendCorrect, PTL DEF Spec

-----------------------------------------------------------------------------
(* BackendStore. *)

(* The stage of a call follows its place in the code.                      *)
LEMMA StageSteps ==
  ASSUME BackendTypeOK
  PROVE  /\ \A u \in Process : /\ StageOf(u) = "none" <=> pc[u] = "idle"
                               /\ StageOf(u) = "done" <=> pc[u] = "commit"
                               /\ StageOf(u) \in {"none", "asked", "done"}
         /\ \A u \in Process : pc'[u] = pc[u] => StageOf(u)' = StageOf(u)
         /\ \A u \in Process : /\ pc'[u] = "idle" => StageOf(u)' = "none"
                               /\ pc'[u] = "commit" => StageOf(u)' = "done"
                               /\ pc'[u] \in {"write", "fsync", "rename"} => StageOf(u)' = "asked"
  BY DEF BackendTypeOK, StageOf

(* One process moves on.                                                   *)
LEMMA StageMoves ==
  ASSUME BackendTypeOK, NEW w \in Process, NEW p, NEW s, Goto(w, p),
         StageOf(w)' = s
  PROVE  [u \in Process |-> StageOf(u)]' = [[u \in Process |-> StageOf(u)] EXCEPT ![w] = s]
<1>1. \A u \in Process \ {w} : pc'[u] = pc[u]
  BY DEF Goto, BackendTypeOK
<1>2. \A u \in Process \ {w} : StageOf(u)' = StageOf(u)
  BY <1>1, StageSteps
<1> QED  BY <1>2

(* A file gets a name, or loses it.                                        *)
LEMMA BlobChanges ==
  ASSUME BackendTypeOK, NEW n \in Name, NEW f,
         visible' = [visible EXCEPT ![n] = f],
         maybe' = [maybe EXCEPT ![n] = @ \cup {f}]
  PROVE  Store!Change(n, f.content)
<1> DEFINE b == [m \in Name |-> visible[m].content]
           l == [m \in Name |-> {g.content : g \in maybe[m]}]
<1>1. [m \in Name |-> visible'[m].content] = [b EXCEPT ![n] = f.content]
  BY DEF BackendTypeOK
<1>2. [m \in Name |-> {g.content : g \in maybe'[m]}] = [l EXCEPT ![n] = @ \cup {f.content}]
  <2>1. \A m \in Name \ {n} : maybe'[m] = maybe[m]
    BY DEF BackendTypeOK
  <2>2. maybe'[n] = maybe[n] \cup {f}
    BY DEF BackendTypeOK
  <2>3. {g.content : g \in maybe'[n]} = {g.content : g \in maybe[n]} \cup {f.content}
    BY <2>2
  <2>4. \A m \in Name \ {n} : {g.content : g \in maybe'[m]} = {g.content : g \in maybe[m]}
    BY <2>1
  <2> QED  BY <2>3, <2>4
<1> QED  BY <1>1, <1>2 DEF Store!Change

LEMMA ContractInit == Init => Store!StoreInit
<1> SUFFICES ASSUME Init PROVE Store!StoreInit
  OBVIOUS
<1>1. [n \in Name |-> visible[n].content] = [n \in Name |-> NoBlob]
  BY FileFacts DEF Init
<1>2. [n \in Name |-> {f.content : f \in maybe[n]}] = [n \in Name |-> {NoBlob}]
  BY FileFacts DEF Init
<1>3. [w \in Process |-> StageOf(w)] = [w \in Process |-> "none"]
  BY DEF Init, StageOf
<1> QED  BY <1>1, <1>2, <1>3 DEF Init, Store!StoreInit

LEMMA ContractStep ==
  ASSUME BackendInv, [Next]_vars
  PROVE  [Store!StoreNext]_(Store!storeVars)
<1> DEFINE blobs == [n \in Name |-> visible[n].content]
           left  == [n \in Name |-> {f.content : f \in maybe[n]}]
           firm  == {n \in Name : Path(n) \subseteq sure}
           stage == [w \in Process |-> StageOf(w)]
<1>0. BackendTypeOK /\ Intact
  BY DEF BackendInv
<1>s. /\ UNCHANGED visible => UNCHANGED blobs
      /\ UNCHANGED maybe => UNCHANGED left
      /\ UNCHANGED sure => UNCHANGED firm
  OBVIOUS
<1>t. \A w \in Process : stage[w] = StageOf(w)
  OBVIOUS
<1>g. (firm \subseteq firm')  <=> \A n \in Name : Path(n) \subseteq sure => Path(n) \subseteq sure'
  OBVIOUS
<1>1. ASSUME NEW w \in Process, NEW n \in Name, NEW v \in Value, BeginPut(w, n, v)
      PROVE  Store!StoreNext
  <2>1. stage[w] = "none" /\ pc'[w] = "write"
    BY <1>0, <1>1, StageSteps DEF BeginPut, Goto, BackendTypeOK
  <2>2. stage' = [stage EXCEPT ![w] = "asked"]
    BY <1>0, <1>1, <2>1, StageSteps, StageMoves DEF BeginPut
  <2>3. Store!Put(w, n, v)
    BY <1>1, <1>s, <2>1, <2>2 DEF BeginPut, Store!Put, Store!Become
  <2> QED  BY <2>3 DEF Store!StoreNext
<1>2. ASSUME NEW w \in Process, NEW n \in Name, Unlink(w, n)
      PROVE  Store!StoreNext
  <2>1. stage[w] = "none" /\ pc'[w] = "commit"
    BY <1>0, <1>2, StageSteps DEF Unlink, Goto, BackendTypeOK
  <2>2. stage' = [stage EXCEPT ![w] = "done"]
    BY <1>0, <1>2, <2>1, StageSteps, StageMoves DEF Unlink
  <2>3. blobs[n] # NoBlob
    <3>1. visible[n] \in File /\ visible[n].synced /\ visible[n] # NoFile
      BY <1>0, <1>2 DEF Unlink, BackendTypeOK, Intact
    <3> QED  BY <3>1 DEF File, NoFile
  <2>4. Store!Change(n, NoBlob)
    BY <1>0, <1>2, BlobChanges, FileFacts DEF Unlink
  <2>5. Store!Delete(w, n)
    BY <1>2, <1>s, <2>1, <2>2, <2>3, <2>4 DEF Unlink, Store!Delete, Store!Become
  <2> QED  BY <2>5 DEF Store!StoreNext
<1>3. ASSUME NEW w \in Process, WriteTemp(w) \/ FsyncTemp(w)
      PROVE  UNCHANGED Store!storeVars
  <2>1. \E p \in {"fsync", "rename"} : Goto(w, p) /\ pc'[w] = p
    BY <1>0, <1>3 DEF WriteTemp, FsyncTemp, Goto, BackendTypeOK
  <2>2. StageOf(w) = "asked"
    BY <1>3 DEF WriteTemp, FsyncTemp, StageOf
  <2>3. stage' = [stage EXCEPT ![w] = "asked"]
    BY <1>0, <2>1, StageSteps, StageMoves
  <2>4. stage' = stage
    BY <2>2, <2>3
  <2> QED  BY <1>3, <1>s, <2>4 DEF WriteTemp, FsyncTemp, Store!storeVars
<1>4. ASSUME NEW w \in Process, Rename(w)
      PROVE  Store!StoreNext
  <2>1. stage[w] = "asked" /\ pc'[w] = "commit"
    BY <1>0, <1>4 DEF Rename, Goto, BackendTypeOK, StageOf
  <2>2. stage' = [stage EXCEPT ![w] = "done"]
    BY <1>0, <1>4, <2>1, StageSteps, StageMoves DEF Rename
  <2>3. Store!Change(Target(w), Content(w))
    <3>1. tmp[w].content = Content(w) /\ Target(w) \in Name
      BY <1>0, <1>4, JobFacts DEF Rename, Intact
    <3>2. PICK n \in Name, f \in {tmp[w]} : n = Target(w) /\ f = tmp[w]
      BY <3>1
    <3>3. Store!Change(n, f.content)
      BY <1>0, <1>4, <3>2, BlobChanges DEF Rename
    <3> QED  BY <3>1, <3>2, <3>3 DEF Store!Change
  <2>4. Store!TakeEffect(w)
    BY <1>4, <1>s, <2>1, <2>2, <2>3 DEF Rename, Store!TakeEffect, Store!Become, Target, Content
  <2> QED  BY <2>4 DEF Store!StoreNext
<1>5. ASSUME NEW w \in Process, FsyncDir(w)
      PROVE  Store!StoreNext
  <2> DEFINE N == {m \in Name : DirOf[m] = DirOf[Target(w)]}
  <2>1. stage[w] = "done" /\ pc'[w] = "idle"
    BY <1>0, <1>5, StageSteps DEF FsyncDir, Goto, BackendTypeOK
  <2>2. stage' = [stage EXCEPT ![w] = "none"]
    BY <1>0, <1>5, <2>1, StageSteps, StageMoves DEF FsyncDir
  <2>3. Target(w) \in N /\ N \in SUBSET Name
    BY <1>0, JobFacts
  <2>4. left' = [m \in Name |-> IF m \in N THEN {blobs[m]} ELSE left[m]]
    <3>1. \A m \in Name : maybe'[m] = IF m \in N THEN {visible[m]} ELSE maybe[m]
      BY <1>5 DEF FsyncDir
    <3>2. \A m \in Name : {f.content : f \in maybe'[m]}
                            = IF m \in N THEN {visible[m].content} ELSE {f.content : f \in maybe[m]}
      BY <3>1
    <3> QED  BY <3>2
  <2>a. sure \subseteq sure'
    BY <1>5 DEF FsyncDir
  <2>5. firm \subseteq firm' /\ firm' \in SUBSET Name
    BY <2>a, <1>g
  <2>6. Store!Return(w)
    BY <1>5, <1>s, <2>1, <2>2, <2>3, <2>4, <2>5 DEF FsyncDir, Store!Return, Store!Become, Target
  <2> QED  BY <2>6 DEF Store!StoreNext
<1>6. ASSUME NEW w \in Process, CallFails(w)
      PROVE  Store!StoreNext
  <2>1. stage[w] # "none" /\ pc'[w] = "idle"
    BY <1>0, <1>6, StageSteps DEF CallFails, Goto, BackendTypeOK
  <2>2. stage' = [stage EXCEPT ![w] = "none"]
    BY <1>0, <1>6, <2>1, StageSteps, StageMoves DEF CallFails
  <2>3. Store!Fail(w)
    BY <1>6, <1>s, <2>1, <2>2 DEF CallFails, Store!Fail, Store!Become
  <2> QED  BY <2>3 DEF Store!StoreNext
<1>7. CASE PowerLoss
  <2>a. sure' = made' /\ job' = job
    BY <1>7 DEF PowerLoss
  <2>b. \A m \in Name : Path(m) \subseteq sure => Path(m) \subseteq made'
    BY <1>7, SafePlaces
  <2>1. firm \subseteq firm' /\ firm' \in SUBSET Name
    BY <2>a, <2>b, <1>g
  <2>2. \A m \in Name : visible'[m] \in maybe[m] \/ (~ (Path(m) \subseteq sure) /\ visible'[m] = NoFile)
    BY <1>7, <2>b, PowerLossFiles DEF Path
  <2>3. \A m \in Name : /\ blobs'[m] = visible'[m].content
                         /\ left[m] = {f.content : f \in maybe[m]}
                         /\ m \in firm <=> Path(m) \subseteq sure
    OBVIOUS
  <2>4. \A m \in Name : blobs'[m] \in left[m] \/ (m \notin firm /\ blobs'[m] = NoBlob)
    BY <2>2, <2>3, FileFacts
  <2>5. blobs' \in [Name -> Value \cup {NoBlob}]
    <3>1. \A m \in Name : visible'[m] \in File /\ visible'[m].content # Torn
      BY BackendStep DEF BackendInv, BackendTypeOK, Intact
    <3> QED  BY <3>1 DEF File
  <2>6. left' = [m \in Name |-> {blobs'[m]}]
    BY <1>7 DEF PowerLoss
  <2>7. stage' = [w \in Process |-> "none"]
    BY <1>0, <1>7, StageSteps DEF PowerLoss
  <2>8. Store!Crash
    BY <2>a, <2>1, <2>4, <2>5, <2>6, <2>7 DEF Store!Crash
  <2> QED  BY <2>8 DEF Store!StoreNext
<1>8. CASE UNCHANGED vars
  BY <1>8 DEF vars, Store!storeVars, StageOf
<1> QED
  BY <1>1, <1>2, <1>3, <1>4, <1>5, <1>6, <1>7, <1>8 DEF Next

(* The local backend implements the blob store of base.py, wherever its    *)
(* directories are and whatever calls overlap, fail or die.                *)
THEOREM ImplementsStore == Spec => StoreContract
  BY ContractInit, ContractStep, BackendCorrect, PTL DEF Spec, StoreContract, Store!StoreSpec

-----------------------------------------------------------------------------
(* RepoInit. *)

Written(v) == [content |-> v, synced |-> TRUE]

Calling == {"stamping", "keying", "storing"}

(* Phases, calls and contents belong together. *)
PhaseSound ==
  /\ phase \in [Process -> Phases]
  /\ key \in [Process -> Key \cup {NoBlob}]
  /\ spent \subseteq Key /\ confirmed \subseteq Key
  /\ overlapped \in BOOLEAN /\ exposed \in BOOLEAN
  /\ \A w \in Process : pc[w] = "idle" <=> phase[w] \notin Calling
  /\ \A w \in Process :
       /\ phase[w] = "stamping" => Target(w) = Config /\ Content(w) = Stamp
       /\ phase[w] = "keying"   => Target(w) = KeyName /\ Content(w) \in Key
       /\ phase[w] = "storing"  => Target(w) = Pack /\ Content(w) = key[w]
       /\ phase[w] \in InSession => key[w] \in Key

(* What the blobs may be, and that a key needs a config that stays. *)
BlobsSound ==
  /\ maybe[Config] \subseteq {NoFile, Written(Stamp)}
  /\ maybe[KeyName] \subseteq {NoFile} \cup {Written(k) : k \in Key}
  /\ \A w \in Process :
       phase[w] = "stamping" /\ pc[w] = "commit" => visible[Config] = Written(Stamp)
  /\ \A w \in Process : phase[w] \in {"key", "keying"} => maybe[Config] = {Written(Stamp)}
  /\ maybe[KeyName] # {NoFile} => maybe[Config] = {Written(Stamp)}

InitInv == BackendInv /\ PhaseSound /\ BlobsSound

LEMMA NameFacts ==
  /\ Config \in Name /\ KeyName \in Name /\ Pack \in Name
  /\ Config # KeyName /\ Config # Pack /\ KeyName # Pack
  /\ Key \subseteq Value /\ Stamp \in Value /\ Stamp \notin Key /\ NoBlob \notin Value
  BY InitAssumption, BackendAssumption

LEMMA WrittenFacts ==
  \A v \in Value : Written(v) # NoFile /\ Written(v).content = v
  BY NameFacts DEF Written, NoFile

repoVars == <<vars, initVars>>

(* Every step is a step of LocalBackend, or leaves the backend alone. *)
LEMMA BackendSteps ==
  ASSUME InitInv, [RepoNext]_repoVars
  PROVE  [Next]_vars
<1>1. ASSUME NEW w \in Process, PutConfig(w) \/ PutKey(w) \/ Return(w) \/ Raise(w) \/ Call(w)
      PROVE  Next
  BY <1>1, NameFacts DEF PutConfig, PutKey, Return, Raise, Call, Next
<1>2. ASSUME NEW w \in Process, StoreData(w)
      PROVE  Next
  <2>1. key[w] \in Value
    BY <1>2, NameFacts DEF StoreData, At, InitInv, PhaseSound, InSession
  <2> QED  BY <1>2, <2>1, NameFacts DEF StoreData, Next
<1>3. ASSUME NEW w \in Process, CheckConfig(w) \/ ReadConfig(w) \/ ReadKey(w) \/ Close(w) \/ Die(w)
      PROVE  UNCHANGED vars
  BY <1>3 DEF CheckConfig, ReadConfig, ReadKey, Close, Die
<1>4. Blackout => Next
  BY DEF Blackout, Next
<1>5. UNCHANGED repoVars => UNCHANGED vars
  BY DEF repoVars
<1> QED  BY <1>1, <1>2, <1>3, <1>4, <1>5 DEF RepoNext

(* What a step does to the files. *)
LEMMA PublishedFile ==
  ASSUME BackendInv, NEW w \in Process, Rename(w)
  PROVE  /\ Target(w) \in Name /\ tmp[w] = Written(Content(w))
         /\ visible' = [visible EXCEPT ![Target(w)] = Written(Content(w))]
         /\ maybe' = [maybe EXCEPT ![Target(w)] = @ \cup {Written(Content(w))}]
         /\ pc'[w] = "commit" /\ \A u \in Process \ {w} : pc'[u] = pc[u]
<1>1. tmp[w] \in File /\ tmp[w].synced /\ tmp[w].content = Content(w)
  BY DEF Rename, BackendInv, BackendTypeOK, Intact
<1>2. tmp[w] = Written(Content(w))
  BY <1>1 DEF File, Written
<1>3. Target(w) \in Name
  BY JobFacts DEF BackendInv
<1> QED  BY <1>2, <1>3 DEF Rename, Goto, BackendInv, BackendTypeOK

LEMMA SettledFiles ==
  ASSUME BackendInv, NEW w \in Process, FsyncDir(w)
  PROVE  /\ Target(w) \in Name /\ maybe'[Target(w)] = {visible[Target(w)]}
         /\ \A m \in Name : maybe'[m] \subseteq maybe[m] /\ maybe'[m] # {}
         /\ visible' = visible
         /\ pc'[w] = "idle" /\ \A u \in Process \ {w} : pc'[u] = pc[u]
<1>1. Target(w) \in Name
  BY JobFacts DEF BackendInv
<1> QED  BY <1>1 DEF FsyncDir, Goto, BackendInv, BackendTypeOK, Intact

LEMMA LeftFiles ==
  ASSUME BackendInv, Blackout
  PROVE  /\ \A m \in Name : maybe'[m] = {visible'[m]}
         /\ \A m \in Name : visible'[m] \in maybe[m] \cup {NoFile}
         /\ \A m \in Name : DirOf[m] \in made' => visible'[m] \in maybe[m]
         /\ \A m \in Name : Path(m) \subseteq sure => visible'[m] \in maybe[m]
         /\ Root \in made' \/ \A m \in Name : visible'[m] = NoFile
         /\ \A w \in Process : phase'[w] = "none" /\ pc'[w] = "idle"
<1>1. PowerLoss
  BY DEF Blackout
<1>2. \A m \in Name : DirOf[m] \in made' => visible'[m] \in maybe[m]
  BY <1>1, PowerLossFiles, FileFacts DEF PowerLoss, BackendInv, BackendTypeOK, Intact
<1>3. \A m \in Name : Path(m) \subseteq sure => visible'[m] \in maybe[m]
  BY <1>1, <1>2, SafePlaces DEF Path
<1>4. \A m \in Name : DirOf[m] \notin made' => visible'[m] = NoFile
  BY <1>1 DEF PowerLoss
<1>5. Root \in made' \/ made' = {}
  BY <1>1 DEF PowerLoss, Remaining
<1>6. /\ \A m \in Name : maybe'[m] = {visible'[m]}
      /\ \A w \in Process : phase'[w] = "none" /\ pc'[w] = "idle"
  BY <1>1 DEF Blackout, PowerLoss
<1> QED  BY <1>2, <1>3, <1>4, <1>5, <1>6

-----------------------------------------------------------------------------
LEMMA InitialInv == RepoInitial => InitInv
<1> SUFFICES ASSUME RepoInitial PROVE InitInv
  OBVIOUS
<1>1. BackendInv
  BY BackendInit DEF RepoInitial
<1>2. PhaseSound
  BY DEF RepoInitial, PhaseSound, Init, Phases, Calling, InSession, Initing
<1>3. BlobsSound
  BY NameFacts DEF RepoInitial, BlobsSound, Init
<1> QED  BY <1>1, <1>2, <1>3 DEF InitInv

LEMMA PhaseStep ==
  ASSUME InitInv, [RepoNext]_repoVars
  PROVE  PhaseSound'
<1> USE DEF PhaseSound, Calling, InSession, Phases, Initing
<1>0. PhaseSound /\ BackendTypeOK /\ pc \in [Process -> {"idle", "write", "fsync", "rename", "commit"}]
  BY DEF InitInv, BackendInv, BackendTypeOK
<1>1. ASSUME NEW w \in Process, CheckConfig(w) \/ ReadConfig(w) \/ Close(w) \/ Die(w)
      PROVE  PhaseSound'
  BY <1>0, <1>1, SameJob DEF CheckConfig, ReadConfig, Close, Die, At, Enter, vars
<1>2. ASSUME NEW w \in Process, ReadKey(w)
      PROVE  PhaseSound'
  <2>1. visible[KeyName] \in maybe[KeyName]
    BY NameFacts DEF InitInv, BackendInv, Intact
  <2>2. visible[KeyName] # NoFile => visible[KeyName].content \in Key
    BY <2>1 DEF InitInv, BlobsSound, Written
  <2> QED  BY <1>0, <1>2, <2>2, SameJob DEF ReadKey, At, Enter, vars
<1>3. ASSUME NEW w \in Process, NEW n \in Name, NEW v \in Value, BeginPut(w, n, v),
             NEW ph \in Calling, Enter(w, ph), key' = key, confirmed' = confirmed,
             overlapped' = overlapped, exposed' = exposed,
             spent' \subseteq Key,
             \/ ph = "stamping" /\ n = Config /\ v = Stamp
             \/ ph = "keying" /\ n = KeyName /\ v \in Key
             \/ ph = "storing" /\ n = Pack /\ v = key[w] /\ v \in Key
      PROVE  PhaseSound'
  <2>1. /\ Target(w)' = n /\ Content(w)' = v
        /\ \A u \in Process \ {w} : Target(u)' = Target(u) /\ Content(u)' = Content(u)
    BY <1>0, <1>3, NewJob DEF BeginPut
  <2>2. pc'[w] = "write" /\ \A u \in Process \ {w} : pc'[u] = pc[u]
    BY <1>0, <1>3 DEF BeginPut, Goto
  <2>3. phase' \in [Process -> Phases] /\ phase'[w] = ph /\ \A u \in Process \ {w} : phase'[u] = phase[u]
    BY <1>0, <1>3 DEF Enter
  <2> QED  BY <1>0, <1>3, <2>1, <2>2, <2>3
<1>4. ASSUME NEW w \in Process, PutConfig(w)
      PROVE  PhaseSound'
  BY <1>0, <1>3, <1>4, NameFacts DEF PutConfig
<1>5. ASSUME NEW w \in Process, PutKey(w)
      PROVE  PhaseSound'
  <2>1. PICK k \in Key \ spent : BeginPut(w, KeyName, k) /\ spent' = spent \cup {k}
    BY <1>5 DEF PutKey
  <2> QED  BY <1>0, <1>3, <1>5, <2>1, NameFacts DEF PutKey
<1>6. ASSUME NEW w \in Process, StoreData(w)
      PROVE  PhaseSound'
  BY <1>0, <1>3, <1>6, NameFacts DEF StoreData, At
<1>7. ASSUME NEW w \in Process, Call(w)
      PROVE  PhaseSound'
  <2>1. UNCHANGED <<phase, key, spent, confirmed, overlapped, exposed>> /\ job' = job
    BY <1>7 DEF Call, initVars, WriteTemp, FsyncTemp, Rename
  <2>2. pc[w] # "idle" /\ pc'[w] # "idle" /\ \A u \in Process \ {w} : pc'[u] = pc[u]
    BY <1>0, <1>7 DEF Call, WriteTemp, FsyncTemp, Rename, Goto
  <2> QED  BY <1>0, <2>1, <2>2, SameJob
<1>8. ASSUME NEW w \in Process, Return(w)
      PROVE  PhaseSound'
  <2>1. pc[w] # "idle" /\ job' = job /\ pc'[w] = "idle" /\ \A u \in Process \ {w} : pc'[u] = pc[u]
    BY <1>0, <1>8 DEF Return, FsyncDir, Goto
  <2>2. phase[w] \in Calling
    BY <1>0, <2>1
  <2>3. /\ phase' \in [Process -> Phases]
        /\ phase'[w] \notin Calling /\ (phase'[w] \in InSession => phase[w] = "storing")
        /\ \A u \in Process \ {w} : phase'[u] = phase[u]
    BY <1>0, <1>8, <2>2 DEF Return, Enter
  <2>4. confirmed' \subseteq Key
    BY <1>0, <1>8 DEF Return
  <2> QED  BY <1>0, <1>8, <2>1, <2>2, <2>3, <2>4, SameJob DEF Return
<1>9. ASSUME NEW w \in Process, Raise(w)
      PROVE  PhaseSound'
  BY <1>0, <1>9, SameJob DEF Raise, CallFails, Goto, Enter
<1>10. CASE Blackout
  BY <1>0, <1>10, SameJob DEF Blackout, PowerLoss
<1>11. CASE UNCHANGED repoVars
  BY <1>0, <1>11, SameJob DEF repoVars, vars, initVars
<1> QED
  BY <1>1, <1>2, <1>4, <1>5, <1>6, <1>7, <1>8, <1>9, <1>10, <1>11 DEF RepoNext

LEMMA BlobsStep ==
  ASSUME InitInv, [RepoNext]_repoVars
  PROVE  BlobsSound'
<1> USE NameFacts, WrittenFacts DEF BlobsSound
<1>0. BlobsSound /\ PhaseSound /\ BackendInv
  BY DEF InitInv
<1>v. \A m \in Name : visible[m] \in maybe[m]
  BY <1>0 DEF BackendInv, Intact
<1>p. phase \in [Process -> Phases] /\ \A w \in Process : pc[w] \in {"idle", "write", "fsync", "rename", "commit"}
  BY <1>0 DEF PhaseSound, BackendInv, BackendTypeOK
(* Steps that leave the files alone and enter neither of the phases that   *)
(* presuppose a config.                                                    *)
<1>1. ASSUME UNCHANGED <<visible, maybe>>,
             \A w \in Process : phase'[w] \in {"key", "keying"} =>
                phase[w] \in {"key", "keying"} \/ maybe[Config] = {Written(Stamp)},
             \A w \in Process : phase'[w] = "stamping" /\ pc'[w] = "commit"
                                => phase[w] = "stamping" /\ pc[w] = "commit"
      PROVE  BlobsSound'
  BY <1>0, <1>1
<1>2. ASSUME NEW w \in Process,
             \/ CheckConfig(w) \/ PutConfig(w) \/ PutKey(w) \/ ReadConfig(w)
             \/ ReadKey(w) \/ StoreData(w) \/ Close(w) \/ Die(w) \/ Raise(w)
      PROVE  BlobsSound'
  <2>1. UNCHANGED <<visible, maybe>>
    BY <1>2 DEF CheckConfig, PutConfig, PutKey, ReadConfig, ReadKey, StoreData, Close,
                Die, Raise, BeginPut, CallFails, vars
  <2>2. \E ph \in {"stamp", "stamping", "keying", "gate", "none", "open", "storing"} :
          Enter(w, ph) /\ (ph = "keying" => phase[w] = "key")
    BY <1>2 DEF CheckConfig, PutConfig, PutKey, ReadConfig, ReadKey, StoreData, Close,
                Die, Raise, At
  <2>3. \A u \in Process : pc'[u] = "commit" => pc[u] = "commit"
    BY <1>0, <1>2 DEF CheckConfig, PutConfig, PutKey, ReadConfig, ReadKey, StoreData, Close,
                Die, Raise, BeginPut, CallFails, vars, Goto, BackendInv, BackendTypeOK
  <2>4. phase[w] = "none" \/ pc[w] = "idle" \/ phase'[w] = "none"
    BY <1>2, <1>p DEF CheckConfig, PutConfig, PutKey, ReadConfig, ReadKey, StoreData, Close,
                Die, Raise, At, Enter
  <2> QED  BY <1>0, <1>1, <1>p, <2>1, <2>2, <2>3, <2>4 DEF Enter, PhaseSound, Calling
<1>3. ASSUME NEW w \in Process, Call(w), ~Rename(w)
      PROVE  BlobsSound'
  <2>1. UNCHANGED <<visible, maybe, phase>>
    BY <1>3 DEF Call, WriteTemp, FsyncTemp, initVars
  <2>2. \A u \in Process : pc'[u] = "commit" => pc[u] = "commit"
    BY <1>0, <1>3 DEF Call, WriteTemp, FsyncTemp, Goto, BackendInv, BackendTypeOK
  <2> QED  BY <1>1, <2>1, <2>2
<1>4. ASSUME NEW w \in Process, Call(w), Rename(w)
      PROVE  BlobsSound'
  <2> DEFINE n == Target(w)
             f == Written(Content(w))
  <2>1. phase' = phase
    BY <1>4 DEF Call, Rename, initVars
  <2>2. phase[w] \in Calling
    BY <1>0, <1>4 DEF Rename, PhaseSound
  <2>3. /\ n \in Name
        /\ \A m \in Name \ {n} : visible'[m] = visible[m] /\ maybe'[m] = maybe[m]
        /\ visible'[n] = f /\ maybe'[n] = maybe[n] \cup {f}
        /\ \A u \in Process \ {w} : pc'[u] = pc[u]
    BY <1>0, <1>4, PublishedFile DEF BackendInv, BackendTypeOK
  <2>4. CASE phase[w] = "stamping"
    <3>1. n = Config /\ f = Written(Stamp)
      BY <1>0, <2>4 DEF PhaseSound
    <3> QED  BY <1>0, <2>1, <2>3, <3>1
  <2>5. CASE phase[w] = "keying"
    <3>1. n = KeyName /\ Content(w) \in Key
      BY <1>0, <2>5 DEF PhaseSound
    <3> QED  BY <1>0, <2>1, <2>3, <2>5, <3>1
  <2>6. CASE phase[w] = "storing"
    <3>1. n = Pack
      BY <1>0, <2>6 DEF PhaseSound
    <3> QED  BY <1>0, <2>1, <2>3, <2>6, <3>1
  <2> QED  BY <2>2, <2>4, <2>5, <2>6 DEF Calling
<1>5. ASSUME NEW w \in Process, Return(w)
      PROVE  BlobsSound'
  <2>1. FsyncDir(w)
    BY <1>5 DEF Return
  <2>2. pc[w] = "commit" /\ phase[w] \in Calling
    BY <1>0, <2>1 DEF FsyncDir, PhaseSound
  <2>3. /\ visible' = visible
        /\ \A m \in Name : maybe'[m] \subseteq maybe[m] /\ maybe'[m] # {}
        /\ maybe'[Target(w)] = {visible[Target(w)]}
        /\ pc'[w] = "idle" /\ \A u \in Process \ {w} : pc'[u] = pc[u]
    BY <1>0, <2>1, SettledFiles
  <2>4. /\ \A u \in Process \ {w} : phase'[u] = phase[u]
        /\ phase[w] = "stamping" => phase'[w] = "key"
        /\ phase[w] # "stamping" => phase'[w] \in {"none", "open"}
    BY <1>5, <1>p, <2>2 DEF Return, Enter, Calling
  <2>5. maybe[Config] = {Written(Stamp)} => maybe'[Config] = {Written(Stamp)}
    BY <2>3
  <2>6. phase[w] = "stamping" => maybe'[Config] = {Written(Stamp)}
    BY <1>0, <2>2, <2>3 DEF PhaseSound
  <2>7. maybe'[KeyName] # {NoFile} => maybe[KeyName] # {NoFile}
    BY <2>3
  <2> QED  BY <1>0, <2>3, <2>4, <2>5, <2>6, <2>7
<1>6. CASE Blackout
  <2>1. /\ \A m \in Name : maybe'[m] = {visible'[m]}
        /\ \A m \in Name : visible'[m] \in maybe[m] \cup {NoFile}
        /\ \A w \in Process : phase'[w] = "none" /\ pc'[w] = "idle"
    BY <1>0, <1>6, LeftFiles
  <2>2. visible'[Config] \in maybe[Config] \/ visible'[KeyName] = NoFile
    BY <1>0, <1>6, LeftFiles, InitAssumption
  <2> QED  BY <1>0, <2>1, <2>2
<1>7. CASE UNCHANGED repoVars
  BY <1>1, <1>7 DEF repoVars, vars, initVars
<1> QED
  BY <1>2, <1>3, <1>4, <1>5, <1>6, <1>7 DEF RepoNext, Call

THEOREM InitCorrect == RepoSpec => []InitInv
<1>1. InitInv /\ [RepoNext]_repoVars => InitInv'
  BY BackendSteps, BackendStep, PhaseStep, BlobsStep DEF InitInv
<1> QED  BY InitialInv, <1>1, PTL DEF RepoSpec, repoVars

(* All that inits and sessions do to the files is what the backend allows, *)
(* so the blob store of base.py is what they work on.                      *)
THEOREM SessionsUseStore == RepoSpec => StoreContract
<1>1. RepoInitial => Init
  BY DEF RepoInitial
<1>2. InitInv /\ [RepoNext]_repoVars => [Next]_vars
  BY BackendSteps
<1>3. RepoSpec => Spec
  BY <1>1, <1>2, InitCorrect, PTL DEF RepoSpec, Spec, repoVars
<1> QED  BY <1>3, ImplementsStore

(* A key blob is found only beside a config, whatever fails and whenever   *)
(* the power is lost: an init never meets a key that it would replace      *)
(* (repo.py: init_repository writes the config first).                     *)
THEOREM KeyComesLast == RepoSpec => []KeyNeedsConfig
<1>1. InitInv => KeyNeedsConfig
  <2> SUFFICES ASSUME InitInv, visible[KeyName] # NoFile
               PROVE  visible[Config].content = Stamp
    BY DEF KeyNeedsConfig
  <2>1. visible[KeyName] \in maybe[KeyName] /\ visible[Config] \in maybe[Config]
    BY NameFacts DEF InitInv, BackendInv, Intact
  <2> QED  BY <2>1, NameFacts, WrittenFacts DEF InitInv, BlobsSound
<1> QED  BY <1>1, InitCorrect, PTL

-----------------------------------------------------------------------------
(* While no init has overlapped another, there is at most one key at any   *)
(* time.  An init that has not published it yet is alone with the config,  *)
(* and afterwards sessions and packs have the key that the key blob shows. *)
Early(w) == phase[w] \in Initing /\ ~ (phase[w] = "keying" /\ pc[w] = "commit")

OneInit ==
  /\ \A w, u \in Process : phase[w] \in Initing /\ phase[u] \in Initing => w = u
  /\ \A w \in Process : Early(w) =>
       /\ maybe[KeyName] = {NoFile} /\ maybe[Pack] = {NoFile}
       /\ \A u \in Process : phase[u] \notin InSession
  /\ \A w \in Process : phase[w] = "keying" =>
       /\ Content(w) \in spent \ confirmed
       /\ pc[w] = "commit" => visible[KeyName] = Written(Content(w))

OneKey ==
  /\ confirmed \subseteq spent
  /\ \A k \in confirmed : visible[KeyName] = Written(k) => maybe[KeyName] = {Written(k)}
  /\ maybe[KeyName] \subseteq {NoFile, visible[KeyName]}
  /\ \A w \in Process : phase[w] \in InSession => visible[KeyName] = Written(key[w])

(* What is stored has the key of the key blob; if a power loss took that,  *)
(* no init can put another.                                                *)
Sealed ==
  \A f \in maybe[Pack] \ {NoFile} :
    /\ maybe[Config] = {Written(Stamp)}
    /\ \/ visible[KeyName] = Written(f.content)
       \/ exposed /\ visible[KeyName] = NoFile

Serial == ~overlapped => OneInit /\ OneKey /\ Sealed

(* A step that leaves the files and their keys alone, and takes a process  *)
(* to a phase with no stronger claim than the one it had.                  *)
LEMMA SerialKept ==
  ASSUME OneInit, OneKey, Sealed, NEW w \in Process,
         UNCHANGED <<visible, maybe, key, spent, confirmed, exposed, job>>,
         \A u \in Process \ {w} : phase'[u] = phase[u] /\ pc'[u] = pc[u],
         \/ phase'[w] = phase[w] /\ (pc'[w] = "commit" <=> pc[w] = "commit")
         \/ phase'[w] \in {"none", "gate"}
         \/ phase[w] \in InSession /\ phase'[w] \in InSession
         \/ Early(w) /\ phase'[w] \in {"stamp", "stamping", "key"}
  PROVE  (OneInit /\ OneKey /\ Sealed)'
<1> USE DEF Early, Initing, InSession
<1>1. \A u \in Process : Content(u)' = Content(u)
  BY SameJob
<1>2. \A u \in Process :
        /\ Early(u)' => Early(u)
        /\ phase'[u] \in Initing => phase[u] \in Initing
        /\ phase'[u] \in InSession => phase[u] \in InSession
        /\ phase'[u] = "keying" => phase[u] = "keying" /\ (pc'[u] = "commit" => pc[u] = "commit")
  OBVIOUS
<1>3. OneInit'
  BY <1>1, <1>2 DEF OneInit
<1>4. OneKey'
  BY <1>2 DEF OneKey
<1>5. Sealed'
  BY DEF Sealed
<1> QED  BY <1>3, <1>4, <1>5

LEMMA SerialStep ==
  ASSUME InitInv, Serial, [RepoNext]_repoVars
  PROVE  Serial'
<1> USE NameFacts, WrittenFacts
<1>0. BlobsSound /\ PhaseSound /\ BackendInv
  BY DEF InitInv
<1>v. \A m \in Name : visible[m] \in maybe[m]
  BY <1>0 DEF BackendInv, Intact
<1>r. ~overlapped' => ~overlapped
  BY <1>0 DEF RepoNext, CheckConfig, PutConfig, PutKey, ReadConfig, ReadKey, StoreData, Close,
         Call, Return, Raise, Die, Blackout, repoVars, initVars, PhaseSound
<1> SUFFICES ASSUME ~overlapped, ~overlapped' PROVE (OneInit /\ OneKey /\ Sealed)'
  BY <1>r DEF Serial
<1>s. OneInit /\ OneKey /\ Sealed
  BY DEF Serial
<1>p. phase \in [Process -> Phases] /\ key \in [Process -> Key \cup {NoBlob}]
  BY <1>0 DEF PhaseSound
<1>i. \A w \in Process : pc[w] = "idle" <=> phase[w] \notin Calling
  BY <1>0 DEF PhaseSound
<1>c. pc \in [Process -> {"idle", "write", "fsync", "rename", "commit"}]
  BY <1>0 DEF BackendInv, BackendTypeOK
<1>1. ASSUME NEW w \in Process, CheckConfig(w)
      PROVE  (OneInit /\ OneKey /\ Sealed)'
  <2>1. UNCHANGED <<visible, maybe, pc, job, key, spent, confirmed, exposed>>
    BY <1>1 DEF CheckConfig, vars
  <2>2. phase'[w] = "stamp" /\ \A u \in Process \ {w} : phase'[u] = phase[u]
    BY <1>1, <1>p DEF CheckConfig, Enter
  <2>3. \A u \in Process \ {w} : phase[u] \notin Initing
    BY <1>1 DEF CheckConfig
  <2>4. maybe[Config] # {Written(Stamp)}
    BY <1>1, <1>v DEF CheckConfig
  <2>5. maybe[KeyName] = {NoFile}
    BY <1>0, <2>4 DEF BlobsSound
  <2>6. maybe[Pack] = {NoFile}
    BY <1>s, <1>v, <2>4 DEF Sealed
  <2>7. \A u \in Process : phase[u] \notin InSession
    <3> SUFFICES ASSUME NEW u \in Process, phase[u] \in InSession PROVE FALSE
      OBVIOUS
    <3>1. visible[KeyName] = Written(key[u]) /\ key[u] \in Key
      BY <1>0, <1>s DEF OneKey, PhaseSound
    <3> QED  BY <1>v, <2>5, <3>1
  <2>8. OneInit'
    BY <2>1, <2>2, <2>3, <2>5, <2>6, <2>7 DEF OneInit, Early, Initing, InSession
  <2>9. OneKey' /\ Sealed'
    BY <1>s, <2>1, <2>2 DEF OneKey, Sealed, InSession
  <2> QED  BY <2>8, <2>9
<1>2. ASSUME NEW w \in Process, ReadKey(w)
      PROVE  (OneInit /\ OneKey /\ Sealed)'
  <2>1. UNCHANGED <<visible, maybe, pc, job, spent, confirmed, exposed>>
    BY <1>2 DEF ReadKey, vars
  <2>2. phase[w] = "gate" /\ phase'[w] \in {"none", "open"}
        /\ \A u \in Process \ {w} : phase'[u] = phase[u] /\ key'[u] = key[u]
    BY <1>2, <1>p DEF ReadKey, Enter, At
  <2>3. phase'[w] = "open" => visible[KeyName] = Written(key'[w])
    <3> SUFFICES ASSUME phase'[w] = "open" PROVE visible[KeyName] = Written(key'[w])
      OBVIOUS
    <3>1. visible[KeyName] # NoFile /\ key'[w] = visible[KeyName].content
      BY <1>2, <1>p DEF ReadKey, Enter
    <3>2. PICK k \in Key : visible[KeyName] = Written(k)
      BY <1>0, <1>v, <3>1 DEF BlobsSound
    <3> QED  BY <3>1, <3>2
  <2>4. phase'[w] = "open" => visible[KeyName] # NoFile
    BY <1>2, <1>p DEF ReadKey, Enter
  <2>5. OneInit'
    <3>1. \A u \in Process : phase'[u] \in Initing => phase[u] \in Initing /\ u # w
      BY <2>2 DEF Initing
    <3>2. \A u \in Process : Content(u)' = Content(u)
      BY <2>1, SameJob
    <3>3. \A u \in Process : Early(u)' => Early(u) /\ \A x \in Process : phase'[x] \notin InSession
      <4> SUFFICES ASSUME NEW u \in Process, Early(u)'
                   PROVE  Early(u) /\ \A x \in Process : phase'[x] \notin InSession
        OBVIOUS
      <4>1. Early(u) /\ u # w
        BY <2>1, <2>2 DEF Early, Initing
      <4>2. maybe[KeyName] = {NoFile} /\ \A x \in Process : phase[x] \notin InSession
        BY <1>s, <4>1 DEF OneInit
      <4>3. phase'[w] # "open"
        BY <1>v, <2>4, <4>2
      <4> QED  BY <2>2, <4>1, <4>2, <4>3 DEF InSession
    <3> QED  BY <1>s, <2>1, <2>2, <3>1, <3>2, <3>3 DEF OneInit, Initing
  <2>6. OneKey' /\ Sealed'
    BY <1>s, <2>1, <2>2, <2>3 DEF OneKey, Sealed, InSession
  <2> QED  BY <2>5, <2>6
<1>3. ASSUME NEW w \in Process, PutConfig(w) \/ StoreData(w)
      PROVE  (OneInit /\ OneKey /\ Sealed)'
  <2>1. UNCHANGED <<visible, maybe, key, spent, confirmed, exposed>>
    BY <1>3 DEF PutConfig, StoreData, BeginPut
  <2>2. PICK n \in Name, v \in Value : BeginPut(w, n, v)
    <3>1. phase[w] = "open" => key[w] \in Value
      BY <1>0 DEF PhaseSound, InSession
    <3> QED  BY <1>3, <3>1 DEF PutConfig, StoreData, At
  <2>3. pc'[w] = "write" /\ \A u \in Process \ {w} : pc'[u] = pc[u] /\ Content(u)' = Content(u)
    BY <1>0, <1>c, <2>2, NewJob DEF BeginPut, Goto, BackendInv
  <2>4. /\ \/ phase[w] = "stamp" /\ phase'[w] = "stamping"
           \/ phase[w] = "open" /\ phase'[w] = "storing"
        /\ \A u \in Process \ {w} : phase'[u] = phase[u]
    BY <1>3, <1>p DEF PutConfig, StoreData, Enter, At
  <2>5. \A u \in Process : /\ Early(u)' => Early(u)
                           /\ phase'[u] \in Initing => phase[u] \in Initing
                           /\ phase'[u] \in InSession => phase[u] \in InSession
                           /\ phase'[u] = "keying" => u # w /\ phase[u] = "keying"
    BY <2>3, <2>4 DEF Early, Initing, InSession
  <2>6. OneInit'
    BY <1>s, <2>1, <2>3, <2>5 DEF OneInit, Initing, InSession
  <2>7. OneKey' /\ Sealed'
    BY <1>s, <2>1, <2>5 DEF OneKey, Sealed, InSession
  <2> QED  BY <2>6, <2>7
<1>4. ASSUME NEW w \in Process, PutKey(w)
      PROVE  (OneInit /\ OneKey /\ Sealed)'
  <2>1. PICK k \in Key \ spent : BeginPut(w, KeyName, k) /\ spent' = spent \cup {k}
    BY <1>4 DEF PutKey
  <2>2. UNCHANGED <<visible, maybe, key, confirmed, exposed>>
    BY <1>4, <2>1 DEF PutKey, BeginPut
  <2>3. pc'[w] = "write" /\ Content(w)' = k
        /\ \A u \in Process \ {w} : pc'[u] = pc[u] /\ Content(u)' = Content(u)
    BY <1>0, <1>c, <2>1, NewJob DEF BeginPut, Goto, BackendInv
  <2>4. phase[w] = "key" /\ phase'[w] = "keying" /\ \A u \in Process \ {w} : phase'[u] = phase[u]
    BY <1>4, <1>p DEF PutKey, Enter, At
  <2>5. Early(w)
    BY <2>4 DEF Early, Initing
  <2>6. \A u \in Process : /\ Early(u)' => Early(u)
                           /\ phase'[u] \in Initing => phase[u] \in Initing
                           /\ phase'[u] \in InSession => phase[u] \in InSession
    BY <2>3, <2>4, <2>5 DEF Early, Initing, InSession
  <2>7. Content(w)' \in spent' \ confirmed'
    BY <1>s, <2>1, <2>2, <2>3 DEF OneKey
  <2>8. OneInit'
    BY <1>s, <2>1, <2>2, <2>3, <2>4, <2>6, <2>7 DEF OneInit, Initing, InSession
  <2>9. OneKey' /\ Sealed'
    BY <1>s, <2>1, <2>2, <2>6 DEF OneKey, Sealed, InSession
  <2> QED  BY <2>8, <2>9
<1>5. ASSUME NEW w \in Process, ReadConfig(w) \/ Close(w) \/ Die(w) \/ Raise(w)
      PROVE  (OneInit /\ OneKey /\ Sealed)'
  <2>1. UNCHANGED <<visible, maybe, key, spent, confirmed, exposed, job>>
    BY <1>5 DEF ReadConfig, Close, Die, Raise, CallFails, vars
  <2>2. phase'[w] \in {"none", "gate"} /\ \A u \in Process \ {w} : phase'[u] = phase[u]
    BY <1>5, <1>p DEF ReadConfig, Close, Die, Raise, Enter
  <2>3. \A u \in Process \ {w} : pc'[u] = pc[u]
    BY <1>5, <1>c DEF ReadConfig, Close, Die, Raise, CallFails, vars, Goto
  <2> QED  BY <1>s, <2>1, <2>2, <2>3, SerialKept
<1>6. ASSUME NEW w \in Process, Call(w), ~Rename(w)
      PROVE  (OneInit /\ OneKey /\ Sealed)'
  <2>1. UNCHANGED <<visible, maybe, key, spent, confirmed, exposed, job, phase>>
    BY <1>6 DEF Call, WriteTemp, FsyncTemp, initVars
  <2>2. /\ pc'[w] # "commit" /\ pc[w] # "commit"
        /\ \A u \in Process \ {w} : pc'[u] = pc[u]
    BY <1>6, <1>c DEF Call, WriteTemp, FsyncTemp, Goto
  <2> QED  BY <1>s, <2>1, <2>2, SerialKept
<1>7. ASSUME NEW w \in Process, Call(w), Rename(w)
      PROVE  (OneInit /\ OneKey /\ Sealed)'
  <2> DEFINE n == Target(w)
             f == Written(Content(w))
  <2>1. UNCHANGED <<job, phase, key, spent, confirmed, exposed>>
    BY <1>7 DEF Call, Rename, initVars
  <2>2. phase[w] \in Calling
    BY <1>7, <1>i DEF Rename
  <2>3. /\ n \in Name
        /\ \A m \in Name \ {n} : visible'[m] = visible[m] /\ maybe'[m] = maybe[m]
        /\ visible'[n] = f /\ maybe'[n] = maybe[n] \cup {f}
        /\ pc[w] = "rename" /\ pc'[w] = "commit" /\ \A u \in Process \ {w} : pc'[u] = pc[u]
    BY <1>0, <1>7, PublishedFile DEF BackendInv, BackendTypeOK, Rename
  <2>4. \A u \in Process : Content(u)' = Content(u)
    BY <2>1, SameJob
  <2>5. CASE phase[w] = "stamping"
    <3>1. n = Config /\ f = Written(Stamp)
      BY <1>0, <2>5 DEF PhaseSound
    <3>2. \A u \in Process : Early(u)' => Early(u)
      BY <2>1, <2>3, <2>5 DEF Early
    <3>3. \A u \in Process : phase[u] = "keying" => u # w
      BY <2>5
    <3>4. OneInit'
      BY <1>s, <2>1, <2>3, <2>4, <3>1, <3>2, <3>3 DEF OneInit
    <3>5. OneKey'
      BY <1>s, <2>1, <2>3, <3>1 DEF OneKey
    <3>6. maybe'[Pack] = {NoFile}
      BY <1>s, <2>3, <2>5, <3>1 DEF OneInit, Early, Initing
    <3> QED  BY <3>4, <3>5, <3>6 DEF Sealed
  <2>6. CASE phase[w] = "keying"
    <3>1. n = KeyName /\ Content(w) \in Key /\ Content(w) \in spent \ confirmed
      BY <1>0, <1>s, <2>6 DEF PhaseSound, OneInit
    <3>2. Early(w)
      BY <2>3, <2>6 DEF Early, Initing
    <3>3. maybe[KeyName] = {NoFile} /\ maybe[Pack] = {NoFile} /\ \A u \in Process : phase[u] \notin InSession
      BY <1>s, <3>2 DEF OneInit
    <3>4. \A u \in Process \ {w} : phase[u] \notin Initing
      BY <1>s, <2>6 DEF OneInit, Initing
    <3>5. maybe'[KeyName] = {NoFile, f} /\ visible'[KeyName] = f /\ maybe'[Pack] = {NoFile}
      BY <2>3, <3>1, <3>3
    <3>6. OneInit'
      BY <2>1, <2>3, <2>4, <2>6, <3>1, <3>4, <3>5 DEF OneInit, Early, Initing
    <3>7. OneKey'
      <4>1. \A k \in confirmed : Written(k) # f
        BY <3>1 DEF Written
      <4> QED  BY <1>s, <2>1, <3>3, <3>5, <4>1 DEF OneKey
    <3> QED  BY <3>5, <3>6, <3>7 DEF Sealed
  <2>7. CASE phase[w] = "storing"
    <3>1. n = Pack /\ Content(w) = key[w] /\ key[w] \in Key
      BY <1>0, <2>7 DEF PhaseSound, InSession
    <3>2. visible[KeyName] = f
      BY <1>s, <2>7, <3>1 DEF OneKey, InSession
    <3>3. maybe[Config] = {Written(Stamp)}
      BY <1>0, <1>v, <3>1, <3>2 DEF BlobsSound
    <3>4. \A u \in Process : ~Early(u)
      BY <1>s, <2>7 DEF OneInit, InSession
    <3>5. \A u \in Process : Early(u)' => Early(u)
      BY <2>1, <2>3, <2>7 DEF Early, Initing
    <3>6. OneInit'
      BY <1>s, <2>1, <2>3, <2>4, <2>7, <3>1, <3>4, <3>5 DEF OneInit
    <3>7. OneKey'
      BY <1>s, <2>1, <2>3, <3>1 DEF OneKey
    <3>8. f.content = Content(w)
      BY <3>1
    <3>9. Sealed'
      BY <1>s, <2>1, <2>3, <3>1, <3>2, <3>3, <3>8 DEF Sealed
    <3> QED  BY <3>6, <3>7, <3>9
  <2> QED  BY <2>2, <2>5, <2>6, <2>7 DEF Calling
<1>8. ASSUME NEW w \in Process, Return(w)
      PROVE  (OneInit /\ OneKey /\ Sealed)'
  <2>1. FsyncDir(w)
    BY <1>8 DEF Return
  <2>2. pc[w] = "commit" /\ phase[w] \in Calling
    BY <1>i, <2>1 DEF FsyncDir
  <2>3. /\ visible' = visible
        /\ \A m \in Name : maybe'[m] \subseteq maybe[m] /\ maybe'[m] # {}
        /\ maybe'[Target(w)] = {visible[Target(w)]}
        /\ pc'[w] = "idle" /\ \A u \in Process \ {w} : pc'[u] = pc[u]
    BY <1>0, <2>1, SettledFiles
  <2>4. UNCHANGED <<job, key, spent, exposed>>
    BY <1>8, <2>1 DEF FsyncDir, Return
  <2>5. \A u \in Process \ {w} : phase'[u] = phase[u]
    BY <1>8, <1>p DEF Return, Enter
  <2>6. \A u \in Process : Content(u)' = Content(u)
    BY <2>4, SameJob
  <2>7. \A k \in confirmed : visible'[KeyName] = Written(k) => maybe'[KeyName] = {Written(k)}
    BY <1>s, <2>3 DEF OneKey
  <2>8. maybe'[KeyName] \subseteq {NoFile, visible'[KeyName]} /\ confirmed \subseteq spent'
    BY <1>s, <2>3, <2>4 DEF OneKey
  <2>9. Sealed'
    BY <1>s, <2>3, <2>4 DEF Sealed
  <2>10. CASE phase[w] = "keying"
    <3>1. phase'[w] = "none" /\ confirmed' = confirmed \cup {Content(w)}
      BY <1>8, <1>p, <2>10 DEF Return, Enter
    <3>2. Target(w) = KeyName /\ Content(w) \in spent
      BY <1>0, <1>s, <2>10 DEF PhaseSound, OneInit
    <3>3. visible'[KeyName] = Written(Content(w)) /\ maybe'[KeyName] = {Written(Content(w))}
      BY <1>s, <2>2, <2>3, <2>10, <3>2 DEF OneInit
    <3>4. \A u \in Process : phase'[u] \notin Initing
      BY <1>s, <2>5, <2>10, <3>1 DEF OneInit, Initing
    <3>5. OneInit'
      BY <3>4 DEF OneInit, Early, Initing
    <3>6. \A u \in Process : phase'[u] \in InSession => phase[u] \in InSession
      BY <2>5, <3>1 DEF InSession
    <3>7. OneKey'
      BY <1>s, <2>3, <2>4, <2>7, <2>8, <3>1, <3>2, <3>3, <3>6 DEF OneKey
    <3> QED  BY <2>9, <3>5, <3>7
  <2>11. CASE phase[w] \in {"stamping", "storing"}
    <3>1. /\ confirmed' = confirmed
          /\ phase[w] = "stamping" => phase'[w] = "key"
          /\ phase[w] = "storing" => phase'[w] = "open"
      BY <1>8, <1>p, <2>11 DEF Return, Enter
    <3>2. \A u \in Process : /\ Early(u)' => Early(u)
                             /\ phase'[u] \in Initing => phase[u] \in Initing
                             /\ phase'[u] \in InSession => phase[u] \in InSession
                             /\ phase'[u] = "keying" => u # w /\ phase[u] = "keying"
      BY <2>3, <2>5, <2>11, <3>1 DEF Early, Initing, InSession
    <3>3. \A m \in Name : maybe[m] = {NoFile} => maybe'[m] = {NoFile}
      BY <2>3
    <3>4. OneInit'
      BY <1>s, <2>3, <2>4, <2>6, <3>1, <3>2, <3>3 DEF OneInit, Initing, InSession
    <3>5. OneKey'
      BY <1>s, <2>3, <2>4, <2>7, <2>8, <3>1, <3>2 DEF OneKey, InSession
    <3> QED  BY <2>9, <3>4, <3>5
  <2> QED  BY <2>2, <2>10, <2>11 DEF Calling
<1>9. CASE Blackout
  <2>1. /\ \A m \in Name : maybe'[m] = {visible'[m]}
        /\ \A m \in Name : visible'[m] \in maybe[m] \cup {NoFile}
        /\ \A m \in Name : DirOf[m] \in made' => visible'[m] \in maybe[m]
        /\ \A m \in Name : Path(m) \subseteq sure => visible'[m] \in maybe[m]
        /\ Root \in made' \/ \A m \in Name : visible'[m] = NoFile
        /\ \A w \in Process : phase'[w] = "none" /\ pc'[w] = "idle"
    BY <1>0, <1>9, LeftFiles
  <2>2. /\ confirmed' = confirmed /\ spent' = spent
        /\ exposed' = (Root \in made' /\ (exposed \/ KeyAtRisk))
    BY <1>9 DEF Blackout
  <2>3. OneInit'
    BY <2>1 DEF OneInit, Early, Initing
  <2>4. OneKey'
    BY <1>s, <2>1, <2>2 DEF OneKey, InSession
  <2>5. Sealed'
    <3> SUFFICES ASSUME visible'[Pack] # NoFile
                 PROVE  /\ maybe'[Config] = {Written(Stamp)}
                        /\ \/ visible'[KeyName] = Written(visible'[Pack].content)
                           \/ exposed' /\ visible'[KeyName] = NoFile
      BY <2>1 DEF Sealed
    <3>1. Root \in made' /\ visible'[Pack] \in maybe[Pack] \ {NoFile}
      BY <2>1
    <3>2. /\ maybe[Config] = {Written(Stamp)}
          /\ \/ visible[KeyName] = Written(visible'[Pack].content)
             \/ exposed /\ visible[KeyName] = NoFile
      BY <1>s, <3>1 DEF Sealed
    <3>3. maybe'[Config] = {Written(Stamp)}
      BY <2>1, <3>1, <3>2, InitAssumption
    <3>4. visible'[KeyName] \in {NoFile, visible[KeyName]}
      BY <1>s, <2>1 DEF OneKey
    <3>5. CASE visible[KeyName] = NoFile
      <4>1. exposed /\ visible'[KeyName] = NoFile
        <5>1. visible'[KeyName] = NoFile
          BY <3>4, <3>5
        <5>2. visible'[Pack].content \in Value => Written(visible'[Pack].content) # NoFile
          OBVIOUS
        <5>3. visible'[Pack] \in File /\ visible'[Pack].synced /\ visible'[Pack].content # Torn
          BY <1>0, <3>1 DEF BackendInv, BackendTypeOK, Intact
        <5>4. visible'[Pack].content \in Value
          BY <3>1, <5>3 DEF File, NoFile
        <5> QED  BY <3>2, <3>5, <5>1, <5>2, <5>4
      <4> QED  BY <2>2, <3>1, <3>3, <4>1
    <3>6. CASE visible[KeyName] # NoFile /\ visible'[KeyName] = visible[KeyName]
      BY <3>2, <3>3, <3>6
    <3>7. CASE visible[KeyName] # NoFile /\ visible'[KeyName] # visible[KeyName]
      <4>1. visible'[KeyName] = NoFile
        BY <3>4, <3>7
      <4>2. KeyAtRisk
        <5> SUFFICES ASSUME visible[KeyName].content \in confirmed, Path(KeyName) \subseteq sure
                     PROVE  FALSE
          BY <3>7 DEF KeyAtRisk
        <5>1. PICK k \in Key : visible[KeyName] = Written(k)
          BY <1>0, <1>v, <3>7 DEF BlobsSound
        <5>2. maybe[KeyName] = {Written(k)}
          BY <1>s, <5>1 DEF OneKey
        <5> QED  BY <2>1, <3>7, <5>1, <5>2
      <4> QED  BY <2>2, <3>1, <3>3, <4>1, <4>2
    <3> QED  BY <3>5, <3>6, <3>7
  <2> QED  BY <2>3, <2>4, <2>5
<1>10. CASE UNCHANGED repoVars
  <2>1. \A u \in Process : Content(u)' = Content(u)
    BY <1>10, SameJob DEF repoVars, vars
  <2> QED  BY <1>10, <1>s, <2>1 DEF repoVars, vars, initVars, OneInit, OneKey, Sealed, Early
<1> QED
  BY <1>1, <1>2, <1>3, <1>4, <1>5, <1>6, <1>7, <1>8, <1>9, <1>10 DEF RepoNext, Call

(* For any number of processes and keys, wherever the directories of the   *)
(* repository are and whether or not they are on disk: unless two inits    *)
(* overlapped, the key blob always holds the key that the stored data was  *)
(* sealed with, or a power loss took it before it was safe and nothing     *)
(* can take its place (repo.py: init "refuses to reuse an initialized      *)
(* one"; local.py, put_bytes: the directory that it makes is not fsynced   *)
(* into its parent).                                                       *)
THEOREM DataStaysReadable == RepoSpec => []DataReadable
<1>1. RepoInitial => Serial
  BY NameFacts DEF RepoInitial, Init, Serial, OneInit, OneKey, Sealed, Early, Initing, InSession
<1>2. InitInv /\ Serial /\ [RepoNext]_repoVars => Serial'
  BY SerialStep
<1>3. InitInv /\ Serial => DataReadable
  <2> SUFFICES ASSUME InitInv, Serial, ~overlapped, visible[Pack] # NoFile
               PROVE  \/ visible[KeyName].content = visible[Pack].content
                      \/ exposed /\ visible[KeyName] = NoFile /\ visible[Config].content = Stamp
    BY DEF DataReadable
  <2>1. visible[Config] \in maybe[Config] /\ visible[Pack] \in maybe[Pack] \ {NoFile}
    BY NameFacts DEF InitInv, BackendInv, Intact
  <2>2. /\ maybe[Config] = {Written(Stamp)}
        /\ \/ visible[KeyName] = Written(visible[Pack].content)
           \/ exposed /\ visible[KeyName] = NoFile
    BY <2>1 DEF Serial, Sealed
  <2> QED  BY <2>1, <2>2 DEF Written
<1> QED  BY <1>1, <1>2, <1>3, InitCorrect, PTL DEF RepoSpec, repoVars
=============================================================================
