------------------------------ MODULE RepoInit -------------------------------
(***************************************************************************)
(* init_repository and the opening of a session (repo.py,                  *)
(* cas/formatver.py, key wrapping in cas/crypto.py) over LocalBackend:     *)
(* init puts the config blob if there is none and then the key blob; a     *)
(* session reads both and seals what it stores with the key.  Every put is *)
(* the sequence of system calls of LocalBackend, so calls fail, processes  *)
(* die and the power is lost anywhere.                                     *)
(*                                                                         *)
(* The key blob is the key it wraps: whoever knows the passphrase gets it  *)
(* back.  A config of a later format and a wrong passphrase end an open    *)
(* before it has touched anything, and are left out.                       *)
(***************************************************************************)
EXTENDS LocalBackend

CONSTANTS
  Config, KeyName, Pack,  \* the names of the blobs
  Stamp,                  \* the config that init writes
  Key                     \* master keys

ASSUME InitAssumption ==
  /\ {Config, KeyName, Pack} \subseteq Name
  /\ Config # KeyName /\ Config # Pack /\ KeyName # Pack
  /\ DirOf[Config] = Root
  /\ Value = Key \cup {Stamp}
  /\ Stamp \notin Key

VARIABLES
  phase,      \* process -> where it is in init or in a session
  key,        \* process -> the key of its session
  spent,      \* keys generated so far
  confirmed,  \* history: keys of inits that returned
  overlapped, \* history: an init began while another was under way
  exposed     \* history: the power failed while the key blob was not safe

initVars == <<phase, key, spent, confirmed, overlapped, exposed>>

Initing == {"stamp", "stamping", "key", "keying"}
InSession == {"open", "storing"}
Phases == {"none", "gate"} \cup Initing \cup InSession

(* A new path. *)
RepoInitial ==
  /\ Init
  /\ phase = [w \in Process |-> "none"]
  /\ key = [w \in Process |-> NoBlob]
  /\ spent = {} /\ confirmed = {}
  /\ overlapped = FALSE /\ exposed = FALSE

At(w, ph) == phase[w] = ph /\ pc[w] = "idle"
Enter(w, ph) == phase' = [phase EXCEPT ![w] = ph]

-----------------------------------------------------------------------------
(* init_repository *)

(* Mutant: the test for an existing config is forgotten. *)
CheckConfigForgotten(w) ==
  /\ At(w, "none")
  /\ Enter(w, "stamp")
  /\ overlapped' = (overlapped \/ \E u \in Process \ {w} : phase[u] \in Initing)
  /\ UNCHANGED <<vars, key, spent, confirmed, exposed>>

(* write_config refuses to overwrite a config. *)
CheckConfig(w) ==
  /\ At(w, "none")
  /\ visible[Config] = NoFile
  /\ Enter(w, "stamp")
  /\ overlapped' = (overlapped \/ \E u \in Process \ {w} : phase[u] \in Initing)
  /\ UNCHANGED <<vars, key, spent, confirmed, exposed>>

PutConfig(w) ==
  /\ At(w, "stamp")
  /\ BeginPut(w, Config, Stamp)
  /\ Enter(w, "stamping")
  /\ UNCHANGED <<key, spent, confirmed, overlapped, exposed>>

(* generate_key and put_bytes. *)
PutKey(w) ==
  /\ At(w, "key")
  /\ \E k \in Key \ spent :
       BeginPut(w, KeyName, k) /\ spent' = spent \cup {k}
  /\ Enter(w, "keying")
  /\ UNCHANGED <<key, confirmed, overlapped, exposed>>

-----------------------------------------------------------------------------
(* Repository.__init__, one write of a session, close *)

(* read_config: the format gate. *)
ReadConfig(w) ==
  /\ At(w, "none")
  /\ visible[Config].content = Stamp
  /\ Enter(w, "gate")
  /\ UNCHANGED <<vars, key, spent, confirmed, overlapped, exposed>>

(* unwrap_key; without a key blob the open is refused. *)
ReadKey(w) ==
  /\ At(w, "gate")
  /\ IF visible[KeyName] = NoFile
     THEN Enter(w, "none") /\ UNCHANGED key
     ELSE Enter(w, "open") /\ key' = [key EXCEPT ![w] = visible[KeyName].content]
  /\ UNCHANGED <<vars, spent, confirmed, overlapped, exposed>>

StoreData(w) ==
  /\ At(w, "open")
  /\ BeginPut(w, Pack, key[w])
  /\ Enter(w, "storing")
  /\ UNCHANGED <<key, spent, confirmed, overlapped, exposed>>

Close(w) ==
  /\ At(w, "open")
  /\ Enter(w, "none")
  /\ UNCHANGED <<vars, key, spent, confirmed, overlapped, exposed>>

-----------------------------------------------------------------------------
(* The system calls of a put. *)

Call(w) ==
  /\ WriteTemp(w) \/ FsyncTemp(w) \/ Rename(w)
  /\ UNCHANGED initVars

(* put_bytes has returned. *)
Return(w) ==
  /\ FsyncDir(w)
  /\ Enter(w, CASE phase[w] = "stamping" -> "key"
                [] phase[w] = "keying"   -> "none"
                [] phase[w] = "storing"  -> "open")
  /\ confirmed' = confirmed \cup (IF phase[w] = "keying" THEN {Content(w)} ELSE {})
  /\ UNCHANGED <<key, spent, overlapped, exposed>>

(* Mutant: init goes on with the key although the put of the config raised. *)
RaiseGoesOn(w) ==
  /\ CallFails(w)
  /\ Enter(w, IF phase[w] = "stamping" THEN "key" ELSE "none")
  /\ UNCHANGED <<key, spent, confirmed, overlapped, exposed>>

(* The put raises BackendError, or the process dies. *)
Raise(w) ==
  /\ CallFails(w)
  /\ Enter(w, "none")
  /\ UNCHANGED <<key, spent, confirmed, overlapped, exposed>>

(* The process dies between two calls. *)
Die(w) ==
  /\ pc[w] = "idle" /\ phase[w] # "none"
  /\ Enter(w, "none")
  /\ UNCHANGED <<vars, key, spent, confirmed, overlapped, exposed>>

(* The init of the key blob has not returned, or a directory on its path   *)
(* is not on disk: keys is made by the put itself, and put fsyncs keys but *)
(* never the repository directory again (local.py, put_bytes).             *)
KeyAtRisk ==
  /\ visible[KeyName] # NoFile
  /\ visible[KeyName].content \notin confirmed \/ ~ (Path(KeyName) \subseteq sure)

(* If the repository directory goes with the rest, the path is a new one.  *)
Blackout ==
  /\ PowerLoss
  /\ phase' = [w \in Process |-> "none"]
  /\ exposed' = (Root \in made' /\ (exposed \/ KeyAtRisk))
  /\ UNCHANGED <<key, spent, confirmed, overlapped>>

RepoNext ==
  \/ \E w \in Process :
       \/ CheckConfig(w) \/ PutConfig(w) \/ PutKey(w)
       \/ ReadConfig(w) \/ ReadKey(w) \/ StoreData(w) \/ Close(w)
       \/ Call(w) \/ Return(w) \/ Raise(w) \/ Die(w)
  \/ Blackout

RepoSpec == RepoInitial /\ [][RepoNext]_<<vars, initVars>>

-----------------------------------------------------------------------------
(* Properties. *)

(* What is there is in use by its name only behind the format gate         *)
(* (formatver.py: "BEFORE touching any other blob"): whatever fails and    *)
(* whenever the power is lost, a key blob is found only beside a config,   *)
(* so no init gives a second key to a repository that has one.             *)
KeyNeedsConfig == visible[KeyName] # NoFile => visible[Config].content = Stamp

(* Unless two inits overlapped, stored data can be read by whoever opens   *)
(* the repository next, after every crash, failed init and power loss: the *)
(* key blob holds the key that the data was sealed with (repo.py: init     *)
(* "refuses to reuse an initialized one").  No other key ever takes its    *)
(* place.  The one way to lose it is a power loss before it was safe; the  *)
(* config is still there then, so neither an open nor an init gets at what *)
(* was stored.                                                             *)
DataReadable ==
  ~overlapped /\ visible[Pack] # NoFile =>
    \/ visible[KeyName].content = visible[Pack].content
    \/ exposed /\ visible[KeyName] = NoFile /\ visible[Config].content = Stamp
=============================================================================
