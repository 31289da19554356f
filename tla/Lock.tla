--------------------------------- MODULE Lock ---------------------------------
(***************************************************************************)
(* The repository lock (cas/lock.py): one backend blob that names its      *)
(* holder, without a compare-and-swap.  An acquire reads the blob, probes  *)
(* the holder, writes its own payload and reads it back; other processes   *)
(* act between any two of these.                                           *)
(*                                                                         *)
(* A process is one incarnation: a dead one does not return.  It uses one  *)
(* RepositoryLock at a time, so the process stands for the token, the pid  *)
(* and the hostname in the payload.                                        *)
(*                                                                         *)
(* The constant Faults says what may go wrong beside the death of a        *)
(* process:                                                                *)
(*   "error"   an exception leaves acquire() before it returns             *)
(*   "reuse"   the pid of a dead process is given to an unrelated one      *)
(*   "damage"  the lock blob is overwritten with something unparseable     *)
(***************************************************************************)
EXTENDS Naturals, FiniteSets

CONSTANTS
  Proc,       \* processes that want the lock
  HostOf,     \* process -> the host it runs on
  Forced,     \* processes that acquire with force=True
  Faults,
  NoLock,     \* there is no lock blob
  Garbage     \* the lock blob does not parse

ASSUME LockAssumption ==
  /\ Forced \subseteq Proc
  /\ NoLock \notin Proc \cup {Garbage}
  /\ Garbage \notin Proc

VARIABLES
  blob,       \* the lock blob: the process it names, NoLock or Garbage
  pc,         \* where a process is
  existing,   \* what acquire() found
  gone,       \* processes whose pid no longer exists on their host
  plain       \* history: the lock has only been used as PlainState says

lockVars == <<blob, pc, existing, gone>>
vars == <<lockVars, plain>>

Payload == Proc \cup {NoLock, Garbage}

LockTypeOK ==
  /\ blob \in Payload
  /\ pc \in [Proc -> {"idle", "decide", "write", "verify", "held", "delete",
                      "dead"}]
  /\ existing \in [Proc -> Payload]
  /\ gone \subseteq Proc
  /\ plain \in BOOLEAN

Init ==
  /\ blob = NoLock
  /\ pc = [p \in Proc |-> "idle"]
  /\ existing = [p \in Proc |-> NoLock]
  /\ gone = {}
  /\ plain = TRUE

-----------------------------------------------------------------------------
Goto(p, where) == pc' = [pc EXCEPT ![p] = where]

(* Out of acquire() or release(): nothing that was read is kept. *)
Leave(p) ==
  /\ Goto(p, "idle")
  /\ existing' = [existing EXCEPT ![p] = NoLock]

(* Mutant: a pid of another host is looked up on this one. *)
StaleAcrossHosts(p, lock) ==
  lock = Garbage \/ lock \in gone \/ HostOf[lock] # HostOf[p]

(* Mutant: a lock is respected for as long as it exists. *)
StaleNever(p, lock) == lock = Garbage

(* What p concludes about the lock it found: kill(pid, 0) works only on    *)
(* the holder's host.                                                      *)
Stale(p, lock) ==
  \/ lock = Garbage
  \/ lock \in gone /\ HostOf[lock] = HostOf[p]

ReadLock(p) ==
  /\ pc[p] = "idle"
  /\ existing' = [existing EXCEPT ![p] = blob]
  /\ Goto(p, "decide")
  /\ UNCHANGED <<blob, gone>>

(* Take the lock over, or raise LockError. *)
Decide(p) ==
  /\ pc[p] = "decide"
  /\ IF existing[p] = NoLock \/ p \in Forced \/ Stale(p, existing[p])
     THEN Goto(p, "write") /\ UNCHANGED existing
     ELSE Leave(p)
  /\ UNCHANGED <<blob, gone>>

WriteLock(p) ==
  /\ pc[p] = "write"
  /\ blob' = p
  /\ Goto(p, "verify")
  /\ UNCHANGED <<existing, gone>>

(* Mutant: an acquire that lost the race removes the lock it found. *)
VerifyCleansUp(p) ==
  /\ pc[p] = "verify"
  /\ IF blob = p
     THEN Goto(p, "held") /\ UNCHANGED <<blob, existing>>
     ELSE blob' = NoLock /\ Leave(p)
  /\ UNCHANGED gone

(* The blob is read back: held if it is ours, otherwise LockError. *)
Verify(p) ==
  /\ pc[p] = "verify"
  /\ IF blob = p
     THEN Goto(p, "held") /\ UNCHANGED existing
     ELSE Leave(p)
  /\ UNCHANGED <<blob, gone>>

(* An exception in acquire(): __exit__ does not run, nothing is undone. *)
AcquireFails(p) ==
  /\ "error" \in Faults
  /\ pc[p] \in {"decide", "write", "verify"}
  /\ Leave(p)
  /\ UNCHANGED <<blob, gone>>

(* A held lock is stamped again, without a look at the blob. *)
Refresh(p) ==
  /\ pc[p] = "held"
  /\ blob' = p
  /\ UNCHANGED <<pc, existing, gone>>

(* release() reads the blob and goes on to delete it only if it is ours. *)
ReleaseRead(p) ==
  /\ pc[p] = "held"
  /\ IF blob = p
     THEN Goto(p, "delete") /\ UNCHANGED existing
     ELSE Leave(p)
  /\ UNCHANGED <<blob, gone>>

(* BlobNotFound is ignored. *)
ReleaseDelete(p) ==
  /\ pc[p] = "delete"
  /\ blob' = NoLock
  /\ Leave(p)
  /\ UNCHANGED gone

-----------------------------------------------------------------------------
(* The process dies; its pid disappears, or is in use again. *)
Crash(p) ==
  /\ pc[p] # "dead"
  /\ Goto(p, "dead")
  /\ existing' = [existing EXCEPT ![p] = NoLock]
  /\ \/ gone' = gone \cup {p}
     \/ "reuse" \in Faults /\ gone' = gone
  /\ UNCHANGED blob

(* The unrelated process that got the pid of p ends. *)
PidFreed(p) ==
  /\ pc[p] = "dead" /\ p \notin gone
  /\ gone' = gone \cup {p}
  /\ UNCHANGED <<blob, pc, existing>>

Damage ==
  /\ "damage" \in Faults
  /\ blob \in Proc
  /\ blob' = Garbage
  /\ UNCHANGED <<pc, existing, gone>>

-----------------------------------------------------------------------------
Acquire(p) ==
  ReadLock(p) \/ Decide(p) \/ WriteLock(p) \/ Verify(p) \/ AcquireFails(p)

Release(p) == ReleaseRead(p) \/ ReleaseDelete(p)

Step ==
  \/ \E p \in Proc : Acquire(p) \/ Refresh(p) \/ Release(p)
                       \/ Crash(p) \/ PidFreed(p)
  \/ Damage

(* At most one process is between the read and the last read of acquire(), *)
(* nobody overrides the lock by hand and the blob is undamaged.            *)
Contender(p) == pc[p] \in {"decide", "write", "verify"}

PlainState ==
  /\ \A p, q \in Proc : Contender(p) /\ Contender(q) => p = q
  /\ \A p \in Forced : ~Contender(p)
  /\ blob # Garbage

Next == Step /\ plain' = (plain /\ PlainState')

Spec == Init /\ [][Next]_vars

(* A process that wants the lock keeps trying, not every attempt is cut    *)
(* short by an exception, and a process that has the lock gives it back.   *)
FairSpec ==
  Spec /\ \A p \in Proc : /\ WF_lockVars(ReadLock(p))
                          /\ SF_lockVars(Decide(p))
                          /\ SF_lockVars(WriteLock(p))
                          /\ WF_lockVars(Verify(p))
                          /\ WF_lockVars(Release(p))

-----------------------------------------------------------------------------
(* Properties. *)

Holds(p) == pc[p] \in {"held", "delete"}

(* One holder, as long as acquires have not overlapped and nobody forced   *)
(* or damaged the lock: the death of a holder at any point, a failed       *)
(* acquire, a reused pid or another host never admits a second one         *)
(* (cas/lock.py: two writers mutating the repository concurrently).        *)
MutualExclusion == plain => \A p, q \in Proc : Holds(p) /\ Holds(q) => p = q

(* p has the lock and nobody who could still take it is on the way. *)
Secure(p) ==
  /\ pc[p] = "held" /\ blob = p
  /\ \A q \in Proc \ {p} :
       /\ pc[q] \in {"idle", "decide", "verify", "dead"}
       /\ pc[q] = "decide" => existing[q] = p

(* Whatever overlaps: once every acquire that read the blob before p's     *)
(* payload was in it is over, p keeps the lock to itself until p gives it  *)
(* up, a forced acquire starts or the blob is damaged (cas/lock.py: the    *)
(* verify-after-write shrinks the race window).                            *)
SecureUntilReleased ==
  \A p \in Proc :
    Secure(p) => \/ Secure(p)' \/ pc'[p] # "held"
                 \/ \E q \in Forced : Contender(q)'
                 \/ blob' = Garbage

SecureHolderStaysAlone == [][SecureUntilReleased]_vars

(* The lock of a dead process does not block its host for good: while      *)
(* another process of the host lives, it takes the lock over (cas/lock.py: *)
(* every future operation deadlocks on a lock nobody holds).               *)
DeadHolderYields ==
  \A p, q \in Proc :
    HostOf[p] = HostOf[q] /\ [](pc[p] # "dead")
      => ((blob = q /\ q \in gone) ~> blob # q)
=============================================================================
