------------------------------ MODULE LockProofs ------------------------------
(***************************************************************************)
(* The repository lock, for any processes, hosts and placement of them.    *)
(***************************************************************************)
EXTENDS Lock, TLAPS

-----------------------------------------------------------------------------
LEMMA TypeInit == Init => LockTypeOK
BY LockAssumption DEF Init, LockTypeOK, Payload

LEMMA TypeNext == LockTypeOK /\ [Next]_vars => LockTypeOK'
<1> SUFFICES ASSUME LockTypeOK, [Next]_vars PROVE LockTypeOK'
    OBVIOUS
<1>1. CASE UNCHANGED vars
      BY <1>1 DEF vars, lockVars, LockTypeOK, Payload
<1>2. CASE Next
  <2>1. plain' \in BOOLEAN
        BY <1>2 DEF Next, LockTypeOK
  <2> USE LockAssumption, <2>1 DEF LockTypeOK, Payload, Goto, Leave
  <2>2. ASSUME NEW p \in Proc, Acquire(p) PROVE LockTypeOK'
        BY <2>2 DEF Acquire, ReadLock, Decide, WriteLock, Verify, AcquireFails
  <2>3. ASSUME NEW p \in Proc, Release(p) PROVE LockTypeOK'
        BY <2>3 DEF Release, ReleaseRead, ReleaseDelete
  <2>4. ASSUME NEW p \in Proc, Refresh(p) PROVE LockTypeOK'
        BY <2>4 DEF Refresh
  <2>5. ASSUME NEW p \in Proc, Crash(p) \/ PidFreed(p) PROVE LockTypeOK'
        BY <2>5 DEF Crash, PidFreed
  <2>6. CASE Damage
        BY <2>6 DEF Damage
  <2>7. QED
        BY <1>2, <2>2, <2>3, <2>4, <2>5, <2>6 DEF Next, Step
<1>3. QED
      BY <1>1, <1>2

(* Every state of the lock has its type, whatever overlaps, fails or is    *)
(* forced.                                                                 *)
THEOREM LockTypeCorrect == Spec => []LockTypeOK
<1>1. QED BY TypeInit, TypeNext, PTL DEF Spec

-----------------------------------------------------------------------------
(* A pid that does not exist belongs to a dead process. *)
GoneSound == \A p \in gone : pc[p] = "dead"

(* The blob names whoever holds the lock or has just written it, and a     *)
(* contender has seen the payload of the holder, if there is one.          *)
SerialSound ==
  /\ \A p \in Proc : pc[p] \in {"verify", "held", "delete"} => blob = p
  /\ \A p, q \in Proc : pc[p] = "decide" /\ Holds(q) => existing[p] = q
  /\ \A p, q \in Proc : pc[p] = "write" => ~Holds(q)

SerialInv ==
  LockTypeOK /\ GoneSound /\ (plain => PlainState /\ SerialSound)

LEMMA GoneNext ==
  ASSUME LockTypeOK, GoneSound, [Next]_vars
  PROVE  GoneSound'
BY DEF LockTypeOK, GoneSound, Next, Step, vars, lockVars, Acquire, ReadLock,
       Decide, WriteLock, Verify, AcquireFails, Refresh, Release, ReleaseRead,
       ReleaseDelete, Crash, PidFreed, Damage, Goto, Leave

LEMMA SerialInit == Init => SerialInv
BY TypeInit, LockAssumption
   DEF Init, SerialInv, GoneSound, PlainState, Contender, SerialSound, Holds

LEMMA SerialNext ==
  ASSUME SerialInv, [Next]_vars
  PROVE  SerialInv'
<1>1. LockTypeOK' /\ GoneSound'
      BY TypeNext, GoneNext DEF SerialInv
<1>2. CASE UNCHANGED vars
      BY <1>1, <1>2 DEF vars, lockVars, SerialInv, PlainState, Contender,
                        SerialSound, Holds
<1>3. CASE Next
  <2> SUFFICES ASSUME plain' PROVE SerialSound'
      BY <1>1, <1>3 DEF SerialInv, LockTypeOK, Next
  <2>1. PlainState /\ SerialSound /\ PlainState'
        BY <1>3 DEF Next, SerialInv
  <2> USE <2>1, LockAssumption
          DEF SerialInv, LockTypeOK, GoneSound, PlainState, Contender,
              SerialSound, Holds, Payload, Goto, Leave
  <2>2. ASSUME NEW p \in Proc, ReadLock(p) PROVE SerialSound'
        BY <2>2 DEF ReadLock
  <2>3. ASSUME NEW p \in Proc, Decide(p) PROVE SerialSound'
        BY <2>3 DEF Decide, Stale
  <2>4. ASSUME NEW p \in Proc, WriteLock(p) PROVE SerialSound'
        BY <2>4 DEF WriteLock
  <2>5. ASSUME NEW p \in Proc, Verify(p) PROVE SerialSound'
        BY <2>5 DEF Verify
  <2>6. ASSUME NEW p \in Proc, AcquireFails(p) PROVE SerialSound'
        BY <2>6 DEF AcquireFails
  <2>7. ASSUME NEW p \in Proc, Release(p) \/ Refresh(p) PROVE SerialSound'
        BY <2>7 DEF Release, ReleaseRead, ReleaseDelete, Refresh
  <2>8. ASSUME NEW p \in Proc, Crash(p) \/ PidFreed(p) PROVE SerialSound'
        BY <2>8 DEF Crash, PidFreed
  <2>9. ~Damage
        BY DEF Damage
  <2>10. QED
        BY <1>3, <2>2, <2>3, <2>4, <2>5, <2>6, <2>7, <2>8, <2>9
           DEF Next, Step, Acquire
<1>4. QED
      BY <1>2, <1>3

(* As long as acquires have not overlapped and nobody forced or damaged    *)
(* the lock, at most one process holds it: deaths, exceptions, other hosts *)
(* and reused pids never let a second one in.                              *)
THEOREM SerialExclusion == Spec => []MutualExclusion
<1>1. SerialInv => MutualExclusion
      BY DEF SerialInv, SerialSound, MutualExclusion, Holds
<1>2. SerialInv /\ [Next]_vars => SerialInv'
      BY SerialNext
<1>3. QED
      BY SerialInit, <1>1, <1>2, PTL DEF Spec

-----------------------------------------------------------------------------
LEMMA SecureNext ==
  ASSUME LockTypeOK, LockTypeOK', GoneSound, [Next]_vars
  PROVE  SecureUntilReleased
<1> SUFFICES ASSUME NEW h \in Proc, Secure(h), pc'[h] = "held",
                    \A q \in Forced : ~Contender(q)',
                    blob' # Garbage
             PROVE  Secure(h)'
    BY DEF SecureUntilReleased
<1> USE LockAssumption
        DEF LockTypeOK, GoneSound, Secure, Contender, Payload, Goto, Leave
<1>1. CASE UNCHANGED vars
      BY <1>1 DEF vars, lockVars
<1>2. ASSUME NEW p \in Proc, ReadLock(p) PROVE Secure(h)'
      BY <1>2 DEF ReadLock
<1>3. ASSUME NEW p \in Proc, Decide(p) PROVE Secure(h)'
      BY <1>3 DEF Decide, Stale
<1>4. ASSUME NEW p \in Proc, WriteLock(p) PROVE Secure(h)'
      BY <1>4 DEF WriteLock
<1>5. ASSUME NEW p \in Proc, Verify(p) PROVE Secure(h)'
      BY <1>5 DEF Verify
<1>6. ASSUME NEW p \in Proc, AcquireFails(p) PROVE Secure(h)'
      BY <1>6 DEF AcquireFails
<1>7. ASSUME NEW p \in Proc, Release(p) \/ Refresh(p) PROVE Secure(h)'
      BY <1>7 DEF Release, ReleaseRead, ReleaseDelete, Refresh
<1>8. ASSUME NEW p \in Proc, Crash(p) \/ PidFreed(p) PROVE Secure(h)'
      BY <1>8 DEF Crash, PidFreed
<1>9. ~Damage
      BY DEF Damage
<1>10. QED
      BY <1>1, <1>2, <1>3, <1>4, <1>5, <1>6, <1>7, <1>8, <1>9
         DEF Next, Step, Acquire

(* However acquires overlap: a holder whose payload every later reader has *)
(* seen cannot lose the lock before it gives it up, unless somebody forces *)
(* or damages the lock.                                                    *)
THEOREM SecureHolders == Spec => SecureHolderStaysAlone
<1>1. Init => LockTypeOK /\ GoneSound
      BY TypeInit DEF Init, GoneSound
<1>2. LockTypeOK /\ GoneSound /\ [Next]_vars
        => (LockTypeOK /\ GoneSound)' /\ SecureUntilReleased
      BY TypeNext, GoneNext, SecureNext
<1>3. SecureUntilReleased => [SecureUntilReleased]_vars
      OBVIOUS
<1>4. QED
      BY <1>1, <1>2, <1>3, PTL DEF Spec, SecureHolderStaysAlone
=============================================================================
