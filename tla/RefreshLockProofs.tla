-------------------------- MODULE RefreshLockProofs ------------------------
(* Proofs about RefreshLock, for any set of contenders, any number of       *)
(* crashes, and with or without holders that outlive the TTL.               *)
EXTENDS RefreshLock, TLAPS

(* Why the lock is exclusive before the first takeover: nobody is about to  *)
(* unlink a file it judged stale, and the file is the holder's own.         *)
HolderOwnsFile ==
    ~takenOver => \A c \in Contender :
        /\ lockPc[c] # "unlink"
        /\ Holds(c) => lockOwner = c

LockInv == LockTypeOK /\ HolderOwnsFile

(* The initial state satisfies the inductive invariant. *)
LEMMA LockInvInit == LockInit => LockInv
<1> SUFFICES ASSUME LockInit PROVE LockInv
  OBVIOUS
<1>1. LockTypeOK
  <2>1. 1 \in 1..MaxAttempts
    BY DEF MaxAttempts
  <2>2. 0 \in 0..MaxCrashes
    BY MaxCrashesAssumption
  <2>3. QED
    BY <2>1, <2>2 DEF LockInit, LockTypeOK, LockPc
<1>2. HolderOwnsFile
  BY DEF LockInit, HolderOwnsFile, Holds
<1>3. QED
  BY <1>1, <1>2 DEF LockInv

(* One contender's step keeps the inductive invariant. *)
LEMMA LockInvContender ==
    ASSUME LockInv, NEW c \in Contender,
           Begin(c) \/ LockStep(c) \/ TurnAway(c) \/ Release(c)
    PROVE  LockInv'
<1> USE NoOneAssumption DEF LockInv, LockTypeOK, HolderOwnsFile, Holds, LockPc, Goto
<1>1. CASE Begin(c)
  BY <1>1 DEF Begin
<1>2. CASE Open(c)
  BY <1>2 DEF Open
<1>3. CASE OpenFails(c)
  BY <1>3 DEF OpenFails
<1>4. CASE Stat(c)
  BY <1>4 DEF Stat
<1>5. CASE Unlink(c)
  <2>1. attempt' \in [Contender -> 1..MaxAttempts]
    BY <1>5 DEF Unlink, MaxAttempts
  <2>2. takenOver
    BY <1>5 DEF Unlink
  <2>3. QED
    BY <1>5, <2>1, <2>2 DEF Unlink
<1>6. CASE TurnAway(c)
  <2>1. attempt' \in [Contender -> 1..MaxAttempts]
    BY <1>6 DEF TurnAway, MaxAttempts
  <2>2. QED
    BY <1>6, <2>1 DEF TurnAway
<1>7. CASE Release(c)
  <2>1. attempt' \in [Contender -> 1..MaxAttempts]
    BY <1>7 DEF Release, MaxAttempts
  <2>2. QED
    BY <1>7, <2>1 DEF Release
<1>8. QED
  BY <1>1, <1>2, <1>3, <1>4, <1>5, <1>6, <1>7 DEF LockStep

(* A crash keeps it: a dead holder stops holding and its file stays. *)
LEMMA LockInvCrash ==
    ASSUME LockInv, NEW S, Crash(S)
    PROVE  LockInv'
BY MaxCrashesAssumption
   DEF Crash, LockInv, LockTypeOK, HolderOwnsFile, Holds, LockPc, MaxAttempts

(* So does the passing of the TTL. *)
LEMMA LockInvExpire == LockInv /\ Expire => LockInv'
BY DEF Expire, LockInv, LockTypeOK, HolderOwnsFile, Holds

(* LockInv is an invariant of the lock. *)
THEOREM LockInvariant == LockSafetySpec => []LockInv
<1>1. LockInv /\ [LockNext]_lockVars => LockInv'
  <2> SUFFICES ASSUME LockInv, [LockNext]_lockVars
               PROVE  LockInv'
    OBVIOUS
  <2>1. ASSUME NEW c \in Contender,
               Begin(c) \/ LockStep(c) \/ TurnAway(c) \/ Release(c)
        PROVE  LockInv'
    BY <2>1, LockInvContender
  <2>2. ASSUME NEW S \in SUBSET Contender, Crash(S)
        PROVE  LockInv'
    BY <2>2, LockInvCrash
  <2>3. CASE Expire
    BY <2>3, LockInvExpire
  <2>4. CASE UNCHANGED lockVars
    BY <2>4 DEF lockVars, LockInv, LockTypeOK, HolderOwnsFile, Holds
  <2>5. QED
    BY <2>1, <2>2, <2>3, <2>4 DEF LockNext
<1>2. QED
  BY <1>1, LockInvInit, PTL DEF LockSafetySpec

(* The acquire loop's state is well formed and its attempts are bounded.    *)
THEOREM LockTypeCorrect == LockSafetySpec => []LockTypeOK
<1>1. LockInv => LockTypeOK
  BY DEF LockInv
<1>2. QED
  BY <1>1, LockInvariant, PTL

(* Before anyone judges the file stale, at most one contender refreshes     *)
(* under the lock.                                                          *)
THEOREM LockExclusive == LockSafetySpec => []ExclusiveUntilTakeover
<1>1. LockInv => ExclusiveUntilTakeover
  BY DEF LockInv, HolderOwnsFile, ExclusiveUntilTakeover
<1>2. QED
  BY <1>1, LockInvariant, PTL
============================================================================
