---------------------------- MODULE RefreshLock ----------------------------
(***************************************************************************)
(* The advisory lock file of src/domain/refresh-lock.ts, one file-system   *)
(* call per step.  Gateway processes that share a credentials file run     *)
(* acquireRefreshLock before they spend its refresh token; the calls of    *)
(* one process cannot interleave with each other, those of two processes   *)
(* can, between any two system calls.                                      *)
(*                                                                         *)
(* A contender is one call of acquireRefreshLock.  There is one lock path, *)
(* so the file is described by who created it (NoOne: no file) and by      *)
(* whether its mtime is older than the TTL.                                *)
(***************************************************************************)
EXTENDS Naturals

CONSTANTS
    Contender,      \* callers of acquireRefreshLock
    NoOne,          \* the owner of a lock file that does not exist
    MaxCrashes,     \* bound: crashes in one behaviour
    MayOverrun      \* may a live holder keep the lock longer than its TTL?

ASSUME NoOneAssumption == NoOne \notin Contender
ASSUME MaxCrashesAssumption == MaxCrashes \in Nat
ASSUME MayOverrunAssumption == MayOverrun \in BOOLEAN

VARIABLES
    lockOwner,      \* who created the file at the lock path, or NoOne
    lockStale,      \* the file's mtime is more than ttlMs ago
    lockPc,         \* where each contender is in acquireRefreshLock
    attempt,        \* the `attempt` of its for loop, from 1; 1 outside it
    crashes,        \* crashes so far (bounds the model)
    takenOver       \* history: some contender has judged the lock stale

lockVars == <<lockOwner, lockStale, lockPc, attempt, crashes, takenOver>>

MaxAttempts == 2

LockPc == {"idle", "open", "stat", "unlink", "held", "noop", "busy"}

Acquiring(c) == lockPc[c] \in {"open", "stat", "unlink"}
Holds(c) == lockPc[c] = "held"

LockInit ==
    /\ lockOwner = NoOne
    /\ lockStale = FALSE
    /\ lockPc = [c \in Contender |-> "idle"]
    /\ attempt = [c \in Contender |-> 1]
    /\ crashes = 0
    /\ takenOver = FALSE

Goto(c, label) == lockPc' = [lockPc EXCEPT ![c] = label]

----------------------------------------------------------------------------
(* acquireRefreshLock is called. *)
Begin(c) ==
    /\ lockPc[c] = "idle"
    /\ Goto(c, "open")
    /\ UNCHANGED <<lockOwner, lockStale, attempt, crashes, takenOver>>

\* Mutant of Open: the file is opened without the exclusive flag.
OpenNonExclusive(c) ==
    /\ lockPc[c] = "open"
    /\ lockOwner' = c
    /\ lockStale' = FALSE
    /\ Goto(c, "held")
    /\ UNCHANGED <<attempt, crashes, takenOver>>

(* openSync(path, "wx"): creates the file, or fails because it exists.     *)
Open(c) ==
    /\ lockPc[c] = "open"
    /\ \/ /\ lockOwner = NoOne
          /\ lockOwner' = c
          /\ lockStale' = FALSE
          /\ Goto(c, "held")
       \/ /\ lockOwner # NoOne
          /\ Goto(c, "stat")
          /\ UNCHANGED <<lockOwner, lockStale>>
    /\ UNCHANGED <<attempt, crashes, takenOver>>

(* openSync fails otherwise: NOOP_LOCK, the refresh goes on without a lock. *)
OpenFails(c) ==
    /\ lockPc[c] = "open"
    /\ Goto(c, "noop")
    /\ UNCHANGED <<lockOwner, lockStale, attempt, crashes, takenOver>>

\* Mutant of Stat: an existing file is never old enough.
StatIgnoresTtl(c) ==
    /\ lockPc[c] = "stat"
    /\ \/ /\ lockOwner = NoOne
          /\ Goto(c, "unlink")
          /\ takenOver' = TRUE
       \/ /\ lockOwner # NoOne
          /\ Goto(c, "busy")
          /\ UNCHANGED takenOver
    /\ UNCHANGED <<lockOwner, lockStale, attempt, crashes>>

(* statSync: a file past its TTL is stale, and so is one that has vanished  *)
(* since the open; a young file means a live holder.                        *)
Stat(c) ==
    /\ lockPc[c] = "stat"
    /\ \/ /\ lockOwner = NoOne \/ lockStale
          /\ Goto(c, "unlink")
          /\ takenOver' = TRUE
       \/ /\ lockOwner # NoOne /\ ~lockStale
          /\ Goto(c, "busy")
          /\ UNCHANGED takenOver
    /\ UNCHANGED <<lockOwner, lockStale, attempt, crashes>>

\* Mutant of Unlink: the loop has no bound.
UnlinkForever(c) ==
    /\ lockPc[c] = "unlink"
    /\ lockOwner' = NoOne
    /\ lockStale' = FALSE
    /\ Goto(c, "open")
    /\ UNCHANGED <<attempt, crashes, takenOver>>

\* Mutant of Unlink: `attempt <= 2` in the loop's condition.
UnlinkOnceMore(c) ==
    /\ lockPc[c] = "unlink"
    /\ lockOwner' = NoOne
    /\ lockStale' = FALSE
    /\ \/ /\ attempt[c] <= MaxAttempts
          /\ attempt' = [attempt EXCEPT ![c] = @ + 1]
          /\ Goto(c, "open")
       \/ /\ attempt[c] > MaxAttempts
          /\ Goto(c, "busy")
          /\ UNCHANGED attempt
    /\ UNCHANGED <<crashes, takenOver>>

(* unlinkSync removes whatever file is at the path by now, the judged one   *)
(* or a newer one.  The loop then makes its second attempt or, after that,  *)
(* returns null.                                                            *)
Unlink(c) ==
    /\ lockPc[c] = "unlink"
    /\ lockOwner' = NoOne
    /\ lockStale' = FALSE
    /\ \/ /\ attempt[c] < MaxAttempts
          /\ attempt' = [attempt EXCEPT ![c] = @ + 1]
          /\ Goto(c, "open")
       \/ /\ attempt[c] = MaxAttempts
          /\ Goto(c, "busy")
          /\ UNCHANGED attempt
    /\ UNCHANGED <<crashes, takenOver>>

(* The caller got null and goes on to wait for the holder's result.         *)
TurnAway(c) ==
    /\ lockPc[c] = "busy"
    /\ Goto(c, "idle")
    /\ attempt' = [attempt EXCEPT ![c] = 1]
    /\ UNCHANGED <<lockOwner, lockStale, crashes, takenOver>>

(* lock.release(): the path is unlinked without asking whose file it is;    *)
(* NOOP_LOCK's release does nothing.                                        *)
Release(c) ==
    /\ \/ /\ lockPc[c] = "held"
          /\ lockOwner' = NoOne
          /\ lockStale' = FALSE
       \/ /\ lockPc[c] = "noop"
          /\ UNCHANGED <<lockOwner, lockStale>>
    /\ Goto(c, "idle")
    /\ attempt' = [attempt EXCEPT ![c] = 1]
    /\ UNCHANGED <<crashes, takenOver>>

(* The contenders in S belong to a process that dies; the file survives.    *)
Crash(S) ==
    /\ crashes < MaxCrashes
    /\ crashes' = crashes + 1
    /\ lockPc' = [c \in Contender |-> IF c \in S THEN "idle" ELSE lockPc[c]]
    /\ attempt' = [c \in Contender |-> IF c \in S THEN 1 ELSE attempt[c]]
    /\ UNCHANGED <<lockOwner, lockStale, takenOver>>

(* The TTL passes.  A holder is done within the token endpoint's timeout    *)
(* (15 s against 20 s) unless its event loop stalls, which MayOverrun adds. *)
Expire ==
    /\ lockOwner # NoOne /\ ~lockStale
    /\ MayOverrun \/ ~Holds(lockOwner)
    /\ lockStale' = TRUE
    /\ UNCHANGED <<lockOwner, lockPc, attempt, crashes, takenOver>>

LockStep(c) == Open(c) \/ OpenFails(c) \/ Stat(c) \/ Unlink(c)

LockNext ==
    \/ \E c \in Contender :
          Begin(c) \/ LockStep(c) \/ TurnAway(c) \/ Release(c)
    \/ \E S \in SUBSET Contender : Crash(S)
    \/ Expire

(* A call that has started runs to its end, a refresh is bounded by its     *)
(* timeout, time passes, and the gateway's 60 s timer (index.ts) calls      *)
(* again.  Nothing obliges a contender to crash or the file system to fail. *)
LockFairness ==
    /\ WF_lockVars(Expire)
    /\ \A c \in Contender :
          /\ WF_lockVars(Begin(c))
          /\ WF_lockVars(Open(c) \/ Stat(c) \/ Unlink(c))
          /\ WF_lockVars(TurnAway(c))
          /\ WF_lockVars(Release(c))

LockSafetySpec == LockInit /\ [][LockNext]_lockVars
LockSpec == LockSafetySpec /\ LockFairness

----------------------------------------------------------------------------
(* The lock's variables hold what the code can put there; in particular the *)
(* acquire loop never makes a third attempt.                                *)
LockTypeOK ==
    /\ lockOwner \in Contender \cup {NoOne}
    /\ lockStale \in BOOLEAN
    /\ lockPc \in [Contender -> LockPc]
    /\ attempt \in [Contender -> 1..MaxAttempts]
    /\ crashes \in 0..MaxCrashes
    /\ takenOver \in BOOLEAN

(* What the lock does guarantee: until some contender judges the file       *)
(* stale, at most one contender holds it, whatever crashes and overruns     *)
(* there have been (openSync "wx", and only a holder unlinks).              *)
ExclusiveUntilTakeover ==
    ~takenOver => \A c, d \in Contender : Holds(c) /\ Holds(d) => c = d

(* What README.md:269 says of it: "several gateway processes sharing one    *)
(* credentials file never refresh concurrently".                            *)
NeverRefreshConcurrently ==
    \A c, d \in Contender : Holds(c) /\ Holds(d) => c = d

(* acquireRefreshLock never blocks: whoever enters it gets an answer, even  *)
(* when other contenders keep taking and leaving the lock under its feet.   *)
AcquireSettles == \A c \in Contender : Acquiring(c) ~> ~Acquiring(c)

(* "A crashed holder cannot wedge anything" (refresh-lock.ts:10): a file    *)
(* whose owner is not holding the lock any more does not keep everyone from *)
(* refreshing; it goes away, or a contender goes on without a lock.         *)
Orphaned(c) == lockOwner = c /\ ~Holds(c)
NeverWedged ==
    \A c \in Contender :
        Orphaned(c) ~> (~Orphaned(c) \/ \E d \in Contender : lockPc[d] = "noop")
============================================================================
