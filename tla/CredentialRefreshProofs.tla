----------------------- MODULE CredentialRefreshProofs ---------------------
(* Proofs about CredentialRefresh, for any number of processes, requests,   *)
(* tokens, mishaps and crashes.                                             *)
EXTENDS CredentialRefresh, TLAPS

LP == INSTANCE RefreshLockProofs WITH Contender <- Request

----------------------------------------------------------------------------
(* The credential system uses the lock as RefreshLock describes it.         *)

(* A step of a request is a step of the lock's protocol or leaves it alone. *)
LEMMA RequestUsesLock ==
    ASSUME NEW r \in Request, RequestStep(r)
    PROVE  [L!LockNext]_lock
<1>1. CASE Ensure(r) \/ Poll(r) \/ Recover(r)
  <2>1. PICK f \in BOOLEAN : RefreshIfNeeded(r, f)
    BY <1>1 DEF Ensure, Poll, Recover
  <2>2. L!Begin(r) \/ UNCHANGED lock
    BY <2>1 DEF RefreshIfNeeded, ReturnAtOnce, JoinRefresh, LeadRefresh,
                StartRefresh
  <2>3. QED
    BY <2>2 DEF L!LockNext
<1>2. CASE WaitEnds(r) \/ Capture(r) \/ Reload(r) \/ Finish(r) \/ Mint(r) \/ Reply(r)
           \/ WriteBack(r) \/ Adopt(r)
  BY <1>2 DEF WaitEnds, Capture, Reload, Finish, Mint, Reply, ReplyOk, TakeReply, ReplyTerminal,
              ReplyTransient, ReplyLost, RefreshFails, WriteBack, Rename, RenameFails,
              Adopt, AdoptStored, AdoptGivesUp
<1>3. CASE LockStep(r)
  BY <1>3 DEF LockStep, L!LockStep, L!LockNext
<1>4. CASE AwaitHolder(r)
  BY <1>4 DEF AwaitHolder, L!LockNext
<1>5. CASE Release(r)
  BY <1>5 DEF Release, L!LockNext
<1>6. QED
  BY <1>1, <1>2, <1>3, <1>4, <1>5 DEF RequestStep

(* So is a step of a process or of its surroundings. *)
LEMMA SurroundingsUseLock ==
    ASSUME (\E p \in Proc : ProcessStep(p)) \/ WorldStep
    PROVE  [L!LockNext]_lock
<1>1. ASSUME NEW p \in Proc, ProcessStep(p)
      PROVE  [L!LockNext]_lock
  <2>1. CASE Crash(p)
    <3>1. RequestsOf(p) \in SUBSET Request
      BY DEF RequestsOf
    <3>2. QED
      BY <2>1, <3>1 DEF Crash, L!LockNext
  <2>2. CASE Boot(p) \/ CooldownEnds(p)
    BY <2>2 DEF Boot, CooldownEnds
  <2>3. QED
    BY <1>1, <2>1, <2>2 DEF ProcessStep
<1>2. CASE WorldStep
  BY <1>2 DEF WorldStep, CliObtains, CliTears, CliWrites, Closes, Expires, LockExpires,
              L!LockNext
<1>3. QED
  BY <1>1, <1>2

(* Every behaviour of the credential system is one of the lock: lock steps  *)
(* come in the order of acquireRefreshLock and of release, whatever         *)
(* happens between them.                                                    *)
THEOREM CredentialsUseLock == SafetySpec => UsesLock
<1>1. Init => L!LockInit
  BY DEF Init
<1>2. [Next]_vars => [L!LockNext]_(L!lockVars)
  <2>1. CASE Next
    <3>1. [L!LockNext]_lock
      BY <2>1, RequestUsesLock, SurroundingsUseLock DEF Next
    <3>2. QED
      BY <3>1 DEF lock, L!lockVars
  <2>2. CASE UNCHANGED vars
    BY <2>2 DEF vars, lock, L!lockVars
  <2>3. QED
    BY <2>1, <2>2
<1>3. QED
  BY <1>1, <1>2, PTL DEF SafetySpec, UsesLock, L!LockSafetySpec

(* The instance of the lock that the proofs of RefreshLockProofs are about  *)
(* is the one the credential system uses.                                   *)
LEMMA LockSpecsAgree == L!LockSafetySpec => LP!LockSafetySpec
<1>1. L!LockInit => LP!LockInit
  BY DEF L!LockInit, LP!LockInit
<1>2. [L!LockNext]_(L!lockVars) => [LP!LockNext]_(LP!lockVars)
  BY DEF L!Begin, L!Open, L!OpenFails, L!Stat, L!Unlink, L!LockStep, L!TurnAway, L!Release, L!Crash, L!Expire, L!Goto, L!Holds, L!lockVars, L!LockNext, L!MaxAttempts,
         LP!Begin, LP!Open, LP!OpenFails, LP!Stat, LP!Unlink, LP!LockStep, LP!TurnAway, LP!Release, LP!Crash, LP!Expire, LP!Goto, LP!Holds, LP!lockVars, LP!LockNext, LP!MaxAttempts
<1>3. QED
  BY <1>1, <1>2, PTL DEF L!LockSafetySpec, LP!LockSafetySpec

(* Hence, until a contender takes the lock over, at most one process has    *)
(* a refresh under the lock.                                                *)
THEOREM RefreshExclusive == SafetySpec => []L!ExclusiveUntilTakeover
<1>1. LP!LockSafetySpec => []LP!ExclusiveUntilTakeover
  BY LP!LockExclusive, NoRequestAssumption, BoundsAssumption
<1>2. LP!ExclusiveUntilTakeover => L!ExclusiveUntilTakeover
  BY DEF L!ExclusiveUntilTakeover, LP!ExclusiveUntilTakeover, L!Holds, LP!Holds
<1>3. QED
  BY <1>1, <1>2, LockSpecsAgree, CredentialsUseLock, PTL DEF UsesLock

(* The lock's variables keep their types in the credential system. *)
LEMMA LockTyped == SafetySpec => []L!LockTypeOK
<1>1. LP!LockSafetySpec => []LP!LockTypeOK
  BY LP!LockTypeCorrect, NoRequestAssumption, BoundsAssumption
<1>2. LP!LockTypeOK => L!LockTypeOK
  BY DEF L!LockTypeOK, LP!LockTypeOK, L!LockPc, LP!LockPc, L!MaxAttempts, LP!MaxAttempts
<1>3. QED
  BY <1>1, <1>2, LockSpecsAgree, CredentialsUseLock, PTL DEF UsesLock

----------------------------------------------------------------------------
(* Types, and the in-process single flight.                                 *)

(* Whoever runs a refresh is the request its process's refreshPromise       *)
(* stands for; a process that has none in flight has no request that runs   *)
(* one.  This is what makes a second refresh impossible.                    *)
LeaderInFlight == \A r \in Request : Leading(r) => inFlight[Home[r]] = r

FlightInv == WorldTypeOK /\ ProcessTypeOK /\ RequestTypeOK /\ LeaderInFlight

(* What refreshIfNeeded adopts first is a token. *)
LEMMA RereadTyped ==
    ASSUME WorldTypeOK, ProcessTypeOK, NEW p \in Proc
    PROVE  Reread(p) \in 0..MaxToken
BY DEF WorldTypeOK, ProcessTypeOK, Reread

(* A request that has a result is not running or joining a refresh. *)
LEMMA VerdictTyped ==
    ASSUME NEW q, NEW f \in BOOLEAN, NEW v, NEW oc
    PROVE  Verdict(q, f, v, oc) \in {"using", "refused", "served", "sleep"}
BY DEF Verdict

(* Handing out a result keeps the types of what it touches, and only the    *)
(* requests it does not go to may still be running a refresh.               *)
LEMMA ResolveTyped ==
    ASSUME RequestTypeOK, NEW S, NEW fs \in [Request -> BOOLEAN],
           NEW v \in 0..MaxToken, NEW oc, Resolve(S, fs, v, oc)
    PROVE  /\ stage' \in [Request -> Stage]
           /\ used' \in [Request -> 0..MaxToken]
           /\ force' \in [Request -> BOOLEAN]
           /\ \A q \in Request : Leading(q)' => q \notin S /\ Leading(q)
<1>1. \A q \in Request : stage'[q] = IF q \in S THEN Verdict(q, fs[q], v, oc) ELSE stage[q]
  BY DEF Resolve
<1>2. \A q \in Request : q \in S => stage'[q] \in {"using", "refused", "served", "sleep"}
  BY <1>1, VerdictTyped
<1>3. stage' \in [Request -> Stage]
  BY <1>1, <1>2 DEF Resolve, RequestTypeOK, Stage
<1>4. used' \in [Request -> 0..MaxToken] /\ force' \in [Request -> BOOLEAN]
  BY DEF Resolve, RequestTypeOK
<1>5. \A q \in Request : Leading(q)' => q \notin S /\ Leading(q)
  BY <1>1, <1>2 DEF Leading
<1>6. QED
  BY <1>3, <1>4, <1>5

(* The initial states satisfy the invariant. *)
LEMMA FlightInit == Init => FlightInv
<1> SUFFICES ASSUME Init PROVE FlightInv
  OBVIOUS
<1>1. WorldTypeOK
  BY MaxTokenAssumption DEF Init, WorldTypeOK, Token, NoToken
<1>2. ProcessTypeOK
  BY MaxTokenAssumption DEF Init, ProcessTypeOK, Outcome
<1>3. RequestTypeOK
  BY MaxTokenAssumption DEF Init, RequestTypeOK, Stage, NoToken
<1>4. LeaderInFlight
  BY DEF Init, LeaderInFlight, Leading
<1>5. QED
  BY <1>1, <1>2, <1>3, <1>4 DEF FlightInv

(* A request asks refreshIfNeeded for a token. *)
LEMMA RefreshIfNeededFlight ==
    ASSUME FlightInv, NEW r \in Request, NEW f \in BOOLEAN, RefreshIfNeeded(r, f)
    PROVE  FlightInv'
<1> DEFINE m == Reread(Home[r])
           fs == [force EXCEPT ![r] = f]
<1>1. Home[r] \in Proc
  BY HomeAssumption
<1>2. m \in 0..MaxToken
  BY <1>1, RereadTyped DEF FlightInv
<1> HIDE DEF m
<1>3. fs \in [Request -> BOOLEAN]
  BY DEF FlightInv, RequestTypeOK
<1>4. WorldTypeOK'
  BY DEF RefreshIfNeeded, world, FlightInv, WorldTypeOK
<1>5. memory' \in [Proc -> 0..MaxToken] /\ outcome' \in [Proc -> Outcome]
  BY <1>2 DEF RefreshIfNeeded, m, FlightInv, ProcessTypeOK
<1>6. /\ late' \in [Request -> BOOLEAN]
      /\ got' \in [Request -> 0..MaxToken]
  BY DEF RefreshIfNeeded, FlightInv, RequestTypeOK
<1>7. CASE ReturnAtOnce(r, f, m)
  <2> DEFINE v == IF ~f /\ Usable(m) THEN m ELSE NoToken
  <2>1. v \in 0..MaxToken
    BY <1>2, MaxTokenAssumption DEF NoToken
  <2> HIDE DEF v
  <2>2. Resolve({r}, fs, v, outcome[Home[r]])
    BY <1>7 DEF ReturnAtOnce, v
  <2>3. /\ stage' \in [Request -> Stage]
        /\ used' \in [Request -> 0..MaxToken]
        /\ force' \in [Request -> BOOLEAN]
        /\ \A q \in Request : Leading(q)' => Leading(q)
    BY <1>3, <2>1, <2>2, ResolveTyped DEF FlightInv
  <2>4. UNCHANGED <<inFlight, cur>>
    BY <1>7 DEF ReturnAtOnce
  <2>5. QED
    BY <1>4, <1>5, <1>6, <2>3, <2>4
       DEF FlightInv, ProcessTypeOK, RequestTypeOK, LeaderInFlight
<1>8. CASE JoinRefresh(r, f, m)
  <2>1. /\ stage' = [stage EXCEPT ![r] = "joined"]
        /\ force' = fs
        /\ UNCHANGED <<used, inFlight, cur>>
    BY <1>8 DEF JoinRefresh
  <2>2. stage' \in [Request -> Stage]
    BY <2>1 DEF FlightInv, RequestTypeOK, Stage
  <2>3. \A q \in Request : Leading(q)' => Leading(q)
    BY <2>1 DEF FlightInv, RequestTypeOK, Leading
  <2>4. QED
    BY <1>3, <1>4, <1>5, <1>6, <2>1, <2>2, <2>3
       DEF FlightInv, ProcessTypeOK, RequestTypeOK, LeaderInFlight
<1>9. CASE LeadRefresh(r, f, m)
  <2>1. /\ stage' = [stage EXCEPT ![r] = "refresh"]
        /\ force' = fs
        /\ inFlight[Home[r]] = NoOne
        /\ inFlight' = [inFlight EXCEPT ![Home[r]] = r]
        /\ cur' = [cur EXCEPT ![r] = m]
        /\ UNCHANGED used
    BY <1>9 DEF LeadRefresh, StartRefresh
  <2>2. /\ stage' \in [Request -> Stage]
        /\ inFlight' \in [Proc -> Request \cup {NoOne}]
        /\ cur' \in [Request -> 0..MaxToken]
    BY <1>2, <2>1 DEF FlightInv, RequestTypeOK, ProcessTypeOK, Stage
  <2>3. LeaderInFlight'
    <3> SUFFICES ASSUME NEW q \in Request, Leading(q)'
                 PROVE  inFlight'[Home[q]] = q
      BY DEF LeaderInFlight
    <3>1. CASE q = r
      BY <1>1, <2>1, <3>1 DEF FlightInv, ProcessTypeOK
    <3>2. CASE q # r
      <4>1. Leading(q)
        BY <2>1, <3>2 DEF FlightInv, RequestTypeOK, Leading
      <4>2. inFlight[Home[q]] = q
        BY <4>1 DEF FlightInv, LeaderInFlight
      <4>3. Home[q] # Home[r]
        BY <2>1, <4>2, NoRequestAssumption
      <4>4. QED
        BY <2>1, <4>2, <4>3, HomeAssumption DEF FlightInv, ProcessTypeOK
    <3>3. QED
      BY <3>1, <3>2
  <2>4. QED
    BY <1>3, <1>4, <1>5, <1>6, <2>1, <2>2, <2>3
       DEF FlightInv, ProcessTypeOK, RequestTypeOK
<1>10. QED
  BY <1>7, <1>8, <1>9 DEF RefreshIfNeeded, m

(* The steps of a request before and after its refresh. *)
LEMMA UserFlight ==
    ASSUME FlightInv, NEW r \in Request,
           WaitEnds(r) \/ Capture(r) \/ Reload(r) \/ Finish(r)
    PROVE  FlightInv'
<1> USE DEF FlightInv
<1>1. Home[r] \in Proc
  BY HomeAssumption
<1>2. WorldTypeOK'
  BY DEF WaitEnds, Capture, Reload, Finish, world, WorldTypeOK
<1>3. ProcessTypeOK'
  BY DEF WaitEnds, Capture, Reload, Finish, process, ProcessTypeOK, WorldTypeOK
<1>4. RequestTypeOK'
  <2>1. CASE WaitEnds(r)
    BY <2>1 DEF WaitEnds, RequestTypeOK
  <2>2. CASE Capture(r)
    BY <1>1, <2>2 DEF Capture, RequestTypeOK, ProcessTypeOK, Stage
  <2>3. CASE Reload(r)
    BY <2>3 DEF Reload, RequestTypeOK, WorldTypeOK
  <2>4. CASE Finish(r)
    BY <2>4, MaxTokenAssumption DEF Finish, RequestTypeOK, Stage, NoToken
  <2>5. QED
    BY <2>1, <2>2, <2>3, <2>4
<1>5. UNCHANGED inFlight
  BY DEF WaitEnds, Capture, Reload, Finish, process
<1>6. \A q \in Request : Leading(q)' => Leading(q)
  BY DEF WaitEnds, Capture, Reload, Finish, RequestTypeOK, Leading
<1>7. LeaderInFlight'
  BY <1>5, <1>6 DEF LeaderInFlight
<1>8. QED
  BY <1>2, <1>3, <1>4, <1>7

(* A step that leaves inFlight alone and makes nobody lead who did not.     *)
LEMMA LeadersStay ==
    ASSUME FlightInv, UNCHANGED inFlight, NEW r \in Request, Leading(r),
           NEW v, stage' = [stage EXCEPT ![r] = v]
    PROVE  LeaderInFlight'
<1>1. \A q \in Request : Leading(q)' => Leading(q)
  BY DEF FlightInv, RequestTypeOK, Leading
<1>2. QED
  BY <1>1 DEF FlightInv, LeaderInFlight

(* The leader's steps up to the endpoint's answer. *)
LEMMA ExchangeFlight ==
    ASSUME FlightInv, NEW r \in Request,
           LockStep(r) \/ AwaitHolder(r) \/ Mint(r)
    PROVE  FlightInv'
<1> USE DEF FlightInv
<1>1. CASE LockStep(r)
  <2>1. mishaps' \subseteq Mishaps
    BY <1>1 DEF LockStep, Suffers, WorldTypeOK
  <2>2. UNCHANGED <<store, issued, live, closing, expired, parent, cli, process, request>>
    BY <1>1 DEF LockStep
  <2>3. QED
    BY <2>1, <2>2 DEF process, request, WorldTypeOK, ProcessTypeOK, RequestTypeOK,
                      LeaderInFlight, Leading
<1>2. CASE AwaitHolder(r)
  <2>1. /\ Leading(r)
        /\ stage' = [stage EXCEPT ![r] = "adopt"]
        /\ UNCHANGED <<world, process, force, late, used, cur, got>>
    BY <1>2 DEF AwaitHolder, Leading
  <2>2. LeaderInFlight'
    BY <2>1, LeadersStay DEF process
  <2>3. RequestTypeOK'
    BY <2>1 DEF RequestTypeOK, Stage
  <2>4. WorldTypeOK' /\ ProcessTypeOK'
    BY <2>1 DEF world, process, WorldTypeOK, ProcessTypeOK
  <2>5. QED
    BY <2>2, <2>3, <2>4
<1>3. CASE Mint(r)
  <2>1. /\ issued < MaxToken
        /\ issued' = issued + 1
        /\ got' = [got EXCEPT ![r] = issued + 1]
        /\ live' = (live \ {cur[r]}) \cup {issued + 1}
        /\ parent' = [parent EXCEPT ![issued + 1] = cur[r]]
        /\ UNCHANGED <<store, closing, expired, cli, mishaps, process,
                       stage, force, late, used, cur>>
    BY <1>3 DEF Mint
  <2>2. issued + 1 \in Token
    BY <2>1, MaxTokenAssumption DEF WorldTypeOK, Token
  <2>3. closing' \in 0..issued' /\ expired' \in 0..closing'
    BY <2>1, <2>2, MaxTokenAssumption DEF WorldTypeOK, Token
  <2>4. parent' \in [Token -> 0..MaxToken]
    BY <2>1, <2>2 DEF WorldTypeOK, RequestTypeOK
  <2>5. WorldTypeOK'
    BY <2>1, <2>2, <2>3, <2>4 DEF WorldTypeOK
  <2>6. issued + 1 \in 0..MaxToken
    BY <2>2, MaxTokenAssumption DEF Token
  <2>7. RequestTypeOK'
    BY <2>1, <2>6 DEF RequestTypeOK
  <2>8. ProcessTypeOK' /\ LeaderInFlight'
    BY <2>1 DEF process, ProcessTypeOK, LeaderInFlight, Leading
  <2>9. QED
    BY <2>5, <2>7, <2>8
<1>4. QED
  BY <1>1, <1>2, <1>3

(* The refresh fails: what it leaves in memory and as its result. *)
LEMMA RefreshFailsFlight ==
    ASSUME FlightInv, NEW r \in Request, Leading(r),
           NEW oc \in Outcome, RefreshFails(r, oc), mishaps' \subseteq Mishaps
    PROVE  FlightInv'
<1> USE DEF FlightInv
<1>1. Home[r] \in Proc
  BY HomeAssumption
<1>2. memory' \in [Proc -> 0..MaxToken] /\ outcome' \in [Proc -> Outcome]
  BY DEF RefreshFails, ProcessTypeOK, WorldTypeOK, Outcome
<1>3. got' \in [Request -> 0..MaxToken]
  <2>1. (IF ~force[r] /\ Usable(cur[r]) THEN cur[r] ELSE NoToken) \in 0..MaxToken
    BY MaxTokenAssumption DEF RequestTypeOK, NoToken
  <2>2. store \in 0..MaxToken
    BY DEF WorldTypeOK
  <2>3. QED
    BY <2>1, <2>2 DEF RefreshFails, RequestTypeOK
<1>4. /\ stage' = [stage EXCEPT ![r] = "release"]
      /\ UNCHANGED <<store, issued, live, closing, expired, parent, cli, inFlight,
                     force, late, used, cur>>
  BY DEF RefreshFails
<1>5. LeaderInFlight'
  BY <1>4, LeadersStay
<1>6. WorldTypeOK'
  BY <1>4 DEF WorldTypeOK
<1>7. ProcessTypeOK'
  BY <1>2, <1>4 DEF ProcessTypeOK
<1>8. RequestTypeOK'
  BY <1>3, <1>4 DEF RequestTypeOK, Stage
<1>9. QED
  BY <1>5, <1>6, <1>7, <1>8

(* The endpoint's answer, and the write-back. *)
LEMMA ReplyFlight ==
    ASSUME FlightInv, NEW r \in Request, Reply(r) \/ WriteBack(r)
    PROVE  FlightInv'
<1>1. Leading(r)
  BY DEF Reply, WriteBack, ReplyOk, TakeReply, ReplyTerminal, ReplyTransient, ReplyLost,
         Rename, RenameFails, Posting, Leading
<1>2. Home[r] \in Proc
  BY HomeAssumption
<1>3. CASE ReplyOk(r)
  <2>1. /\ memory' = [memory EXCEPT ![Home[r]] = got[r]]
        /\ outcome' = [outcome EXCEPT ![Home[r]] = "clear"]
        /\ stage' = [stage EXCEPT ![r] = IF store = cur[r] THEN "rename" ELSE "release"]
        /\ UNCHANGED <<world, inFlight, force, late, used, cur, got>>
    BY <1>3 DEF ReplyOk, TakeReply
  <2>2. LeaderInFlight'
    BY <1>1, <2>1, LeadersStay
  <2>3. WorldTypeOK'
    BY <2>1 DEF world, FlightInv, WorldTypeOK
  <2>4. ProcessTypeOK'
    BY <2>1 DEF FlightInv, ProcessTypeOK, RequestTypeOK, Outcome
  <2>5. RequestTypeOK'
    BY <2>1 DEF FlightInv, RequestTypeOK, Stage
  <2>6. QED
    BY <2>2, <2>3, <2>4, <2>5 DEF FlightInv
<1>4. CASE ReplyTerminal(r)
  BY <1>1, <1>4, RefreshFailsFlight DEF ReplyTerminal, Outcome, FlightInv, WorldTypeOK
<1>5. CASE ReplyTransient(r)
  BY <1>1, <1>5, RefreshFailsFlight DEF ReplyTransient, Outcome, FlightInv, WorldTypeOK
<1>6. CASE ReplyLost(r)
  <2>1. mishaps' \subseteq Mishaps
    BY <1>6 DEF ReplyLost, Suffers, FlightInv, WorldTypeOK
  <2>2. QED
    BY <1>1, <1>6, <2>1, RefreshFailsFlight DEF ReplyLost, Outcome
<1>7. CASE WriteBack(r)
  <2>1. /\ stage' = [stage EXCEPT ![r] = "release"]
        /\ store' \in {store, got[r]}
        /\ UNCHANGED <<issued, live, closing, expired, parent, cli, process,
                       force, late, used, cur, got>>
    BY <1>7 DEF WriteBack, Rename, RenameFails
  <2>2. mishaps' \subseteq Mishaps
    BY <1>7 DEF WriteBack, Rename, RenameFails, Suffers, FlightInv, WorldTypeOK
  <2>3. LeaderInFlight'
    BY <1>1, <2>1, LeadersStay DEF process
  <2>4. store' \in 0..MaxToken
    BY <2>1 DEF FlightInv, WorldTypeOK, RequestTypeOK
  <2>5. WorldTypeOK'
    BY <2>1, <2>2, <2>4 DEF FlightInv, WorldTypeOK
  <2>6. ProcessTypeOK'
    BY <2>1 DEF process, FlightInv, ProcessTypeOK
  <2>7. RequestTypeOK'
    BY <2>1 DEF FlightInv, RequestTypeOK, Stage
  <2>8. QED
    BY <2>3, <2>5, <2>6, <2>7 DEF FlightInv
<1>8. QED
  BY <1>3, <1>4, <1>5, <1>6, <1>7 DEF Reply

(* The refresh is over: its request and those that joined get the result,   *)
(* and since no other request of the process was running one, the process   *)
(* is free for the next.                                                    *)
LEMMA SettleFlight ==
    ASSUME FlightInv, NEW r \in Request, Leading(r), NEW v \in 0..MaxToken, NEW oc,
           Settle(r, v, oc), WorldTypeOK', UNCHANGED late,
           memory' \in [Proc -> 0..MaxToken], outcome' \in [Proc -> Outcome]
    PROVE  FlightInv'
<1>1. Resolve(Waiting(r), force, v, oc) /\ force \in [Request -> BOOLEAN]
  BY DEF Settle, EndRefresh, FlightInv, RequestTypeOK
<1>2. /\ stage' \in [Request -> Stage]
      /\ used' \in [Request -> 0..MaxToken]
      /\ force' \in [Request -> BOOLEAN]
      /\ \A q \in Request : Leading(q)' => q \notin Waiting(r) /\ Leading(q)
  BY <1>1, ResolveTyped DEF FlightInv
<1>3. RequestTypeOK'
  <2>1. NoToken \in 0..MaxToken
    BY MaxTokenAssumption DEF NoToken
  <2>2. cur' \in [Request -> 0..MaxToken] /\ got' \in [Request -> 0..MaxToken]
    BY <2>1 DEF Settle, EndRefresh, FlightInv, RequestTypeOK
  <2>3. late' \in [Request -> BOOLEAN]
    BY DEF FlightInv, RequestTypeOK
  <2>4. QED
    BY <1>2, <2>2, <2>3 DEF RequestTypeOK
<1>4. ProcessTypeOK'
  BY DEF Settle, EndRefresh, FlightInv, ProcessTypeOK
<1>5. LeaderInFlight'
  <2> SUFFICES ASSUME NEW q \in Request, Leading(q)'
               PROVE  inFlight'[Home[q]] = q
    BY DEF LeaderInFlight
  <2>1. q # r /\ Leading(q)
    BY <1>2 DEF Waiting
  <2>2. inFlight[Home[q]] = q /\ inFlight[Home[r]] = r
    BY <2>1 DEF FlightInv, LeaderInFlight
  <2>3. Home[q] # Home[r]
    BY <2>1, <2>2
  <2>4. QED
    BY <2>2, <2>3, HomeAssumption DEF Settle, EndRefresh, FlightInv, ProcessTypeOK
<1>6. QED
  BY <1>3, <1>4, <1>5 DEF FlightInv

(* The ways in which a refresh ends. *)
LEMMA OverFlight ==
    ASSUME FlightInv, NEW r \in Request, Release(r) \/ Adopt(r)
    PROVE  FlightInv'
<1>1. Leading(r)
  BY DEF Release, Adopt, AdoptStored, AdoptGivesUp, Leading
<1>2. WorldTypeOK' /\ UNCHANGED late
  BY DEF Release, Adopt, AdoptStored, AdoptGivesUp, world, FlightInv, WorldTypeOK
<1>3. memory' \in [Proc -> 0..MaxToken] /\ outcome' \in [Proc -> Outcome]
  BY DEF Release, Adopt, AdoptStored, AdoptGivesUp, FlightInv, WorldTypeOK, ProcessTypeOK,
         Outcome
<1>4. PICK v \in 0..MaxToken, oc \in Outcome : Settle(r, v, oc)
  <2>1. Home[r] \in Proc
    BY HomeAssumption
  <2>2. CASE Release(r)
    BY <2>1, <2>2 DEF Release, FlightInv, RequestTypeOK, ProcessTypeOK
  <2>3. CASE AdoptStored(r)
    BY <2>3 DEF AdoptStored, FlightInv, WorldTypeOK, Outcome
  <2>4. CASE AdoptGivesUp(r)
    <3>1. (IF ~force[r] /\ Usable(cur[r]) THEN cur[r] ELSE NoToken) \in 0..MaxToken
      BY MaxTokenAssumption DEF FlightInv, RequestTypeOK, NoToken
    <3>2. outcome[Home[r]] \in Outcome
      BY <2>1 DEF FlightInv, ProcessTypeOK
    <3>3. QED
      BY <2>4, <3>1, <3>2 DEF AdoptGivesUp
  <2>5. QED
    BY <2>2, <2>3, <2>4 DEF Adopt
<1>5. QED
  BY <1>1, <1>2, <1>3, <1>4, SettleFlight

(* A process dies, starts, or comes out of a cooldown. *)
LEMMA ProcessFlight ==
    ASSUME FlightInv, NEW p \in Proc, ProcessStep(p)
    PROVE  FlightInv'
<1>1. CASE Crash(p)
  <2>1. WorldTypeOK'
    BY <1>1 DEF Crash, Suffers, FlightInv, WorldTypeOK
  <2>2. ProcessTypeOK'
    BY <1>1, MaxTokenAssumption DEF Crash, FlightInv, ProcessTypeOK, Outcome, NoToken
  <2>3. stage' \in [Request -> Stage] /\ force' \in [Request -> BOOLEAN]
        /\ late' \in [Request -> BOOLEAN]
    BY <1>1 DEF Crash, FlightInv, RequestTypeOK, Stage
  <2>4. /\ used' \in [Request -> 0..MaxToken]
        /\ cur' \in [Request -> 0..MaxToken]
        /\ got' \in [Request -> 0..MaxToken]
    BY <1>1, MaxTokenAssumption DEF Crash, FlightInv, RequestTypeOK, NoToken
  <2>5. \A q \in Request : Leading(q)' => Home[q] # p /\ Leading(q)
    BY <1>1 DEF Crash, Leading
  <2>6. LeaderInFlight'
    BY <1>1, <2>5, HomeAssumption DEF Crash, FlightInv, ProcessTypeOK, LeaderInFlight
  <2>7. QED
    BY <2>1, <2>2, <2>3, <2>4, <2>6 DEF FlightInv, RequestTypeOK
<1>2. CASE Boot(p) \/ CooldownEnds(p)
  <2>1. ProcessTypeOK'
    BY <1>2 DEF Boot, CooldownEnds, FlightInv, WorldTypeOK, ProcessTypeOK, Outcome
  <2>2. UNCHANGED <<world, inFlight, request>>
    BY <1>2 DEF Boot, CooldownEnds
  <2>3. QED
    BY <2>1, <2>2 DEF world, request, FlightInv, WorldTypeOK, RequestTypeOK,
                      LeaderInFlight, Leading
<1>3. QED
  BY <1>1, <1>2 DEF ProcessStep

(* The CLI moves, or time passes. *)
LEMMA WorldFlight ==
    ASSUME FlightInv, WorldStep
    PROVE  FlightInv'
<1>1. UNCHANGED <<process, request>>
  BY DEF WorldStep, CliObtains, CliTears, CliWrites, Closes, Expires, LockExpires
<1>2. WorldTypeOK'
  <2>1. ASSUME NEW spent \in {{}, {store} \cap live}, CliObtains(spent)
        PROVE  WorldTypeOK'
    <3>1. /\ issued < MaxToken
          /\ issued' = issued + 1
          /\ cli' = issued + 1
          /\ live' = (live \ spent) \cup {issued + 1}
          /\ parent' = [parent EXCEPT ![issued + 1] = IF spent = {} THEN NoToken ELSE store]
          /\ UNCHANGED <<store, closing, expired>>
      BY <2>1 DEF CliObtains
    <3>2. mishaps' \subseteq Mishaps
      BY <2>1 DEF CliObtains, Suffers, FlightInv, WorldTypeOK
    <3>3. issued + 1 \in Token /\ issued + 1 \in 0..MaxToken
      BY <3>1, MaxTokenAssumption DEF FlightInv, WorldTypeOK, Token
    <3>4. closing' \in 0..issued' /\ expired' \in 0..closing'
      BY <3>1, <3>3 DEF FlightInv, WorldTypeOK, Token
    <3>5. (IF spent = {} THEN NoToken ELSE store) \in 0..MaxToken
      BY MaxTokenAssumption DEF FlightInv, WorldTypeOK, NoToken
    <3>6. parent' \in [Token -> 0..MaxToken]
      BY <3>1, <3>3, <3>5 DEF FlightInv, WorldTypeOK
    <3>7. QED
      BY <3>1, <3>2, <3>3, <3>4, <3>6 DEF FlightInv, WorldTypeOK
  <2>2. CASE CliTears \/ CliWrites
    BY <2>2, MaxTokenAssumption
       DEF CliTears, CliWrites, FlightInv, WorldTypeOK, NoToken
  <2>3. CASE Closes \/ Expires
    <3>1. issued' = issued /\ issued \in Nat /\ closing \in 0..issued /\ expired \in 0..closing
      BY <2>3, MaxTokenAssumption DEF Closes, Expires, FlightInv, WorldTypeOK, Token
    <3>2. closing' \in 0..issued' /\ expired' \in 0..closing'
      BY <2>3, <3>1 DEF Closes, Expires
    <3>3. UNCHANGED <<store, issued, live, parent, cli, mishaps>>
      BY <2>3 DEF Closes, Expires
    <3>4. QED
      BY <3>2, <3>3 DEF FlightInv, WorldTypeOK
  <2>4. CASE LockExpires
    BY <2>4 DEF LockExpires, world, FlightInv, WorldTypeOK
  <2>5. QED
    BY <2>1, <2>2, <2>3, <2>4 DEF WorldStep
<1>3. QED
  BY <1>1, <1>2 DEF process, request, FlightInv, ProcessTypeOK, RequestTypeOK,
                    LeaderInFlight, Leading

(* FlightInv is an invariant of the credential system. *)
THEOREM FlightInvariant == SafetySpec => []FlightInv
<1>1. FlightInv /\ [Next]_vars => FlightInv'
  <2> SUFFICES ASSUME FlightInv, [Next]_vars
               PROVE  FlightInv'
    OBVIOUS
  <2>1. ASSUME NEW r \in Request, RequestStep(r)
        PROVE  FlightInv'
    <3>1. CASE Ensure(r) \/ Poll(r) \/ Recover(r)
      BY <3>1, RefreshIfNeededFlight DEF Ensure, Poll, Recover
    <3>2. QED
      BY <2>1, <3>1, UserFlight, ExchangeFlight, ReplyFlight, OverFlight DEF RequestStep
  <2>2. ASSUME NEW p \in Proc, ProcessStep(p)
        PROVE  FlightInv'
    BY <2>2, ProcessFlight
  <2>3. CASE WorldStep
    BY <2>3, WorldFlight
  <2>4. CASE UNCHANGED vars
    BY <2>4 DEF vars, world, process, request, FlightInv, WorldTypeOK, ProcessTypeOK,
                RequestTypeOK, LeaderInFlight, Leading
  <2>5. QED
    BY <2>1, <2>2, <2>3, <2>4 DEF Next
<1>2. QED
  BY <1>1, FlightInit, PTL DEF SafetySpec

(* The variables keep their types, for every number of processes, requests, *)
(* tokens and mishaps.                                                      *)
THEOREM TypeCorrect == SafetySpec => []TypeOK
<1>1. FlightInv /\ L!LockTypeOK => TypeOK
  BY DEF FlightInv, TypeOK
<1>2. QED
  BY <1>1, FlightInvariant, LockTyped, PTL

(* A process never runs two refreshes at once. *)
THEOREM SingleFlightCorrect == SafetySpec => []SingleFlight
<1>1. FlightInv => SingleFlight
  BY DEF FlightInv, LeaderInFlight, SingleFlight
<1>2. QED
  BY <1>1, FlightInvariant, PTL

----------------------------------------------------------------------------
(* The tokens: which one is in the file, in a process's memory, on its way  *)
(* between them, and served to a request.  First what the steps do to the   *)
(* tokens, then one inductive invariant after the other, each of which the  *)
(* next one uses.                                                           *)

Typed == FlightInv /\ L!LockTypeOK

(* The token that the refresh of r has obtained and still has to put where  *)
(* others can see it.                                                       *)
Minted(r) == stage[r] \in {"refresh", "rename"} /\ got[r] # NoToken

----------------------------------------------------------------------------
(* What steps do to the tokens. *)

tokens == <<store, issued, live, closing, expired, parent, cli>>

(* A step that moves no token and nobody into or out of a refresh. *)
Quiet ==
    /\ UNCHANGED <<tokens, memory, force, cur, got>>
    /\ \A q \in Request : stage'[q] = stage[q] \/ (~Leading(q) /\ ~Leading(q)')

(* A request before and after its refresh, a cooldown that ends and a lock  *)
(* file that ages are quiet.                                                *)
LEMMA QuietSteps ==
    ASSUME Typed
    PROVE  /\ \A r \in Request : WaitEnds(r) \/ Capture(r) \/ Finish(r) => Quiet
           /\ \A r \in Request : LockStep(r) => Quiet
           /\ \A p \in Proc : CooldownEnds(p) => Quiet
           /\ LockExpires \/ UNCHANGED vars => Quiet
<1>1. ASSUME NEW r \in Request, WaitEnds(r) \/ Capture(r) \/ Finish(r)
      PROVE  Quiet
  <2>1. UNCHANGED <<tokens, memory, force, cur, got>>
    BY <1>1 DEF WaitEnds, Capture, Finish, world, process, tokens
  <2>2. \A q \in Request : stage'[q] = stage[q] \/ (~Leading(q) /\ ~Leading(q)')
    BY <1>1 DEF WaitEnds, Capture, Finish, Leading, Typed, FlightInv, RequestTypeOK
  <2>3. QED
    BY <2>1, <2>2 DEF Quiet
<1>2. ASSUME NEW r \in Request, LockStep(r)
      PROVE  Quiet
  BY <1>2 DEF LockStep, process, request, tokens, Quiet
<1>3. ASSUME NEW p \in Proc, CooldownEnds(p)
      PROVE  Quiet
  BY <1>3 DEF CooldownEnds, world, request, tokens, Quiet
<1>4. ASSUME LockExpires \/ UNCHANGED vars
      PROVE  Quiet
  BY <1>4 DEF LockExpires, vars, world, process, request, tokens, Quiet
<1>5. QED
  BY <1>1, <1>2, <1>3, <1>4

(* refreshIfNeeded adopts Reread's token and then answers its caller, makes *)
(* it wait for the refresh in flight, or makes it run one.                  *)
Asks(r, f) ==
    LET m == Reread(Home[r]) IN
    /\ Ready(Home[r])
    /\ UNCHANGED <<tokens, mishaps, outcome, got>>
    /\ memory' = [memory EXCEPT ![Home[r]] = m]
    /\ \A q \in Request \ {r} :
          stage'[q] = stage[q] /\ force'[q] = force[q] /\ cur'[q] = cur[q]
    /\ \/ /\ ~Leading(r)' /\ UNCHANGED <<cur, lock>>
          /\ stage'[r] = "served" => Usable(m)
       \/ /\ stage'[r] = "refresh" /\ force'[r] = f /\ cur'[r] = m
          /\ f \/ ~UsableForLong(m)
          /\ outcome[Home[r]] # "cooling"
          /\ L!Begin(r)

LEMMA AskSteps ==
    ASSUME Typed, NEW r \in Request, Ensure(r) \/ Poll(r) \/ Recover(r)
    PROVE  ~Leading(r) /\ \E f \in BOOLEAN : Asks(r, f)
<1>1. ~Leading(r)
  BY DEF Ensure, Poll, Recover, Leading
<1>2. PICK f \in BOOLEAN : RefreshIfNeeded(r, f)
  BY DEF Ensure, Poll, Recover
<1> DEFINE m == Reread(Home[r])
<1> HIDE DEF m
<1>3. /\ Ready(Home[r])
      /\ UNCHANGED <<tokens, mishaps, outcome, got>>
      /\ memory' = [memory EXCEPT ![Home[r]] = m]
  BY <1>2 DEF RefreshIfNeeded, world, tokens, m
<1>4. CASE ReturnAtOnce(r, f, m)
  <2> DEFINE v == IF ~f /\ Usable(m) THEN m ELSE NoToken
             fs == [force EXCEPT ![r] = f]
  <2>1. Resolve({r}, fs, v, outcome[Home[r]]) /\ UNCHANGED <<cur, lock>>
    BY <1>4 DEF ReturnAtOnce
  <2>2. stage'[r] = Verdict(r, f, v, outcome[Home[r]])
    BY <2>1 DEF Resolve, Typed, FlightInv, RequestTypeOK
  <2>3. \A q \in Request \ {r} :
           stage'[q] = stage[q] /\ force'[q] = force[q] /\ cur'[q] = cur[q]
    BY <2>1 DEF Resolve
  <2>4. stage'[r] \in {"using", "refused", "served", "sleep"}
    BY <2>2, VerdictTyped
  <2>5. stage'[r] = "served" => Usable(m)
    <3>1. stage'[r] = "served" => Usable(v)
      BY <2>2 DEF Verdict
    <3>2. ~Usable(NoToken)
      BY DEF Usable, NoToken, Typed, FlightInv, WorldTypeOK
    <3>3. QED
      BY <3>1, <3>2
  <2>6. QED
    BY <1>1, <1>3, <2>1, <2>3, <2>4, <2>5 DEF Asks, Leading, m
<1>5. CASE JoinRefresh(r, f, m)
  BY <1>1, <1>3, <1>5 DEF JoinRefresh, Asks, Leading, m, Typed, FlightInv, RequestTypeOK
<1>6. CASE LeadRefresh(r, f, m)
  BY <1>1, <1>3, <1>6
     DEF LeadRefresh, StartRefresh, Asks, m, Typed, FlightInv, RequestTypeOK
<1>7. QED
  BY <1>2, <1>4, <1>5, <1>6 DEF RefreshIfNeeded, m

(* The refresh of r fails: another writer's token is adopted, or r's result *)
(* is its current token or none.                                            *)
Fails(r, oc) ==
    /\ UNCHANGED <<tokens, force, cur>>
    /\ stage[r] = "refresh" /\ lockPc[r] \in {"held", "noop"}
    /\ stage' = [stage EXCEPT ![r] = "release"]
    /\ UNCHANGED lockPc
    /\ \/ /\ Usable(store) /\ store # cur[r]
          /\ memory' = [memory EXCEPT ![Home[r]] = store]
          /\ got' = [got EXCEPT ![r] = store]
          /\ outcome' = [outcome EXCEPT ![Home[r]] = "clear"]
       \/ /\ ~(Usable(store) /\ store # cur[r])
          /\ got' = [got EXCEPT ![r] =
                       IF ~force[r] /\ Usable(cur[r]) THEN cur[r] ELSE NoToken]
          /\ outcome' = [outcome EXCEPT ![Home[r]] = oc]
          /\ UNCHANGED memory

LEMMA FailSteps ==
    ASSUME NEW r \in Request
    PROVE  /\ ReplyTerminal(r) => /\ got[r] = NoToken /\ cur[r] \notin live
                                  /\ Fails(r, "terminal") /\ UNCHANGED mishaps
           /\ ReplyTransient(r) => /\ got[r] = NoToken
                                   /\ Fails(r, "cooling") /\ UNCHANGED mishaps
           /\ ReplyLost(r) => Fails(r, "cooling") /\ mishaps' = mishaps \cup {"lost"}
<1> USE DEF RefreshFails, Fails, Posting, tokens, lock
<1>1. ASSUME ReplyTerminal(r)
      PROVE  got[r] = NoToken /\ cur[r] \notin live /\ Fails(r, "terminal") /\ UNCHANGED mishaps
  BY <1>1 DEF ReplyTerminal
<1>2. ASSUME ReplyTransient(r)
      PROVE  got[r] = NoToken /\ Fails(r, "cooling") /\ UNCHANGED mishaps
  BY <1>2 DEF ReplyTransient
<1>3. ASSUME ReplyLost(r)
      PROVE  Fails(r, "cooling") /\ mishaps' = mishaps \cup {"lost"}
  BY <1>3 DEF ReplyLost, Suffers
<1>4. QED
  BY <1>1, <1>2, <1>3

(* The refresh of r is over, with v for its result: nobody else starts or   *)
(* stops leading, and whoever is served has v, a usable one.                *)
Ends(r, v) ==
    /\ UNCHANGED <<tokens, mishaps>>
    /\ ~Leading(r)'
    /\ \A q \in Request \ {r} :
          \/ stage'[q] = stage[q] /\ force'[q] = force[q]
          \/ ~Leading(q) /\ ~Leading(q)'
    /\ cur' = [cur EXCEPT ![r] = NoToken]
    /\ got' = [got EXCEPT ![r] = NoToken]
    /\ \A q \in Request : stage[q] # "served" /\ stage'[q] = "served" =>
          Home[q] = Home[r] /\ ~force[q] /\ Usable(v)

LEMMA SettleEnds ==
    ASSUME Typed, NEW r \in Request, NEW v, NEW oc,
           Settle(r, v, oc), UNCHANGED <<tokens, mishaps>>
    PROVE  Ends(r, v)
<1> DEFINE S == Waiting(r)
<1>1. S \subseteq Request /\ \A q \in S : q = r \/ stage[q] = "joined"
  BY DEF Waiting, RequestsOf
<1>2. \A q \in S : Home[q] = Home[r]
  BY DEF Waiting, RequestsOf
<1>3. r \in S
  BY DEF Waiting
<1> HIDE DEF S
<1>4. \A q \in Request : /\ stage'[q] = IF q \in S THEN Verdict(q, force[q], v, oc) ELSE stage[q]
                         /\ force'[q] = IF q \in S THEN FALSE ELSE force[q]
  BY DEF Settle, EndRefresh, Resolve, S
<1>5. \A q \in Request : Verdict(q, force[q], v, oc) \in {"using", "refused", "served", "sleep"}
  BY VerdictTyped DEF Typed, FlightInv, RequestTypeOK
<1>6. \A q \in Request : Verdict(q, force[q], v, oc) = "served" => ~force[q] /\ Usable(v)
  BY DEF Verdict
<1>7. \A q \in S : ~Leading(q)'
  BY <1>1, <1>4, <1>5 DEF Leading
<1>8. \A q \in Request \ {r} : \/ stage'[q] = stage[q] /\ force'[q] = force[q]
                               \/ ~Leading(q) /\ ~Leading(q)'
  BY <1>1, <1>4, <1>7 DEF Leading
<1>9. \A q \in Request : stage[q] # "served" /\ stage'[q] = "served" =>
         Home[q] = Home[r] /\ ~force[q] /\ Usable(v)
  BY <1>2, <1>4, <1>6
<1>10. cur' = [cur EXCEPT ![r] = NoToken] /\ got' = [got EXCEPT ![r] = NoToken]
  BY DEF Settle, EndRefresh
<1>11. QED
  BY <1>3, <1>7, <1>8, <1>9, <1>10 DEF Ends

(* The tokens are numbers, and tokens expire in the order of issue. *)
Numbers ==
    /\ store \in Nat /\ issued \in Nat /\ cli \in Nat /\ live \subseteq Nat \ {0}
    /\ closing \in Nat /\ expired \in Nat /\ expired <= closing /\ closing <= issued
    /\ parent \in [Token -> Nat]
    /\ memory \in [Proc -> Nat]
    /\ cur \in [Request -> Nat] /\ got \in [Request -> Nat]

(* They are in every state whose types are right. *)
LEMMA TypedNumbers == Typed => Numbers
<1> SUFFICES ASSUME Typed PROVE Numbers
  OBVIOUS
<1>1. 0..MaxToken \subseteq Nat /\ Token \subseteq Nat \ {0}
  BY MaxTokenAssumption DEF Token
<1>2. issued \in Nat
  BY <1>1 DEF Typed, FlightInv, WorldTypeOK
<1>3. /\ closing \in Nat /\ expired \in Nat /\ expired <= closing /\ closing <= issued
  BY <1>2 DEF Typed, FlightInv, WorldTypeOK
<1>4. store \in Nat /\ cli \in Nat /\ live \subseteq Nat \ {0} /\ parent \in [Token -> Nat]
  BY <1>1 DEF Typed, FlightInv, WorldTypeOK
<1>5. memory \in [Proc -> Nat] /\ cur \in [Request -> Nat] /\ got \in [Request -> Nat]
  BY <1>1 DEF Typed, FlightInv, ProcessTypeOK, RequestTypeOK
<1>6. QED
  BY <1>2, <1>3, <1>4, <1>5 DEF Numbers

(* In every state of a behaviour the types are right. *)
LEMMA TypedInvariant == SafetySpec => []Typed
BY FlightInvariant, LockTyped, PTL DEF Typed

----------------------------------------------------------------------------
(* No token is about before it is issued; a token that has been obtained is *)
(* held by a refresh that has the lock, or has gone on without one.         *)
Issued ==
    /\ store <= issued /\ cli <= issued
    /\ \A t \in live : t <= issued
    /\ \A p \in Proc : memory[p] <= issued
    /\ \A r \in Request : cur[r] <= issued /\ got[r] <= issued

Locked(r) == lockPc[r] \in {"held", "noop"}

Obtained(r) ==
    /\ got[r] # NoToken => stage[r] \in {"refresh", "rename", "release"} /\ Locked(r)
    /\ stage[r] \in {"rename", "release"} => Locked(r)
    /\ stage[r] = "rename" => got[r] # NoToken

BoundsInv == Issued /\ \A r \in Request : Obtained(r)

(* The steps before, after and around a refresh keep these bounds. *)
LEMMA BoundsOutside ==
    ASSUME Typed, BoundsInv, NEW r \in Request,
           \/ Ensure(r) \/ Poll(r) \/ Recover(r) \/ Reload(r)
           \/ WaitEnds(r) \/ Capture(r) \/ Finish(r)
    PROVE  BoundsInv'
<1> USE DEF BoundsInv
<1>1. CASE Ensure(r) \/ Poll(r) \/ Recover(r)
  <2>1. PICK f \in BOOLEAN : ~Leading(r) /\ Asks(r, f)
    BY <1>1, AskSteps
  <2>2. Reread(Home[r]) <= issued
    BY HomeAssumption DEF Reread, Issued
  <2>3. Issued'
    BY <2>1, <2>2, TypedNumbers DEF Asks, tokens, Issued, Numbers
  <2>4. got' = got /\ got[r] = NoToken
    BY <2>1 DEF Asks, Obtained, Leading
  <2>5. \A q \in Request \ {r} : stage'[q] = stage[q] /\ lockPc'[q] = lockPc[q]
    BY <2>1 DEF Asks, lock, L!Begin, L!Goto, Typed, L!LockTypeOK
  <2>6. stage'[r] \notin {"rename", "release"}
    BY <2>1 DEF Asks, Leading
  <2>7. \A q \in Request : Obtained(q)'
    BY <2>4, <2>5, <2>6 DEF Obtained, Locked
  <2>8. QED
    BY <2>3, <2>7
<1>2. CASE Reload(r)
  BY <1>2, TypedNumbers DEF Reload, world, lock, Issued, Obtained, Locked, Numbers
<1>3. CASE WaitEnds(r) \/ Capture(r) \/ Finish(r)
  <2>1. UNCHANGED <<tokens, memory, force, cur, got>>
    BY <1>3, QuietSteps DEF Quiet
  <2>2. UNCHANGED lock
    BY <1>3 DEF WaitEnds, Capture, Finish
  <2>3. Issued'
    BY <2>1 DEF Issued, tokens
  <2>4. \A q \in Request : stage'[q] = stage[q] \/ (~Leading(q) /\ ~Leading(q)')
    BY <1>3, QuietSteps DEF Quiet
  <2>5. \A q \in Request : Obtained(q)'
    BY <2>1, <2>2, <2>4 DEF Obtained, Locked, Leading, lock
  <2>6. QED
    BY <2>3, <2>5
<1>4. QED
  BY <1>1, <1>2, <1>3

(* The lock, the exchange, the answer and the write-back keep them. *)
LEMMA BoundsRefresh ==
    ASSUME Typed, BoundsInv, NEW r \in Request,
           LockStep(r) \/ AwaitHolder(r) \/ Mint(r) \/ Reply(r) \/ WriteBack(r)
    PROVE  BoundsInv'
<1> USE DEF BoundsInv
<1>1. CASE LockStep(r)
  <2>1. UNCHANGED <<tokens, memory, stage, cur, got>>
    BY <1>1 DEF LockStep, tokens, process, request
  <2>2. /\ stage[r] = "refresh" /\ ~Locked(r)
        /\ \A q \in Request \ {r} : lockPc'[q] = lockPc[q]
    BY <1>1 DEF LockStep, L!Open, L!Stat, L!Unlink, L!OpenFails, L!Goto, Locked,
                Typed, L!LockTypeOK
  <2>3. QED
    BY <2>1, <2>2 DEF Issued, Obtained, Locked, tokens
<1>2. CASE AwaitHolder(r)
  <2>1. /\ UNCHANGED <<tokens, memory, cur, got>>
        /\ stage' = [stage EXCEPT ![r] = "adopt"]
        /\ ~Locked(r)
        /\ \A q \in Request \ {r} : lockPc'[q] = lockPc[q]
    BY <1>2 DEF AwaitHolder, world, tokens, process, L!TurnAway, L!Goto, Locked,
                Typed, L!LockTypeOK
  <2>2. QED
    BY <2>1 DEF Issued, Obtained, Locked, tokens, Typed, FlightInv, RequestTypeOK
<1>3. CASE Mint(r)
  <2>1. /\ issued' = issued + 1
        /\ got' = [got EXCEPT ![r] = issued + 1]
        /\ live' = (live \ {cur[r]}) \cup {issued + 1}
        /\ UNCHANGED <<store, cli, memory, stage, cur, lockPc>>
        /\ stage[r] = "refresh" /\ Locked(r)
    BY <1>3 DEF Mint, Posting, Locked, process, lock
  <2>2. Issued'
    BY <2>1, TypedNumbers DEF Issued, Numbers
  <2>3. \A q \in Request : Obtained(q)'
    BY <2>1, TypedNumbers DEF Obtained, Locked, Numbers
  <2>4. QED
    BY <2>2, <2>3
<1>4. CASE ReplyOk(r)
  <2>1. /\ stage[r] = "refresh" /\ Locked(r) /\ got[r] # NoToken
        /\ memory' = [memory EXCEPT ![Home[r]] = got[r]]
        /\ stage' = [stage EXCEPT ![r] = IF store = cur[r] THEN "rename" ELSE "release"]
        /\ UNCHANGED <<tokens, cur, got, lockPc>>
    BY <1>4 DEF ReplyOk, TakeReply, Posting, Locked, world, tokens, lock
  <2>2. Issued'
    BY <2>1, TypedNumbers DEF Issued, Numbers, tokens
  <2>3. \A q \in Request : Obtained(q)'
    BY <2>1 DEF Obtained, Locked, Typed, FlightInv, RequestTypeOK
  <2>4. QED
    BY <2>2, <2>3
<1>5. ASSUME NEW oc, Fails(r, oc)
      PROVE  BoundsInv'
  <2>1. Issued'
    BY <1>5, TypedNumbers DEF Fails, tokens, Issued, Numbers, NoToken
  <2>2. \A q \in Request : Obtained(q)'
    BY <1>5 DEF Fails, Obtained, Locked, Typed, FlightInv, RequestTypeOK
  <2>3. QED
    BY <2>1, <2>2
<1>6. CASE WriteBack(r)
  <2>1. /\ stage[r] = "rename" /\ store' \in {store, got[r]}
        /\ stage' = [stage EXCEPT ![r] = "release"]
        /\ UNCHANGED <<issued, live, cli, memory, cur, got, lockPc>>
    BY <1>6 DEF WriteBack, Rename, RenameFails, process, lock
  <2>2. Issued'
    BY <2>1 DEF Issued
  <2>3. \A q \in Request : Obtained(q)'
    BY <2>1 DEF Obtained, Locked, Typed, FlightInv, RequestTypeOK
  <2>4. QED
    BY <2>2, <2>3
<1>7. QED
  BY <1>1, <1>2, <1>3, <1>4, <1>5, <1>6, FailSteps DEF Reply

(* What the end of the refresh of r hands out: v, which is got[r] or what   *)
(* waitForAdopt came back with.                                             *)
LEMMA OverSteps ==
    ASSUME Typed, NEW r \in Request, Release(r) \/ Adopt(r)
    PROVE  /\ Leading(r)
           /\ \A q \in Request \ {r} : lockPc'[q] = lockPc[q]
           /\ \/ /\ stage[r] = "release"
                 /\ Ends(r, got[r]) /\ UNCHANGED <<memory, outcome>>
              \/ /\ Ready(Home[r]) /\ Usable(store) /\ store # cur[r]
                 /\ memory' = [memory EXCEPT ![Home[r]] = store]
                 /\ outcome' = [outcome EXCEPT ![Home[r]] = "clear"]
                 /\ stage[r] = "adopt" /\ Ends(r, store)
              \/ /\ UNCHANGED <<memory, outcome>> /\ stage[r] = "adopt"
                 /\ Ends(r, IF ~force[r] /\ Usable(cur[r]) THEN cur[r] ELSE NoToken)
<1>1. CASE Release(r)
  <2>1. Ends(r, got[r]) /\ UNCHANGED <<memory, outcome>>
    BY <1>1, SettleEnds DEF Release, world, tokens
  <2>2. \A q \in Request \ {r} : lockPc'[q] = lockPc[q]
    BY <1>1 DEF Release, L!Release, L!Goto, Typed, L!LockTypeOK
  <2>3. QED
    BY <1>1, <2>1, <2>2 DEF Release, Leading
<1>2. CASE AdoptStored(r)
  <2>1. Ends(r, store)
    BY <1>2, SettleEnds DEF AdoptStored, world, tokens
  <2>2. QED
    BY <1>2, <2>1 DEF AdoptStored, Leading, lock
<1>3. CASE AdoptGivesUp(r)
  <2>1. Ends(r, IF ~force[r] /\ Usable(cur[r]) THEN cur[r] ELSE NoToken)
    BY <1>3, SettleEnds DEF AdoptGivesUp, world, tokens
  <2>2. QED
    BY <1>3, <2>1 DEF AdoptGivesUp, Leading, lock
<1>4. QED
  BY <1>1, <1>2, <1>3 DEF Adopt

(* Whichever way a refresh ends, it puts only an issued token in memory.    *)
LEMMA BoundsOver ==
    ASSUME Typed, BoundsInv, NEW r \in Request, Release(r) \/ Adopt(r)
    PROVE  BoundsInv'
<1> USE DEF BoundsInv
<1>1. PICK v : Ends(r, v)
  BY OverSteps
<1>2. \A p \in Proc : memory'[p] \in {memory[p], store}
  BY OverSteps, TypedNumbers DEF Numbers
<1>3. Issued'
  BY <1>1, <1>2, TypedNumbers DEF Ends, tokens, Issued, Numbers, NoToken
<1>4. \A q \in Request : Obtained(q)'
  <2> SUFFICES ASSUME NEW q \in Request PROVE Obtained(q)'
    OBVIOUS
  <2>1. CASE q = r
    BY <1>1, <2>1, TypedNumbers DEF Ends, Obtained, Leading, Numbers
  <2>2. CASE q # r
    <3>1. got'[q] = got[q] /\ lockPc'[q] = lockPc[q]
      BY <1>1, <2>2, OverSteps, TypedNumbers DEF Ends, Numbers
    <3>2. stage'[q] = stage[q] \/ (~Leading(q) /\ ~Leading(q)')
      BY <1>1, <2>2 DEF Ends
    <3>3. QED
      BY <3>1, <3>2 DEF Obtained, Locked, Leading
  <2>3. QED
    BY <2>1, <2>2
<1>5. QED
  BY <1>3, <1>4

(* A process dies or starts, the CLI moves, time passes. *)
LEMMA BoundsAround ==
    ASSUME Typed, BoundsInv, (\E p \in Proc : ProcessStep(p)) \/ WorldStep \/ UNCHANGED vars
    PROVE  BoundsInv'
<1> USE DEF BoundsInv
<1>1. ASSUME NEW p \in Proc, Crash(p)
      PROVE  BoundsInv'
  <2>1. Issued'
    BY <1>1, TypedNumbers DEF Crash, Issued, Numbers, NoToken
  <2>2. \A q \in Request : Obtained(q)'
    BY <1>1 DEF Crash, L!Crash, RequestsOf, Obtained, Locked
  <2>3. QED
    BY <2>1, <2>2
<1>2. ASSUME NEW p \in Proc, Boot(p)
      PROVE  BoundsInv'
  BY <1>2, TypedNumbers DEF Boot, world, request, lock, Issued, Obtained, Locked, Numbers
<1>3. ASSUME NEW p \in Proc, CooldownEnds(p)
      PROVE  BoundsInv'
  BY <1>3 DEF CooldownEnds, world, request, lock, Issued, Obtained, Locked
<1>4. ASSUME NEW spent, CliObtains(spent)
      PROVE  BoundsInv'
  BY <1>4, TypedNumbers DEF CliObtains, process, request, lock, Issued, Obtained, Locked, Numbers
<1>5. CASE CliTears \/ CliWrites
  BY <1>5, TypedNumbers
     DEF CliTears, CliWrites, process, request, lock, Issued, Obtained, Locked, Numbers, NoToken
<1>6. CASE Closes \/ Expires
  BY <1>6 DEF Closes, Expires, process, request, lock, Issued, Obtained, Locked
<1>7. CASE LockExpires
  BY <1>7 DEF LockExpires, L!Expire, world, process, request, Issued, Obtained, Locked
<1>8. CASE UNCHANGED vars
  BY <1>8 DEF vars, world, process, request, lock, Issued, Obtained, Locked
<1>9. QED
  BY <1>1, <1>2, <1>3, <1>4, <1>5, <1>6, <1>7, <1>8 DEF ProcessStep, WorldStep

(* The bounds hold in every state. *)
LEMMA BoundsInvariant == SafetySpec => []BoundsInv
<1>1. Init => BoundsInv
  BY DEF Init, L!LockInit, BoundsInv, Issued, Obtained, NoToken
<1>2. Typed /\ BoundsInv /\ [Next]_vars => BoundsInv'
  BY BoundsOutside, BoundsRefresh, BoundsOver, BoundsAround DEF Next, RequestStep
<1>3. QED
  BY <1>1, <1>2, TypedInvariant, PTL DEF SafetySpec

----------------------------------------------------------------------------
(* A token that is served is in memory.                                     *)

(* A token on its way has its five minutes, and is younger than the one it  *)
(* was exchanged for.                                                       *)
Younger ==
    /\ \A r \in Request : Minted(r) => got[r] > closing /\ got[r] > cur[r]
    /\ cli # NoToken => cli > closing

(* Whoever runs an unforced refresh began with a token that was about to    *)
(* expire; since then neither the file nor its process's memory has gone    *)
(* back to a token that is older and yet usable.                            *)
Keeps(r) ==
    Leading(r) /\ ~force[r] =>
        /\ ~UsableForLong(cur[r])
        /\ cur[r] <= store \/ ~Usable(store)
        /\ cur[r] <= memory[Home[r]] \/ ~Usable(cur[r])

(* The result a refresh is about to hand out is no younger than what its    *)
(* process has in memory.                                                   *)
Delivers(r) == stage[r] \in {"rename", "release"} => got[r] <= memory[Home[r]]

ServedInv == Younger /\ \A r \in Request : Keeps(r) /\ Delivers(r)

(* A memory that is given the stored token, when that is usable or the one  *)
(* it had is not, still suits the refresh its process runs.                 *)
LEMMA KeepsMemory ==
    ASSUME Numbers, NEW q \in Request, Keeps(q), NEW m \in Nat,
           m = memory[Home[q]] \/ (m = store /\ (Usable(store) \/ ~Usable(memory[Home[q]])))
    PROVE  Leading(q) /\ ~force[q] => cur[q] <= m \/ ~Usable(cur[q])
<1>1. cur[q] \in Nat /\ memory[Home[q]] \in Nat
  BY HomeAssumption DEF Numbers
<1>2. QED
  BY <1>1 DEF Keeps, Usable, Numbers

(* Asking for a token, and taking the file's after a 401 or a 429. *)
LEMMA ServedAsk ==
    ASSUME Typed, BoundsInv, ServedInv, NEW r \in Request,
           Ensure(r) \/ Poll(r) \/ Recover(r) \/ Reload(r)
    PROVE  ServedInv'
<1> DEFINE m == memory'[Home[r]]
<1> USE DEF ServedInv
<1>n. Numbers /\ Home[r] \in Proc
  BY TypedNumbers, HomeAssumption
<1>1. /\ UNCHANGED <<tokens, got>> /\ Ready(Home[r])
      /\ memory' = [memory EXCEPT ![Home[r]] = m]
      /\ m \in Nat
      /\ m = memory[Home[r]] \/ (m = store /\ (Usable(store) \/ ~Usable(memory[Home[r]])))
      /\ ~Leading(r)
      /\ \A q \in Request \ {r} :
            stage'[q] = stage[q] /\ force'[q] = force[q] /\ cur'[q] = cur[q]
  <2>1. CASE Reload(r)
    BY <1>n, <2>1 DEF Reload, world, tokens, Numbers, Leading
  <2>2. CASE Ensure(r) \/ Poll(r) \/ Recover(r)
    <3>1. PICK f \in BOOLEAN : ~Leading(r) /\ Asks(r, f)
      BY <2>2, AskSteps
    <3>2. m = Reread(Home[r]) /\ memory' = [memory EXCEPT ![Home[r]] = m]
      BY <1>n, <3>1 DEF Asks, Numbers
    <3>3. Reread(Home[r]) \in Nat /\ memory[Home[r]] # NoToken
      BY <1>n, <3>1 DEF Asks, Ready, Reread, Numbers
    <3>4. Reread(Home[r]) \in {memory[Home[r]], store} /\
          (Reread(Home[r]) = memory[Home[r]] \/ Usable(store) \/ ~Usable(memory[Home[r]]))
      BY <3>3 DEF Reread
    <3>5. QED
      BY <3>1, <3>2, <3>3, <3>4 DEF Asks
  <2>3. QED
    BY <2>1, <2>2
<1>2. got[r] = NoToken
  BY <1>1 DEF BoundsInv, Obtained, Leading
<1>3. Younger'
  BY <1>1, <1>2 DEF Younger, Minted, tokens
<1>4. ASSUME NEW q \in Request \ {r} PROVE Keeps(q)' /\ Delivers(q)'
  <2>1. \/ memory'[Home[q]] = memory[Home[q]]
        \/ Home[q] = Home[r] /\ memory'[Home[q]] = m
    BY <1>n, <1>1, HomeAssumption DEF Numbers
  <2>2. Keeps(q)'
    <3>1. Leading(q) /\ ~force[q] => cur[q] <= memory'[Home[q]] \/ ~Usable(cur[q])
      BY <1>n, <1>1, <2>1, KeepsMemory DEF Keeps
    <3>2. QED
      BY <1>1, <3>1 DEF Keeps, Leading, tokens, Usable, UsableForLong
  <2>3. Delivers(q)'
    BY <1>1, <2>1 DEF Delivers, Ready, Busy, RequestsOf
  <2>4. QED
    BY <2>2, <2>3
<1>5. Keeps(r)' /\ Delivers(r)'
  <2>1. CASE Reload(r)
    BY <2>1 DEF Reload, Keeps, Delivers, Leading
  <2>2. CASE Ensure(r) \/ Poll(r) \/ Recover(r)
    <3>1. PICK f \in BOOLEAN : Asks(r, f)
      BY <2>2, AskSteps
    <3>2. CASE ~Leading(r)'
      BY <3>2 DEF Keeps, Delivers, Leading
    <3>3. CASE stage'[r] = "refresh" /\ force'[r] = f /\ cur'[r] = Reread(Home[r])
               /\ (f \/ ~UsableForLong(Reread(Home[r])))
      <4>1. m = Reread(Home[r])
        BY <1>n, <3>1 DEF Asks, Numbers
      <4>2. m <= store \/ ~Usable(store)
        BY <1>n, <4>1 DEF Reread, Ready, Usable, NoToken, Numbers
      <4>3. QED
        BY <1>1, <3>3, <4>1, <4>2 DEF Keeps, Delivers, tokens, Usable, UsableForLong
    <3>4. QED
      BY <3>1, <3>2, <3>3 DEF Asks
  <2>3. QED
    BY <2>1, <2>2
<1>6. QED
  BY <1>3, <1>4, <1>5

(* A step that moves no token keeps what is said of the tokens. *)
LEMMA ServedQuiet ==
    ASSUME Typed, BoundsInv, ServedInv, Quiet
    PROVE  ServedInv'
<1>1. ASSUME NEW q \in Request, Minted(q)'
      PROVE  Minted(q) \/ got[q] = NoToken
  BY <1>1 DEF Quiet, Minted, Leading
<1>2. Younger'
  BY <1>1 DEF ServedInv, Quiet, tokens, Younger, Minted
<1>3. ASSUME NEW q \in Request PROVE Keeps(q)' /\ Delivers(q)'
  BY DEF ServedInv, Quiet, tokens, Keeps, Delivers, Leading, Usable, UsableForLong
<1>4. QED
  BY <1>2, <1>3 DEF ServedInv

(* No other request of the process runs a refresh beside r. *)
LEMMA LeadsAlone ==
    ASSUME Typed, NEW r \in Request, NEW q \in Request, Leading(r), Leading(q), q # r
    PROVE  Home[q] # Home[r]
BY DEF Typed, FlightInv, LeaderInFlight

(* The exchange, the answer and the write-back. *)
LEMMA ServedRefresh ==
    ASSUME Typed, BoundsInv, ServedInv, NEW r \in Request,
           LockStep(r) \/ AwaitHolder(r) \/ Mint(r) \/ Reply(r) \/ WriteBack(r)
    PROVE  ServedInv'
<1> USE DEF ServedInv
<1>n. Numbers /\ Home[r] \in Proc
  BY TypedNumbers, HomeAssumption
<1>1. CASE LockStep(r)
  BY <1>1, QuietSteps, ServedQuiet
<1>2. CASE AwaitHolder(r)
  <2>1. /\ stage[r] = "refresh" /\ stage' = [stage EXCEPT ![r] = "adopt"]
        /\ UNCHANGED <<tokens, memory, force, cur, got>>
    BY <1>2 DEF AwaitHolder, world, tokens, process
  <2>2. Younger'
    BY <2>1 DEF Younger, Minted, tokens, Typed, FlightInv, RequestTypeOK
  <2>3. ASSUME NEW q \in Request PROVE Keeps(q)' /\ Delivers(q)'
    BY <2>1 DEF Keeps, Delivers, Leading, tokens, Usable, UsableForLong,
                Typed, FlightInv, RequestTypeOK
  <2>4. QED
    BY <2>2, <2>3
<1>3. CASE Mint(r)
  <2>1. /\ issued' = issued + 1
        /\ got' = [got EXCEPT ![r] = issued + 1]
        /\ UNCHANGED <<store, closing, expired, cli, memory, stage, force, cur>>
        /\ stage[r] = "refresh"
    BY <1>3 DEF Mint, Posting, process
  <2>2. issued + 1 > closing /\ issued + 1 > cur[r]
    BY <1>n DEF BoundsInv, Issued, Numbers
  <2>3. Younger'
    BY <1>n, <2>1, <2>2 DEF Younger, Minted, Numbers
  <2>4. ASSUME NEW q \in Request PROVE Keeps(q)' /\ Delivers(q)'
    BY <1>n, <2>1 DEF Keeps, Delivers, Leading, Usable, UsableForLong, Numbers
  <2>5. QED
    BY <2>3, <2>4
<1>4. CASE ReplyOk(r)
  <2>1. /\ stage[r] = "refresh" /\ got[r] # NoToken
        /\ memory' = [memory EXCEPT ![Home[r]] = got[r]]
        /\ stage' = [stage EXCEPT ![r] = IF store = cur[r] THEN "rename" ELSE "release"]
        /\ UNCHANGED <<tokens, force, cur, got>>
    BY <1>4 DEF ReplyOk, TakeReply, Posting, world, tokens
  <2>2. Leading(r) /\ Minted(r)
    BY <2>1 DEF Leading, Minted
  <2>3. Younger'
    BY <2>1, <2>2 DEF Younger, Minted, tokens, Typed, FlightInv, RequestTypeOK
  <2>4. Keeps(r)' /\ Delivers(r)'
    BY <1>n, <2>1, <2>2
       DEF Younger, Keeps, Delivers, Leading, tokens, Usable, UsableForLong, Numbers
  <2>5. ASSUME NEW q \in Request \ {r} PROVE Keeps(q)' /\ Delivers(q)'
    <3>1. stage'[q] = stage[q]
      BY <2>1
    <3>2. Leading(q) => memory'[Home[q]] = memory[Home[q]]
      BY <1>n, <2>1, <2>2, LeadsAlone, HomeAssumption DEF Numbers
    <3>3. QED
      BY <2>1, <3>1, <3>2 DEF Keeps, Delivers, Leading, tokens, Usable, UsableForLong
  <2>6. QED
    BY <2>3, <2>4, <2>5
<1>5. ASSUME NEW oc, Fails(r, oc)
      PROVE  ServedInv'
  <2>1. /\ stage[r] = "refresh" /\ stage' = [stage EXCEPT ![r] = "release"]
        /\ UNCHANGED <<tokens, force, cur>>
        /\ \A q \in Request \ {r} : got'[q] = got[q]
    BY <1>5, <1>n DEF Fails, Numbers
  <2>2. Leading(r)
    BY <2>1 DEF Leading
  <2>3. Younger'
    BY <2>1 DEF Younger, Minted, tokens, Typed, FlightInv, RequestTypeOK
  <2>4. Keeps(r)' /\ Delivers(r)'
    <3>1. CASE /\ Usable(store) /\ store # cur[r]
               /\ memory' = [memory EXCEPT ![Home[r]] = store]
               /\ got' = [got EXCEPT ![r] = store]
      BY <1>n, <2>1, <2>2, <3>1
         DEF Keeps, Delivers, Leading, tokens, Usable, UsableForLong, Numbers
    <3>2. CASE /\ UNCHANGED memory
               /\ got' = [got EXCEPT ![r] =
                            IF ~force[r] /\ Usable(cur[r]) THEN cur[r] ELSE NoToken]
      BY <1>n, <2>1, <2>2, <3>2
         DEF Keeps, Delivers, Leading, tokens, Usable, UsableForLong, Numbers, NoToken
    <3>3. QED
      BY <1>5, <3>1, <3>2 DEF Fails
  <2>5. ASSUME NEW q \in Request \ {r} PROVE Keeps(q)' /\ Delivers(q)'
    <3>1. stage'[q] = stage[q]
      BY <2>1
    <3>2. Leading(q) => memory'[Home[q]] = memory[Home[q]]
      BY <1>5, <1>n, <2>2, LeadsAlone, HomeAssumption DEF Fails, Numbers
    <3>3. QED
      BY <2>1, <3>1, <3>2 DEF Keeps, Delivers, Leading, tokens, Usable, UsableForLong
  <2>6. QED
    BY <2>3, <2>4, <2>5
<1>6. CASE WriteBack(r)
  <2>1. /\ stage[r] = "rename" /\ store' \in {store, got[r]}
        /\ stage' = [stage EXCEPT ![r] = "release"]
        /\ UNCHANGED <<closing, expired, cli, memory, force, cur, got>>
    BY <1>6 DEF WriteBack, Rename, RenameFails, process
  <2>2. got[r] > closing
    BY <2>1 DEF Younger, Minted, BoundsInv, Obtained
  <2>3. Younger'
    BY <2>1 DEF Younger, Minted, Typed, FlightInv, RequestTypeOK
  <2>4. ASSUME NEW q \in Request PROVE Keeps(q)' /\ Delivers(q)'
    BY <1>n, <2>1, <2>2
       DEF Keeps, Delivers, Leading, Usable, UsableForLong, Numbers, Typed, FlightInv,
           RequestTypeOK
  <2>5. QED
    BY <2>3, <2>4
<1>7. QED
  BY <1>1, <1>2, <1>3, <1>4, <1>5, <1>6, FailSteps DEF Reply

(* The end of a refresh, whatever it ends with. *)
LEMMA ServedOver ==
    ASSUME Typed, BoundsInv, ServedInv, NEW r \in Request, Release(r) \/ Adopt(r)
    PROVE  ServedInv'
<1> USE DEF ServedInv
<1>n. Numbers /\ Home[r] \in Proc
  BY TypedNumbers, HomeAssumption
<1>1. Leading(r)
  BY OverSteps
<1>2. PICK v : Ends(r, v)
  BY OverSteps
<1>3. Younger'
  BY <1>n, <1>2 DEF Ends, Younger, Minted, Leading, tokens, Numbers
<1>4. Keeps(r)' /\ Delivers(r)'
  BY <1>2 DEF Ends, Keeps, Delivers, Leading
<1>5. ASSUME NEW q \in Request \ {r} PROVE Keeps(q)' /\ Delivers(q)'
  <2>1. CASE ~Leading(q)'
    BY <2>1 DEF Keeps, Delivers, Leading
  <2>2. CASE Leading(q)'
    <3>1. Leading(q) /\ stage'[q] = stage[q] /\ force'[q] = force[q]
      BY <1>2, <2>2 DEF Ends, Leading
    <3>2. memory'[Home[q]] = memory[Home[q]]
      BY <1>n, <1>1, <3>1, OverSteps, LeadsAlone, HomeAssumption DEF Numbers
    <3>3. cur'[q] = cur[q] /\ got'[q] = got[q]
      BY <1>n, <1>2 DEF Ends, Numbers
    <3>4. UNCHANGED tokens
      BY <1>2 DEF Ends
    <3>5. QED
      BY <3>1, <3>2, <3>3, <3>4 DEF Keeps, Delivers, Leading, tokens, Usable, UsableForLong
  <2>3. QED
    BY <2>1, <2>2
<1>6. QED
  BY <1>3, <1>4, <1>5

(* A process dies or starts, the CLI moves, time passes. *)
LEMMA ServedAround ==
    ASSUME Typed, BoundsInv, ServedInv,
           (\E p \in Proc : ProcessStep(p)) \/ WorldStep \/ UNCHANGED vars
    PROVE  ServedInv'
<1> USE DEF ServedInv
<1>n. Numbers
  BY TypedNumbers
<1>1. ASSUME NEW p \in Proc, Crash(p)
      PROVE  ServedInv'
  <2>1. Younger'
    BY <1>1 DEF Crash, Younger, Minted
  <2>2. ASSUME NEW q \in Request PROVE Keeps(q)' /\ Delivers(q)'
    BY <1>1, <1>n, HomeAssumption
       DEF Crash, Keeps, Delivers, Leading, Usable, UsableForLong, Numbers
  <2>3. QED
    BY <2>1, <2>2
<1>2. ASSUME NEW p \in Proc, Boot(p)
      PROVE  ServedInv'
  <2>1. UNCHANGED <<tokens, stage, force, cur, got>>
    BY <1>2 DEF Boot, world, tokens, request
  <2>2. Younger'
    BY <2>1 DEF Younger, Minted, tokens
  <2>3. \A q \in Request : memory[Home[q]] <= memory'[Home[q]]
    BY <1>2, <1>n, HomeAssumption DEF Boot, Numbers, NoToken
  <2>4. ASSUME NEW q \in Request PROVE Keeps(q)' /\ Delivers(q)'
    <3>1. cur[q] \in Nat /\ got[q] \in Nat /\ memory[Home[q]] \in Nat /\ memory'[Home[q]] \in Nat
      BY <1>2, <1>n, HomeAssumption DEF Boot, Numbers
    <3>2. QED
      BY <2>1, <2>3, <3>1 DEF Keeps, Delivers, Leading, tokens, Usable, UsableForLong
  <2>5. QED
    BY <2>2, <2>4
<1>3. ASSUME NEW p \in Proc, CooldownEnds(p)
      PROVE  ServedInv'
  BY <1>3, QuietSteps, ServedQuiet
<1>4. ASSUME NEW spent, CliObtains(spent)
      PROVE  ServedInv'
  <2>1. UNCHANGED <<store, closing, expired, memory, stage, force, cur, got>> /\ cli' > closing
    BY <1>4, <1>n DEF CliObtains, process, request, Numbers
  <2>2. QED
    BY <2>1 DEF Younger, Minted, Keeps, Delivers, Leading, Usable, UsableForLong
<1>5. CASE CliTears \/ CliWrites
  <2>1. /\ UNCHANGED <<closing, expired, memory, stage, force, cur, got>>
        /\ store' > closing \/ store' = NoToken
        /\ cli' \in {cli, NoToken}
    BY <1>5 DEF CliTears, CliWrites, process, request, Younger
  <2>2. Younger'
    BY <2>1 DEF Younger, Minted
  <2>3. store' \in Nat
    BY <1>5, <1>n DEF CliTears, CliWrites, Numbers, NoToken
  <2>4. ASSUME NEW q \in Request PROVE Keeps(q)' /\ Delivers(q)'
    BY <1>n, <2>1, <2>3
       DEF Keeps, Delivers, Leading, Usable, UsableForLong, Numbers, NoToken
  <2>5. QED
    BY <2>2, <2>4
<1>6. CASE Closes \/ Expires
  <2>1. /\ UNCHANGED <<store, cli, memory, stage, force, cur, got>>
        /\ closing' \in Nat /\ closing <= closing' /\ expired' \in Nat /\ expired <= expired'
    BY <1>6, <1>n DEF Closes, Expires, process, request, Numbers
  <2>2. Younger'
    <3>1. CASE closing' = closing
      BY <2>1, <3>1 DEF Younger, Minted
    <3>2. CASE closing' = closing + 1 /\ Unhurried(closing + 1)
      BY <1>n, <2>1, <3>2 DEF Younger, Minted, Unhurried, Leading, Numbers
    <3>3. QED
      BY <1>6, <3>1, <3>2 DEF Closes, Expires
  <2>3. ASSUME NEW q \in Request PROVE Keeps(q)' /\ Delivers(q)'
    BY <1>n, <2>1 DEF Keeps, Delivers, Leading, Usable, UsableForLong, Numbers
  <2>4. QED
    BY <2>2, <2>3
<1>7. CASE LockExpires \/ UNCHANGED vars
  BY <1>7, QuietSteps, ServedQuiet
<1>8. QED
  BY <1>1, <1>2, <1>3, <1>4, <1>5, <1>6, <1>7 DEF ProcessStep, WorldStep

(* ServedInv is an invariant of the credential system. *)
LEMMA ServedInvariant == SafetySpec => []ServedInv
<1>1. Init => ServedInv
  BY DEF Init, ServedInv, Younger, Minted, Keeps, Delivers, Leading, NoToken
<1>2. ASSUME Typed, BoundsInv, ServedInv, NEW r \in Request,
             WaitEnds(r) \/ Capture(r) \/ Finish(r)
      PROVE  ServedInv'
  BY <1>2, QuietSteps, ServedQuiet
<1>3. Typed /\ BoundsInv /\ ServedInv /\ [Next]_vars => ServedInv'
  BY <1>2, ServedAsk, ServedRefresh, ServedOver, ServedAround DEF Next, RequestStep
<1>4. QED
  BY <1>1, <1>3, TypedInvariant, BoundsInvariant, PTL DEF SafetySpec

----------------------------------------------------------------------------
(* What a step may never do. *)

(* A request comes to run a refresh only by asking for a token, and comes   *)
(* to be served only by asking or by the end of a refresh.                  *)
LEMMA StageSteps ==
    ASSUME Typed, Next, NEW q \in Request, stage'[q] # stage[q],
           stage'[q] \in {"refresh", "served"}
    PROVE  \/ \E f \in BOOLEAN : Asks(q, f)
           \/ /\ stage'[q] = "served"
              /\ \E r \in Request : Release(r) \/ Adopt(r)
<1>t. stage \in [Request -> Stage]
  BY DEF Typed, FlightInv, RequestTypeOK
<1>1. ASSUME NEW r \in Request, Ensure(r) \/ Poll(r) \/ Recover(r)
      PROVE  \E f \in BOOLEAN : Asks(q, f)
  <2>1. PICK f \in BOOLEAN : Asks(r, f)
    BY <1>1, AskSteps
  <2>2. q = r
    BY <2>1 DEF Asks
  <2>3. QED
    BY <2>1, <2>2
<1>2. ASSUME NEW r \in Request,
             WaitEnds(r) \/ Capture(r) \/ Reload(r) \/ Finish(r) \/ LockStep(r) \/ AwaitHolder(r)
      PROVE  FALSE
  BY <1>2, <1>t DEF WaitEnds, Capture, Reload, Finish, LockStep, AwaitHolder, request
<1>3. ASSUME NEW r \in Request, Mint(r) \/ ReplyOk(r) \/ WriteBack(r)
      PROVE  FALSE
  BY <1>3, <1>t DEF Mint, ReplyOk, TakeReply, WriteBack, Rename, RenameFails
<1>4. ASSUME NEW r \in Request, ReplyTerminal(r) \/ ReplyTransient(r) \/ ReplyLost(r)
      PROVE  FALSE
  BY <1>4, <1>t, FailSteps DEF Fails
<1>5. ASSUME NEW r \in Request, Release(r) \/ Adopt(r)
      PROVE  stage'[q] = "served"
  <2>1. PICK v : Ends(r, v)
    BY <1>5, OverSteps
  <2>2. QED
    BY <2>1 DEF Ends, Leading
<1>6. ASSUME NEW p \in Proc, ProcessStep(p)
      PROVE  FALSE
  BY <1>6, ZenonT(60) DEF ProcessStep, Crash, Boot, CooldownEnds, request
<1>7. CASE WorldStep
  BY <1>7 DEF WorldStep, CliObtains, CliTears, CliWrites, Closes, Expires, LockExpires, request
<1>8. QED
  BY <1>1, <1>2, <1>3, <1>4, <1>5, <1>6, <1>7 DEF Next, RequestStep, Reply

(* A refresh that is not over.                                              *)
Pending(r) == stage[r] \in {"refresh", "rename", "adopt"}

(* Without a new cooldown, nothing but a new refresh can meet one.          *)
LEMMA NoNewCooldown ==
    ASSUME CooldownRespected,
           \A q \in Request : Pending(q)' => Pending(q) /\ outcome'[Home[q]] \in {outcome[Home[q]], "clear", "transient"}
    PROVE  CooldownRespected'
BY DEF CooldownRespected, Pending

LEMMA CooldownStays ==
    ASSUME Typed, CooldownRespected, Next
    PROVE  CooldownRespected'
<1>t. /\ stage \in [Request -> Stage] /\ outcome \in [Proc -> Outcome]
      /\ \A r \in Request : Home[r] \in Proc
  BY HomeAssumption DEF Typed, FlightInv, RequestTypeOK, ProcessTypeOK
<1>1. ASSUME NEW r \in Request, Ensure(r) \/ Poll(r) \/ Recover(r)
      PROVE  CooldownRespected'
  <2>1. PICK f \in BOOLEAN : Asks(r, f)
    BY <1>1, AskSteps
  <2>2. outcome' = outcome /\ \A q \in Request \ {r} : stage'[q] = stage[q]
    BY <2>1 DEF Asks
  <2>3. Pending(r)' => outcome[Home[r]] # "cooling"
    BY <2>1 DEF Asks, Leading, Pending
  <2>4. QED
    BY <2>2, <2>3 DEF CooldownRespected, Pending
<1>2. ASSUME NEW r \in Request,
             WaitEnds(r) \/ Capture(r) \/ Reload(r) \/ Finish(r) \/ LockStep(r) \/ Mint(r)
      PROVE  CooldownRespected'
  <2>1. outcome' = outcome /\ \A q \in Request : Pending(q)' => Pending(q)
    BY <1>2, <1>t DEF WaitEnds, Capture, Reload, Finish, LockStep, Mint, Pending, process, request
  <2>2. QED
    BY <2>1, NoNewCooldown
<1>3. ASSUME NEW r \in Request, AwaitHolder(r) \/ WriteBack(r)
      PROVE  CooldownRespected'
  <2>1. outcome' = outcome /\ \A q \in Request : Pending(q)' => Pending(q)
    BY <1>3, <1>t DEF AwaitHolder, WriteBack, Rename, RenameFails, Pending, process
  <2>2. QED
    BY <2>1, NoNewCooldown
<1>4. ASSUME NEW r \in Request, ReplyOk(r)
      PROVE  CooldownRespected'
  <2>1. /\ outcome' = [outcome EXCEPT ![Home[r]] = "clear"]
        /\ \A q \in Request : Pending(q)' => Pending(q)
    BY <1>4, <1>t DEF ReplyOk, TakeReply, Posting, Pending
  <2>2. QED
    BY <1>t, <2>1, NoNewCooldown
<1>5. ASSUME NEW r \in Request, ReplyTerminal(r) \/ ReplyTransient(r) \/ ReplyLost(r)
      PROVE  CooldownRespected'
  <2>1. PICK oc : Fails(r, oc)
    BY <1>5, FailSteps
  <2>2. /\ Leading(r) /\ stage' = [stage EXCEPT ![r] = "release"]
        /\ \A p \in Proc \ {Home[r]} : outcome'[p] = outcome[p]
    BY <1>t, <2>1 DEF Fails, Leading
  <2>3. ASSUME NEW q \in Request, Pending(q)'
        PROVE  Pending(q) /\ outcome'[Home[q]] = outcome[Home[q]]
    <3>1. q # r /\ Pending(q) /\ Leading(q)
      BY <1>t, <2>2, <2>3 DEF Pending, Leading
    <3>2. Home[q] # Home[r]
      BY <2>2, <3>1, LeadsAlone
    <3>3. QED
      BY <1>t, <2>2, <3>1, <3>2
  <2>4. QED
    BY <2>3, NoNewCooldown
<1>6. ASSUME NEW r \in Request, Release(r) \/ Adopt(r)
      PROVE  CooldownRespected'
  <2>1. /\ \A q \in Request : outcome'[Home[q]] \in {outcome[Home[q]], "clear"}
        /\ \E v : Ends(r, v)
    BY <1>6, <1>t, OverSteps
  <2>2. \A q \in Request : Pending(q)' => Pending(q)
    BY <2>1 DEF Ends, Leading, Pending
  <2>3. QED
    BY <2>1, <2>2, NoNewCooldown
<1>7. ASSUME NEW p \in Proc, ProcessStep(p)
      PROVE  CooldownRespected'
  <2>1. /\ \A x \in Proc : outcome'[x] \in {outcome[x], "clear", "transient"}
        /\ \A q \in Request : Pending(q)' => Pending(q)
    BY <1>7, <1>t DEF ProcessStep, Crash, Boot, CooldownEnds, Pending, request
  <2>2. QED
    BY <1>t, <2>1, NoNewCooldown
<1>8. CASE WorldStep
  <2>1. outcome' = outcome /\ stage' = stage
    BY <1>8 DEF WorldStep, CliObtains, CliTears, CliWrites, Closes, Expires, LockExpires,
                process, request
  <2>2. QED
    BY <2>1 DEF CooldownRespected
<1>9. QED
  BY <1>1, <1>2, <1>3, <1>4, <1>5, <1>6, <1>7, <1>8 DEF Next, RequestStep, Reply

(* No refresh is under way in a cooldown of its process: refreshIfNeeded    *)
(* looks at the cooldown whether or not it is forced, and the only refresh  *)
(* a process runs is the one whose failure begins its next cooldown.        *)
THEOREM CooldownAlwaysRespected == SafetySpec => []CooldownRespected
<1>1. Init => CooldownRespected
  BY DEF Init, CooldownRespected
<1>2. Typed /\ CooldownRespected /\ [Next]_vars => CooldownRespected'
  <2>1. ASSUME CooldownRespected, UNCHANGED vars
        PROVE  CooldownRespected'
    BY <2>1 DEF CooldownRespected, vars, process, request
  <2>2. QED
    BY <2>1, CooldownStays
<1>3. QED
  BY <1>1, <1>2, TypedInvariant, PTL DEF SafetySpec

(* The token ensureValidToken checked need not be the one its caller sends, *)
(* but when the one is usable so is the other.                              *)
THEOREM ServedTokenAlwaysWorks == SafetySpec => ServedTokenWorks
<1>1. Typed /\ BoundsInv /\ ServedInv /\ [Next]_vars =>
         [\A r \in Request : stage[r] # "served" /\ stage'[r] = "served"
             => memory'[Home[r]] > expired']_vars
  <2> SUFFICES ASSUME Typed, BoundsInv, ServedInv, Next, NEW q \in Request,
                      stage[q] # "served", stage'[q] = "served"
               PROVE  memory'[Home[q]] > expired'
    OBVIOUS
  <2>n. Numbers /\ Home[q] \in Proc
    BY TypedNumbers, HomeAssumption
  <2>1. ASSUME NEW f \in BOOLEAN, Asks(q, f)
        PROVE  memory'[Home[q]] > expired'
    BY <2>n, <2>1 DEF Asks, tokens, Usable, Numbers
  <2>2. ASSUME NEW r \in Request, Release(r) \/ Adopt(r)
        PROVE  memory'[Home[q]] > expired'
    <3>1. Leading(r) /\ Home[r] \in Proc
      BY <2>2, OverSteps, HomeAssumption
    <3>2. PICK v \in Nat : Ends(r, v) /\ (v <= memory'[Home[r]] \/ ~Usable(v))
      <4>1. CASE stage[r] = "release" /\ Ends(r, got[r]) /\ UNCHANGED memory
        BY <2>n, <4>1 DEF ServedInv, Delivers, Numbers
      <4>2. CASE memory' = [memory EXCEPT ![Home[r]] = store] /\ Ends(r, store)
        BY <2>n, <3>1, <4>2 DEF Numbers
      <4>3. CASE /\ UNCHANGED memory
                 /\ Ends(r, IF ~force[r] /\ Usable(cur[r]) THEN cur[r] ELSE NoToken)
        <5>1. CASE ~force[r] /\ Usable(cur[r])
          BY <2>n, <3>1, <4>3, <5>1 DEF ServedInv, Keeps, Numbers
        <5>2. CASE ~(~force[r] /\ Usable(cur[r]))
          <6>1. Ends(r, NoToken) /\ NoToken \in Nat /\ ~Usable(NoToken)
            BY <2>n, <4>3, <5>2 DEF NoToken, Usable, Numbers
          <6>2. QED
            BY <6>1
        <5>3. QED
          BY <5>1, <5>2
      <4>4. QED
        BY <2>2, <4>1, <4>2, <4>3, OverSteps
    <3>3. Home[q] = Home[r] /\ Usable(v)
      BY <3>2 DEF Ends
    <3>4. memory'[Home[r]] \in Nat
      BY <2>2, <2>n, <3>1, OverSteps DEF Numbers
    <3>5. expired' = expired
      BY <3>2 DEF Ends, tokens
    <3>6. QED
      BY <2>n, <3>2, <3>3, <3>4, <3>5 DEF Usable, Numbers
  <2>3. QED
    BY <2>1, <2>2, StageSteps
<1>2. QED
  BY <1>1, TypedInvariant, BoundsInvariant, ServedInvariant, PTL
     DEF SafetySpec, ServedTokenWorks

(* A usable token leaves a process's memory for a usable one only, or in a  *)
(* crash: whoever re-reads, reloads, adopts or keeps has looked at the      *)
(* expiry of what it puts there.                                            *)
THEOREM MemoryAlwaysKeepsWorking == SafetySpec => MemoryKeepsWorking
<1>1. Typed /\ [Next]_vars =>
         [\A p \in Proc :
             Usable(memory[p]) /\ memory'[p] \notin {memory[p], NoToken}
                => memory'[p] > expired']_vars
  <2> SUFFICES ASSUME Typed, Next, NEW p \in Proc,
                      Usable(memory[p]), memory'[p] \notin {memory[p], NoToken}
               PROVE  memory'[p] > expired'
    OBVIOUS
  <2>n. Numbers
    BY TypedNumbers
  <2>1. ASSUME NEW r \in Request, RequestStep(r)
        PROVE  memory'[p] > expired'
    <3>1. CASE Ensure(r) \/ Poll(r) \/ Recover(r)
      <4>1. PICK f \in BOOLEAN : Asks(r, f)
        BY <3>1, AskSteps
      <4>2. p = Home[r] /\ memory'[p] = Reread(p)
        BY <2>n, <4>1, HomeAssumption DEF Asks, Numbers
      <4>3. memory[p] # NoToken
        BY <4>1, <4>2 DEF Asks, Ready
      <4>4. Usable(Reread(p))
        BY <4>3 DEF Reread
      <4>5. QED
        BY <4>1, <4>2, <4>4 DEF Asks, tokens, Usable
    <3>2. CASE Reload(r)
      BY <2>n, <3>2 DEF Reload, world, Usable, Numbers
    <3>3. CASE WaitEnds(r) \/ Capture(r) \/ Finish(r) \/ LockStep(r)
      BY <3>3, QuietSteps DEF Quiet
    <3>4. CASE AwaitHolder(r) \/ Mint(r) \/ WriteBack(r)
      BY <3>4 DEF AwaitHolder, Mint, WriteBack, Rename, RenameFails, process
    <3>5. CASE ReplyOk(r)
      BY <2>n, <3>5 DEF ReplyOk, TakeReply, world, Usable, Numbers
    <3>6. ASSUME NEW oc, Fails(r, oc)
          PROVE  memory'[p] > expired'
      BY <2>n, <3>6 DEF Fails, tokens, Usable, Numbers
    <3>7. CASE Release(r) \/ Adopt(r)
      <4>1. PICK v : Ends(r, v)
        BY <3>7, OverSteps
      <4>2. Usable(store) /\ memory'[p] = store
        BY <2>n, <3>7, OverSteps DEF Numbers
      <4>3. QED
        BY <4>1, <4>2 DEF Ends, tokens, Usable
    <3>8. QED
      BY <2>1, <3>1, <3>2, <3>3, <3>4, <3>5, <3>6, <3>7, FailSteps DEF RequestStep, Reply
  <2>2. ASSUME NEW q \in Proc, ProcessStep(q)
        PROVE  memory'[p] > expired'
    <3>1. memory[p] # NoToken
      BY <2>n DEF Usable, NoToken, Numbers
    <3>2. memory'[p] \in {memory[p], NoToken}
      BY <2>n, <2>2, <3>1 DEF ProcessStep, Crash, Boot, CooldownEnds, Numbers
    <3>3. QED
      BY <3>2
  <2>3. CASE WorldStep
    BY <2>3 DEF WorldStep, CliObtains, CliTears, CliWrites, Closes, Expires, LockExpires, process
  <2>4. QED
    BY <2>1, <2>2, <2>3 DEF Next
<1>2. QED
  BY <1>1, TypedInvariant, PTL DEF SafetySpec, MemoryKeepsWorking

----------------------------------------------------------------------------
(* Rotation never loses the grant.                                          *)

(* A token on its way is live, is nowhere else, except in the memory of the *)
(* process that is about to write it, and nobody else is bringing it.       *)
MintedFresh(r) ==
    Minted(r) =>
        /\ got[r] \in live /\ parent[got[r]] = cur[r]
        /\ got[r] \notin {store, cli}
        /\ \A p \in Proc : memory[p] = got[r] => p = Home[r] /\ stage[r] = "rename"
        /\ \A q \in Request : cur[q] # got[r]
        /\ \A q \in Request : Minted(q) /\ got[q] = got[r] => q = r

(* So is the one the CLI has and has not written. *)
CliFresh ==
    cli # NoToken =>
        /\ cli \in live /\ cli # store
        /\ \A p \in Proc : memory[p] # cli
        /\ \A q \in Request : cur[q] # cli

FreshInv == CliFresh /\ \A r \in Request : MintedFresh(r)

(* A step that moves no token, and one that puts the file's token in a      *)
(* memory, or the file's or the memory's in the hands of a new leader.      *)
LEMMA FreshSpread ==
    ASSUME Typed, BoundsInv, FreshInv,
           UNCHANGED <<tokens, got>>,
           \A p \in Proc : memory'[p] \in {memory[p], store},
           \A q \in Request :
              \/ cur'[q] \in {cur[q], NoToken, store}
              \/ Ready(Home[q]) /\ cur'[q] = memory[Home[q]],
           \A q \in Request : Minted(q)' => Minted(q) /\ stage'[q] = stage[q] /\ cur'[q] = cur[q]
    PROVE  FreshInv'
<1>n. Numbers
  BY TypedNumbers
<1>1. CliFresh'
  BY HomeAssumption DEF FreshInv, CliFresh, tokens
<1>2. ASSUME NEW q \in Request, Minted(q)'
      PROVE  MintedFresh(q)'
  <2>1. Minted(q) /\ MintedFresh(q) /\ stage'[q] = stage[q] /\ cur'[q] = cur[q] /\ got'[q] = got[q]
    BY <1>2 DEF FreshInv
  <2>2. \A p \in Proc : memory'[p] = got[q] => p = Home[q] /\ stage[q] = "rename"
    BY <2>1 DEF MintedFresh
  <2>3. \A s \in Request : cur'[s] # got[q]
    <3> SUFFICES ASSUME NEW s \in Request, cur'[s] = got[q] PROVE FALSE
      OBVIOUS
    <3>1. cur'[s] \notin {cur[s], NoToken, store}
      BY <2>1 DEF MintedFresh, Minted
    <3>2. Home[s] = Home[q] /\ stage[q] = "rename" /\ Ready(Home[s])
      BY <2>1, <3>1, HomeAssumption DEF MintedFresh
    <3>3. QED
      BY <3>2 DEF Ready, Busy, RequestsOf
  <2>4. QED
    BY <2>1, <2>2, <2>3 DEF MintedFresh, Minted, tokens
<1>3. QED
  BY <1>1, <1>2 DEF FreshInv, MintedFresh

(* The steps before, after and around a refresh. *)
LEMMA FreshOutside ==
    ASSUME Typed, BoundsInv, FreshInv, NEW r \in Request,
           Ensure(r) \/ Poll(r) \/ Recover(r) \/ Reload(r)
    PROVE  FreshInv'
<1>n. Numbers /\ Home[r] \in Proc
  BY TypedNumbers, HomeAssumption
<1>1. CASE Ensure(r) \/ Poll(r) \/ Recover(r)
  <2>1. PICK f \in BOOLEAN : ~Leading(r) /\ Asks(r, f)
    BY <1>1, AskSteps
  <2>2. got[r] = NoToken
    BY <2>1 DEF BoundsInv, Obtained, Leading
  <2>3. Reread(Home[r]) \in {memory[Home[r]], store}
    BY DEF Reread
  <2>4. \A p \in Proc : memory'[p] \in {memory[p], store}
    BY <1>n, <2>1, <2>3 DEF Asks, Numbers
  <2>5. \A q \in Request : \/ cur'[q] \in {cur[q], NoToken, store}
                           \/ Ready(Home[q]) /\ cur'[q] = memory[Home[q]]
    BY <2>1, <2>3 DEF Asks
  <2>6. \A q \in Request : Minted(q)' => Minted(q) /\ stage'[q] = stage[q] /\ cur'[q] = cur[q]
    BY <2>1, <2>2 DEF Asks, Minted
  <2>7. UNCHANGED <<tokens, got>>
    BY <2>1 DEF Asks
  <2>8. QED
    BY <2>4, <2>5, <2>6, <2>7, FreshSpread
<1>2. CASE Reload(r)
  <2>1. UNCHANGED <<tokens, got, stage, cur>>
    BY <1>2 DEF Reload, world, tokens
  <2>2. \A p \in Proc : memory'[p] \in {memory[p], store}
    BY <1>n, <1>2 DEF Reload, Numbers
  <2>3. QED
    BY <2>1, <2>2, FreshSpread DEF Minted
<1>3. QED
  BY <1>1, <1>2

(* A step that moves no token. *)
LEMMA FreshQuiet ==
    ASSUME Typed, BoundsInv, FreshInv, Quiet
    PROVE  FreshInv'
<1>1. UNCHANGED <<tokens, got, memory, cur>>
  BY DEF Quiet
<1>2. \A q \in Request : Minted(q)' => Minted(q) /\ stage'[q] = stage[q]
  BY DEF Quiet, Minted, Leading, BoundsInv, Obtained
<1>3. QED
  BY <1>1, <1>2, FreshSpread

(* The exchange, the answer and the write-back. *)
LEMMA FreshRefresh ==
    ASSUME Typed, BoundsInv, FreshInv, NEW r \in Request,
           LockStep(r) \/ AwaitHolder(r) \/ Mint(r) \/ Reply(r) \/ WriteBack(r)
    PROVE  FreshInv'
<1>n. Numbers /\ Home[r] \in Proc
  BY TypedNumbers, HomeAssumption
<1>1. CASE LockStep(r)
  BY <1>1, QuietSteps, FreshQuiet
<1>2. CASE AwaitHolder(r)
  <2>1. /\ stage' = [stage EXCEPT ![r] = "adopt"]
        /\ UNCHANGED <<tokens, memory, cur, got>>
    BY <1>2 DEF AwaitHolder, world, tokens, process
  <2>2. \A q \in Request : Minted(q)' => Minted(q) /\ stage'[q] = stage[q]
    BY <2>1 DEF Minted, Typed, FlightInv, RequestTypeOK
  <2>3. QED
    BY <2>1, <2>2, FreshSpread
<1>3. CASE Mint(r)
  <2> DEFINE t == issued + 1
  <2>1. /\ stage[r] = "refresh"
        /\ issued < MaxToken /\ cur[r] \in live
        /\ got' = [got EXCEPT ![r] = t]
        /\ live' = (live \ {cur[r]}) \cup {t}
        /\ parent' = [parent EXCEPT ![t] = cur[r]]
        /\ UNCHANGED <<store, cli, memory, stage, cur>>
    BY <1>3 DEF Mint, Posting, process
  <2>2. t \in Token /\ t \in Nat
    BY <1>n, <2>1, MaxTokenAssumption DEF Numbers, Token
  <2>3. /\ t \notin {store, cli} /\ t \notin live
        /\ \A p \in Proc : memory[p] # t
        /\ \A q \in Request : cur[q] # t /\ got[q] # t
    BY <1>n DEF BoundsInv, Issued, Numbers
  <2> HIDE DEF t
  <2>4. CliFresh'
    BY <2>1, <2>3 DEF FreshInv, CliFresh
  <2>5. MintedFresh(r)'
    BY <1>n, <2>1, <2>2, <2>3 DEF MintedFresh, Minted, Numbers
  <2>6. ASSUME NEW q \in Request \ {r} PROVE MintedFresh(q)'
    <3> SUFFICES ASSUME Minted(q)' PROVE MintedFresh(q)'
      BY DEF MintedFresh
    <3>1. Minted(q) /\ MintedFresh(q) /\ got'[q] = got[q] /\ got[q] # t
      BY <1>n, <2>1, <2>3 DEF FreshInv, Minted, Numbers
    <3>2. got[q] \in live' /\ parent'[got[q]] = cur[q]
      BY <1>n, <2>1, <3>1 DEF MintedFresh, Numbers, Typed, FlightInv, WorldTypeOK
    <3>3. \A s \in Request : Minted(s)' /\ got'[s] = got[q] => s = q
      BY <1>n, <2>1, <3>1 DEF MintedFresh, Minted, Numbers
    <3>4. QED
      BY <2>1, <3>1, <3>2, <3>3 DEF MintedFresh
  <2>7. QED
    BY <2>4, <2>5, <2>6 DEF FreshInv
<1>4. CASE ReplyOk(r)
  <2>1. /\ stage[r] = "refresh" /\ got[r] # NoToken
        /\ memory' = [memory EXCEPT ![Home[r]] = got[r]]
        /\ stage' = [stage EXCEPT ![r] = IF store = cur[r] THEN "rename" ELSE "release"]
        /\ UNCHANGED <<tokens, cur, got>>
    BY <1>4 DEF ReplyOk, TakeReply, Posting, world, tokens
  <2>2. Minted(r) /\ MintedFresh(r)
    BY <2>1 DEF Minted, FreshInv
  <2>3. \A p \in Proc : memory'[p] = IF p = Home[r] THEN got[r] ELSE memory[p]
    BY <1>n, <2>1 DEF Numbers
  <2>4. \A q \in Request : /\ Minted(q)' => Minted(q)
                           /\ q # r => stage'[q] = stage[q]
    BY <2>1, <2>2 DEF Minted
  <2>5. CliFresh'
    BY <2>1, <2>2, <2>3 DEF FreshInv, CliFresh, MintedFresh, tokens
  <2>6. MintedFresh(r)'
    <3>1. Minted(r)' => stage'[r] = "rename"
      BY <2>1 DEF Minted, Typed, FlightInv, RequestTypeOK
    <3>2. QED
      BY <2>1, <2>2, <2>3, <2>4, <3>1 DEF MintedFresh, tokens
  <2>7. ASSUME NEW q \in Request \ {r} PROVE MintedFresh(q)'
    <3> SUFFICES ASSUME Minted(q)' PROVE MintedFresh(q)'
      BY DEF MintedFresh
    <3>1. Minted(q) /\ MintedFresh(q) /\ got[q] # got[r]
      BY <2>2, <2>4 DEF FreshInv, MintedFresh
    <3>2. QED
      BY <2>1, <2>3, <2>4, <3>1 DEF MintedFresh, tokens
  <2>8. QED
    BY <2>5, <2>6, <2>7 DEF FreshInv
<1>5. ASSUME NEW oc, Fails(r, oc)
      PROVE  FreshInv'
  <2>1. /\ UNCHANGED <<tokens, cur>>
        /\ stage' = [stage EXCEPT ![r] = "release"]
    BY <1>5 DEF Fails
  <2>2. \A q \in Request \ {r} : got'[q] = got[q]
    BY <1>5, <1>n DEF Fails, Numbers
  <2>3. \A p \in Proc : memory'[p] \in {memory[p], store}
    BY <1>5, <1>n DEF Fails, Numbers
  <2>4. \A q \in Request : Minted(q)' => q # r /\ Minted(q) /\ stage'[q] = stage[q]
    BY <2>1, <2>2 DEF Minted, Typed, FlightInv, RequestTypeOK
  <2>5. CliFresh'
    BY <2>1, <2>3 DEF FreshInv, CliFresh, tokens
  <2>6. ASSUME NEW q \in Request, Minted(q)' PROVE MintedFresh(q)'
    <3>1. Minted(q) /\ MintedFresh(q) /\ got'[q] = got[q] /\ stage'[q] = stage[q]
      BY <2>2, <2>4, <2>6 DEF FreshInv
    <3>2. \A s \in Request : Minted(s)' /\ got'[s] = got[q] => s = q
      BY <2>2, <2>4, <3>1 DEF MintedFresh
    <3>3. QED
      BY <2>1, <2>3, <3>1, <3>2 DEF MintedFresh, tokens
  <2>7. QED
    BY <2>5, <2>6 DEF FreshInv, MintedFresh
<1>6. CASE WriteBack(r)
  <2>1. /\ stage[r] = "rename" /\ store' \in {store, got[r]}
        /\ stage' = [stage EXCEPT ![r] = "release"]
        /\ UNCHANGED <<live, parent, cli, memory, cur, got>>
    BY <1>6 DEF WriteBack, Rename, RenameFails, process
  <2>2. Minted(r) /\ MintedFresh(r)
    BY <2>1 DEF Minted, FreshInv, BoundsInv, Obtained
  <2>3. \A q \in Request : Minted(q)' => q # r /\ Minted(q) /\ stage'[q] = stage[q]
    BY <2>1 DEF Minted, Typed, FlightInv, RequestTypeOK
  <2>4. CliFresh'
    BY <2>1, <2>2 DEF FreshInv, CliFresh, MintedFresh
  <2>5. ASSUME NEW q \in Request, Minted(q)' PROVE MintedFresh(q)'
    <3>1. q # r /\ Minted(q) /\ MintedFresh(q) /\ stage'[q] = stage[q]
      BY <2>3, <2>5 DEF FreshInv
    <3>2. got[q] # got[r]
      BY <2>2, <3>1 DEF MintedFresh
    <3>3. QED
      BY <2>1, <2>3, <3>1, <3>2 DEF MintedFresh
  <2>6. QED
    BY <2>4, <2>5 DEF FreshInv, MintedFresh
<1>7. QED
  BY <1>1, <1>2, <1>3, <1>4, <1>5, <1>6, FailSteps DEF Reply

(* The end of a refresh. *)
LEMMA FreshOver ==
    ASSUME Typed, BoundsInv, FreshInv, NEW r \in Request, Release(r) \/ Adopt(r)
    PROVE  FreshInv'
<1>n. Numbers /\ Home[r] \in Proc
  BY TypedNumbers, HomeAssumption
<1>1. PICK v : Ends(r, v)
  BY OverSteps
<1>2. Leading(r) /\ ~Minted(r)
  BY OverSteps DEF Minted, Leading
<1>3. \A q \in Request : Minted(q)' => q # r /\ Minted(q) /\ stage'[q] = stage[q]
  BY <1>1, <1>n DEF Ends, Minted, Leading, Numbers
<1>4. \A p \in Proc : memory'[p] \in {memory[p], store}
  BY <1>n, OverSteps DEF Numbers
<1>5. \A q \in Request : cur'[q] \in {cur[q], NoToken} /\ (q # r => cur'[q] = cur[q] /\ got'[q] = got[q])
  BY <1>1, <1>n DEF Ends, Numbers
<1>6. UNCHANGED tokens
  BY <1>1 DEF Ends
<1>7. CliFresh'
  BY <1>4, <1>5, <1>6 DEF FreshInv, CliFresh, tokens
<1>8. ASSUME NEW q \in Request, Minted(q)' PROVE MintedFresh(q)'
  <2>1. q # r /\ Minted(q) /\ MintedFresh(q) /\ got'[q] = got[q] /\ cur'[q] = cur[q]
        /\ stage'[q] = stage[q] /\ got[q] # NoToken
    BY <1>3, <1>5, <1>8 DEF FreshInv, Minted
  <2>2. \A s \in Request : cur'[s] # got[q]
    BY <1>5, <2>1 DEF MintedFresh
  <2>3. \A s \in Request : Minted(s)' /\ got'[s] = got[q] => s = q
    BY <1>3, <1>5, <2>1 DEF MintedFresh
  <2>4. \A p \in Proc : memory'[p] = got[q] => p = Home[q] /\ stage[q] = "rename"
    BY <1>4, <2>1 DEF MintedFresh
  <2>5. QED
    BY <1>6, <2>1, <2>2, <2>3, <2>4 DEF MintedFresh, tokens
<1>9. QED
  BY <1>7, <1>8 DEF FreshInv, MintedFresh

(* A process dies or starts, the CLI moves, time passes. *)
LEMMA FreshAround ==
    ASSUME Typed, BoundsInv, FreshInv,
           (\E p \in Proc : ProcessStep(p)) \/ WorldStep \/ UNCHANGED vars
    PROVE  FreshInv'
<1>n. Numbers
  BY TypedNumbers
<1>1. ASSUME NEW p \in Proc, Crash(p)
      PROVE  FreshInv'
  <2>1. /\ UNCHANGED tokens
        /\ \A q \in Proc : memory'[q] \in {memory[q], NoToken}
        /\ \A q \in Request : cur'[q] \in {cur[q], NoToken}
        /\ \A q \in Request : Minted(q)' =>
              Minted(q) /\ stage'[q] = stage[q] /\ cur'[q] = cur[q] /\ got'[q] = got[q]
    BY <1>1, <1>n DEF Crash, tokens, Minted, Numbers
  <2>2. CliFresh'
    BY <2>1 DEF FreshInv, CliFresh, tokens
  <2>3. ASSUME NEW q \in Request, Minted(q)' PROVE MintedFresh(q)'
    <3>1. Minted(q) /\ MintedFresh(q) /\ got[q] # NoToken
          /\ stage'[q] = stage[q] /\ cur'[q] = cur[q] /\ got'[q] = got[q]
      BY <2>1, <2>3 DEF FreshInv, Minted
    <3>2. QED
      BY <2>1, <3>1 DEF MintedFresh, tokens
  <2>4. QED
    BY <2>2, <2>3 DEF FreshInv, MintedFresh
<1>2. ASSUME NEW p \in Proc, Boot(p)
      PROVE  FreshInv'
  <2>1. UNCHANGED <<tokens, got, stage, cur>>
    BY <1>2 DEF Boot, world, tokens, request
  <2>2. \A q \in Proc : memory'[q] \in {memory[q], store}
    BY <1>2, <1>n DEF Boot, Numbers
  <2>3. QED
    BY <2>1, <2>2, FreshSpread DEF Minted
<1>3. ASSUME NEW p \in Proc, CooldownEnds(p)
      PROVE  FreshInv'
  BY <1>3, QuietSteps, FreshQuiet
<1>4. ASSUME NEW spent \in {{}, {store} \cap live}, CliObtains(spent)
      PROVE  FreshInv'
  <2> DEFINE t == issued + 1
  <2>1. /\ issued < MaxToken /\ cli = NoToken /\ cli' = t
        /\ live' = (live \ spent) \cup {t}
        /\ parent' = [parent EXCEPT ![t] = IF spent = {} THEN NoToken ELSE store]
        /\ UNCHANGED <<store, memory, stage, cur, got>>
    BY <1>4 DEF CliObtains, process, request
  <2>2. /\ t \notin live /\ store # t
        /\ \A p \in Proc : memory[p] # t
        /\ \A q \in Request : cur[q] # t /\ got[q] # t
    BY <1>n DEF BoundsInv, Issued, Numbers
  <2> HIDE DEF t
  <2>3. CliFresh'
    BY <2>1, <2>2 DEF CliFresh
  <2>4. ASSUME NEW q \in Request PROVE MintedFresh(q)'
    <3> SUFFICES ASSUME Minted(q)' PROVE MintedFresh(q)'
      BY DEF MintedFresh
    <3>1. Minted(q) /\ MintedFresh(q)
      BY <2>1 DEF FreshInv, Minted
    <3>2. got[q] \in live' /\ parent'[got[q]] = cur[q]
      BY <2>1, <2>2, <3>1 DEF MintedFresh, Typed, FlightInv, WorldTypeOK
    <3>3. QED
      BY <2>1, <2>2, <3>1, <3>2 DEF MintedFresh, Minted
  <2>5. QED
    BY <2>3, <2>4 DEF FreshInv
<1>5. CASE CliTears \/ CliWrites
  <2>1. /\ UNCHANGED <<live, parent, memory, stage, cur, got>>
        /\ \/ store' = NoToken /\ cli' = cli
           \/ store' = cli /\ cli' = NoToken
    BY <1>5 DEF CliTears, CliWrites, process, request
  <2>2. CliFresh'
    BY <2>1 DEF FreshInv, CliFresh
  <2>3. ASSUME NEW q \in Request PROVE MintedFresh(q)'
    BY <2>1 DEF FreshInv, MintedFresh, Minted
  <2>4. QED
    BY <2>2, <2>3 DEF FreshInv
<1>6. CASE Closes \/ Expires
  BY <1>6 DEF Closes, Expires, process, request, FreshInv, CliFresh, MintedFresh, Minted
<1>7. CASE LockExpires \/ UNCHANGED vars
  BY <1>7, QuietSteps, FreshQuiet
<1>8. QED
  BY <1>1, <1>2, <1>3, <1>4, <1>5, <1>6, <1>7 DEF ProcessStep, WorldStep

(* FreshInv is an invariant of the credential system. *)
LEMMA FreshInvariant == SafetySpec => []FreshInv
<1>1. Init => FreshInv
  BY DEF Init, FreshInv, CliFresh, MintedFresh, Minted, NoToken
<1>2. ASSUME Typed, BoundsInv, FreshInv, NEW r \in Request,
             WaitEnds(r) \/ Capture(r) \/ Finish(r)
      PROVE  FreshInv'
  BY <1>2, QuietSteps, FreshQuiet
<1>3. Typed /\ BoundsInv /\ FreshInv /\ [Next]_vars => FreshInv'
  BY <1>2, FreshOutside, FreshRefresh, FreshOver, FreshAround DEF Next, RequestStep
<1>4. QED
  BY <1>1, <1>3, TypedInvariant, BoundsInvariant, PTL DEF SafetySpec

(* The file's grant stays where it is in a step that leaves the file, its   *)
(* life and whoever has its successor alone.                                *)
LEMMA GrantStays ==
    ASSUME StoreKeepsGrant, mishaps \subseteq mishaps',
           UNCHANGED <<store, live, parent, cli>>,
           \A q \in Request : Minted(q) /\ parent[got[q]] = store => Minted(q)' /\ got'[q] = got[q]
    PROVE  StoreKeepsGrant'
<1> SUFFICES ASSUME mishaps' \cap {"lost", "unwritten", "crash"} = {},
                    store' \notin live' \cup {NoToken},
                    ~(cli' # NoToken /\ parent'[cli'] = store')
             PROVE  \E r \in Request : /\ stage'[r] \in {"refresh", "rename"}
                                       /\ got'[r] # NoToken /\ parent'[got'[r]] = store'
  BY DEF StoreKeepsGrant
<1>1. PICK r \in Request : Minted(r) /\ parent[got[r]] = store
  BY DEF StoreKeepsGrant, Minted
<1>2. Minted(r)' /\ got'[r] = got[r]
  BY <1>1
<1>3. QED
  BY <1>1, <1>2 DEF Minted

(* A request's steps: the exchange kills the file's refresh token only with *)
(* its successor in hand, and the write-back puts a live one in its place.  *)
LEMMA GrantRequest ==
    ASSUME Typed, BoundsInv, FreshInv, StoreKeepsGrant, NEW r \in Request, RequestStep(r)
    PROVE  StoreKeepsGrant'
<1>n. Numbers
  BY TypedNumbers
<1>1. CASE Ensure(r) \/ Poll(r) \/ Recover(r)
  <2>1. PICK f \in BOOLEAN : ~Leading(r) /\ Asks(r, f)
    BY <1>1, AskSteps
  <2>2. \A q \in Request : Minted(q) => Minted(q)' /\ got'[q] = got[q]
    BY <2>1 DEF Asks, Minted, Leading
  <2>3. UNCHANGED <<tokens, mishaps>>
    BY <2>1 DEF Asks
  <2>4. QED
    BY <2>2, <2>3, GrantStays DEF tokens
<1>2. CASE Reload(r)
  BY <1>2, GrantStays DEF Reload, world, Minted
<1>3. CASE WaitEnds(r) \/ Capture(r) \/ Finish(r) \/ LockStep(r)
  <2>1. Quiet
    BY <1>3, QuietSteps
  <2>2. mishaps \subseteq mishaps'
    BY <1>3 DEF WaitEnds, Capture, Finish, LockStep, world, Suffers
  <2>3. \A q \in Request : Minted(q) => Minted(q)' /\ got'[q] = got[q]
    BY <2>1 DEF Quiet, Minted, Leading
  <2>4. QED
    BY <2>1, <2>2, <2>3, GrantStays DEF Quiet, tokens
<1>4. CASE AwaitHolder(r)
  <2>1. ~Minted(r)
    BY <1>4 DEF AwaitHolder, L!TurnAway, Minted, BoundsInv, Obtained, Locked
  <2>2. \A q \in Request : Minted(q) => Minted(q)' /\ got'[q] = got[q]
    BY <1>4, <2>1 DEF AwaitHolder, Minted
  <2>3. QED
    BY <1>4, <2>2, GrantStays DEF AwaitHolder, world
<1>5. CASE Mint(r)
  <2> DEFINE t == issued + 1
  <2>1. /\ stage[r] = "refresh" /\ got[r] = NoToken
        /\ issued < MaxToken /\ cur[r] \in live
        /\ got' = [got EXCEPT ![r] = t]
        /\ live' = (live \ {cur[r]}) \cup {t}
        /\ parent' = [parent EXCEPT ![t] = cur[r]]
        /\ UNCHANGED <<store, cli, mishaps, stage>>
    BY <1>5 DEF Mint, Posting
  <2>2. t \in Token /\ t # NoToken /\ t # cli /\ \A q \in Request : got[q] # t
    BY <1>n, <2>1, MaxTokenAssumption DEF Numbers, Token, NoToken, BoundsInv, Issued
  <2> HIDE DEF t
  <2>3. got'[r] = t /\ parent'[t] = cur[r] /\ (cli # NoToken => parent'[cli] = parent[cli])
    BY <1>n, <2>1, <2>2 DEF Numbers, FreshInv, CliFresh, Typed, FlightInv, WorldTypeOK
  <2>4. CASE store = cur[r]
    BY <2>1, <2>2, <2>3, <2>4 DEF StoreKeepsGrant
  <2>5. CASE store # cur[r]
    <3>1. ASSUME NEW q \in Request, Minted(q)
          PROVE  stage'[q] \in {"refresh", "rename"} /\ got'[q] = got[q] /\ parent'[got[q]] = parent[got[q]]
      <4>1. q # r /\ got[q] \in live
        BY <2>1, <3>1 DEF Minted, FreshInv, MintedFresh
      <4>2. QED
        BY <1>n, <2>1, <2>2, <3>1, <4>1 DEF Minted, Numbers, Typed, FlightInv, WorldTypeOK
    <3>2. QED
      BY <2>1, <2>3, <2>5, <3>1 DEF StoreKeepsGrant, Minted
  <2>6. QED
    BY <2>4, <2>5
<1>6. CASE ReplyOk(r)
  <2>1. /\ stage[r] = "refresh" /\ got[r] # NoToken
        /\ stage' = [stage EXCEPT ![r] = IF store = cur[r] THEN "rename" ELSE "release"]
        /\ UNCHANGED <<store, live, parent, cli, mishaps, got>>
    BY <1>6 DEF ReplyOk, TakeReply, Posting, world
  <2>2. parent[got[r]] = cur[r]
    BY <2>1 DEF Minted, FreshInv, MintedFresh
  <2>3. \A q \in Request : Minted(q) /\ parent[got[q]] = store => Minted(q)' /\ got'[q] = got[q]
    BY <2>1, <2>2 DEF Minted, Typed, FlightInv, RequestTypeOK
  <2>4. QED
    BY <2>1, <2>3, GrantStays
<1>7. CASE ReplyTerminal(r) \/ ReplyTransient(r)
  <2>1. PICK oc : Fails(r, oc) /\ got[r] = NoToken /\ UNCHANGED mishaps
    BY <1>7, FailSteps
  <2>2. \A q \in Request : Minted(q) => Minted(q)' /\ got'[q] = got[q]
    BY <1>n, <2>1 DEF Fails, Minted, Numbers
  <2>3. QED
    BY <2>1, <2>2, GrantStays DEF Fails, tokens
<1>8. CASE ReplyLost(r) \/ RenameFails(r)
  BY <1>8, FailSteps DEF RenameFails, Suffers, StoreKeepsGrant
<1>9. CASE Rename(r)
  <2>1. store' = got[r] /\ UNCHANGED live /\ Minted(r)
    BY <1>9 DEF Rename, Minted, BoundsInv, Obtained
  <2>2. QED
    BY <2>1 DEF FreshInv, MintedFresh, StoreKeepsGrant
<1>10. CASE Release(r) \/ Adopt(r)
  <2>1. PICK v : Ends(r, v)
    BY <1>10, OverSteps
  <2>2. ~Minted(r)
    BY <1>10, OverSteps DEF Minted
  <2>3. \A q \in Request : Minted(q) => Minted(q)' /\ got'[q] = got[q]
    BY <1>n, <2>1, <2>2 DEF Ends, Minted, Leading, Numbers
  <2>4. UNCHANGED <<tokens, mishaps>>
    BY <2>1 DEF Ends
  <2>5. QED
    BY <2>3, <2>4, GrantStays DEF tokens
<1>11. QED
  BY <1>1, <1>2, <1>3, <1>4, <1>5, <1>6, <1>7, <1>8, <1>9, <1>10
     DEF RequestStep, Reply, WriteBack

(* What happens around the requests. *)
LEMMA GrantAround ==
    ASSUME Typed, BoundsInv, FreshInv, StoreKeepsGrant,
           (\E p \in Proc : ProcessStep(p)) \/ WorldStep \/ UNCHANGED vars
    PROVE  StoreKeepsGrant'
<1>n. Numbers
  BY TypedNumbers
<1>1. ASSUME NEW p \in Proc, Crash(p)
      PROVE  StoreKeepsGrant'
  BY <1>1 DEF Crash, Suffers, StoreKeepsGrant
<1>2. ASSUME NEW p \in Proc, Boot(p) \/ CooldownEnds(p)
      PROVE  StoreKeepsGrant'
  BY <1>2, GrantStays DEF Boot, CooldownEnds, world, request, Minted
<1>3. ASSUME NEW spent \in {{}, {store} \cap live}, CliObtains(spent)
      PROVE  StoreKeepsGrant'
  <2> DEFINE t == issued + 1
  <2>1. /\ issued < MaxToken /\ cli = NoToken /\ cli' = t
        /\ live' = (live \ spent) \cup {t}
        /\ parent' = [parent EXCEPT ![t] = IF spent = {} THEN NoToken ELSE store]
        /\ mishaps \subseteq mishaps'
        /\ UNCHANGED <<store, stage, got>>
    BY <1>3 DEF CliObtains, Suffers, process, request
  <2>2. t \in Token /\ t # NoToken /\ t \notin live
    BY <1>n, <2>1, MaxTokenAssumption DEF Numbers, Token, NoToken, BoundsInv, Issued
  <2> HIDE DEF t
  <2>3. CASE spent # {}
    <3>1. parent'[cli'] = store /\ cli' # NoToken
      BY <2>1, <2>2, <2>3 DEF Typed, FlightInv, WorldTypeOK
    <3>2. QED
      BY <2>1, <3>1 DEF StoreKeepsGrant
  <2>4. CASE spent = {}
    <3>1. ASSUME NEW q \in Request, Minted(q)
          PROVE  parent'[got[q]] = parent[got[q]]
      <4>1. got[q] \in live
        BY <3>1 DEF FreshInv, MintedFresh
      <4>2. QED
        BY <2>1, <2>2, <4>1 DEF Typed, FlightInv, WorldTypeOK
    <3>2. store \in live \cup {NoToken} => store' \in live' \cup {NoToken}
      BY <2>1, <2>4
    <3>3. QED
      BY <2>1, <3>1, <3>2 DEF StoreKeepsGrant, Minted
  <2>5. QED
    BY <2>3, <2>4
<1>4. CASE CliTears
  BY <1>4 DEF CliTears, StoreKeepsGrant
<1>5. CASE CliWrites
  BY <1>5 DEF CliWrites, FreshInv, CliFresh, StoreKeepsGrant
<1>6. CASE Closes \/ Expires \/ LockExpires
  BY <1>6, GrantStays DEF Closes, Expires, LockExpires, world, process, request, Minted
<1>7. CASE UNCHANGED vars
  BY <1>7, GrantStays DEF vars, world, request, Minted
<1>8. QED
  BY <1>1, <1>2, <1>3, <1>4, <1>5, <1>6, <1>7 DEF ProcessStep, WorldStep

(* Unless an answer, a write-back or a process is lost, the shared file's   *)
(* refresh token is live or its successor is on its way, whoever refreshes, *)
(* logs in or takes the lock over meanwhile.                                *)
THEOREM StoreAlwaysKeepsGrant == SafetySpec => []StoreKeepsGrant
<1>1. Init => StoreKeepsGrant
  BY DEF Init, StoreKeepsGrant
<1>2. Typed /\ BoundsInv /\ FreshInv /\ StoreKeepsGrant /\ [Next]_vars => StoreKeepsGrant'
  BY GrantRequest, GrantAround DEF Next
<1>3. QED
  BY <1>1, <1>2, TypedInvariant, BoundsInvariant, FreshInvariant, PTL DEF SafetySpec

----------------------------------------------------------------------------
(* While nothing goes wrong, nobody takes its refresh token for dead.       *)

Calm == mishaps = {} /\ ~takenOver

(* One token is live; it is the file's, or the one the holder of the lock   *)
(* has obtained for the file's.                                             *)
OneLive ==
    /\ live = {issued} /\ store # NoToken /\ cli = NoToken
    /\ \A r \in Request : lockPc[r] # "noop"
    /\ \A r \in Request : Minted(r) => got[r] = issued /\ cur[r] = store
    /\ store = issued \/ \E r \in Request : Minted(r)

(* Memories are no ahead of the file, but for the one about to be written;  *)
(* whoever runs a refresh began with the file's token or one that has been  *)
(* replaced since by a usable one.                                          *)
FileLeads ==
    /\ \A p \in Proc : memory[p] <= store \/ \E r \in RequestsOf(p) : stage[r] = "rename"
    /\ \A r \in Request : Leading(r) => cur[r] = store \/ (cur[r] < store /\ Usable(store))
    /\ \A p \in Proc : outcome[p] # "terminal"

CalmInv == Calm => OneLive /\ FileLeads

(* A mishap and a takeover are never forgotten. *)
LEMMA CalmBefore ==
    ASSUME [Next]_vars, Calm'
    PROVE  Calm /\ UNCHANGED mishaps
<1>1. [L!LockNext]_lock
  BY RequestUsesLock, SurroundingsUseLock DEF Next, vars
<1>2. ~takenOver
  BY <1>1 DEF Calm, lock, L!LockNext, L!Begin, L!LockStep, L!Open, L!OpenFails, L!Stat, L!Unlink,
              L!TurnAway, L!Release, L!Crash, L!Expire
<1>3. mishaps \subseteq mishaps'
  <2>1. ASSUME NEW r \in Request, RequestStep(r)
        PROVE  mishaps \subseteq mishaps'
    <3>1. CASE Ensure(r) \/ Poll(r) \/ Recover(r)
      BY <3>1 DEF Ensure, Poll, Recover, RefreshIfNeeded, world
    <3>2. CASE WaitEnds(r) \/ Capture(r) \/ Reload(r) \/ Finish(r) \/ LockStep(r) \/ AwaitHolder(r)
      BY <3>2 DEF WaitEnds, Capture, Reload, Finish, LockStep, AwaitHolder, Suffers, world
    <3>3. CASE Mint(r) \/ Reply(r) \/ WriteBack(r)
      BY <3>3 DEF Mint, Reply, ReplyOk, TakeReply, ReplyTerminal, ReplyTransient, ReplyLost,
                  WriteBack, Rename, RenameFails, Suffers, world
    <3>4. CASE Release(r) \/ Adopt(r)
      BY <3>4 DEF Release, Adopt, AdoptStored, AdoptGivesUp, world
    <3>5. QED
      BY <2>1, <3>1, <3>2, <3>3, <3>4 DEF RequestStep
  <2>2. ASSUME NEW p \in Proc, ProcessStep(p)
        PROVE  mishaps \subseteq mishaps'
    BY <2>2 DEF ProcessStep, Crash, Boot, CooldownEnds, Suffers, world
  <2>3. CASE WorldStep \/ UNCHANGED vars
    BY <2>3 DEF WorldStep, CliObtains, CliTears, CliWrites, Closes, Expires, LockExpires,
                Suffers, vars, world
  <2>4. QED
    BY <2>1, <2>2, <2>3 DEF Next
<1>4. QED
  BY <1>2, <1>3 DEF Calm

(* Without mishaps two requests do not both refresh under the lock. *)
LEMMA CalmAlone ==
    ASSUME Calm, OneLive, L!ExclusiveUntilTakeover, NEW r \in Request, NEW q \in Request,
           Locked(r), Locked(q)
    PROVE  r = q
BY DEF Calm, OneLive, L!ExclusiveUntilTakeover, L!Holds, Locked

(* A step that moves tokens from the file to memories at most. *)
LEMMA CalmSpread ==
    ASSUME Numbers, OneLive, FileLeads,
           UNCHANGED tokens,
           \A r \in Request : lockPc'[r] # "noop",
           \A r \in Request : stage'[r] = "rename" <=> stage[r] = "rename",
           \A r \in Request : Minted(r) <=> Minted(r)',
           \A r \in Request : Minted(r) => got'[r] = got[r] /\ cur'[r] = cur[r],
           \A r \in Request : Leading(r)' => cur'[r] = store \/ (Leading(r) /\ cur'[r] = cur[r]),
           \A p \in Proc : memory'[p] \in {memory[p], store},
           \A p \in Proc : outcome'[p] = outcome[p] \/ outcome'[p] # "terminal"
    PROVE  OneLive' /\ FileLeads'
<1>1. OneLive'
  BY DEF OneLive, tokens
<1>2. store' = store /\ store \in Nat
  BY DEF tokens, Numbers
<1>3. \A p \in Proc : memory'[p] <= store \/ \E r \in RequestsOf(p) : stage'[r] = "rename"
  BY <1>2 DEF FileLeads, RequestsOf
<1>4. FileLeads'
  BY <1>2, <1>3 DEF FileLeads, RequestsOf, Usable, tokens
<1>5. QED
  BY <1>1, <1>4

(* What CalmInv and the other invariants say before a step after which      *)
(* nothing has gone wrong.                                                  *)
CalmState ==
    Typed /\ BoundsInv /\ ServedInv /\ L!ExclusiveUntilTakeover /\ Calm /\ OneLive /\ FileLeads

(* Asking for a token begins a refresh with the file's. *)
LEMMA CalmAsk ==
    ASSUME CalmState, NEW r \in Request,
           Ensure(r) \/ Poll(r) \/ Recover(r) \/ Reload(r)
    PROVE  OneLive' /\ FileLeads'
<1>n. Numbers /\ Home[r] \in Proc
  BY TypedNumbers, HomeAssumption DEF CalmState
<1>1. CASE Ensure(r) \/ Poll(r) \/ Recover(r)
  <2>1. PICK f \in BOOLEAN : ~Leading(r) /\ Asks(r, f)
    BY <1>1, AskSteps DEF CalmState
  <2>2. memory[Home[r]] # NoToken /\ memory[Home[r]] <= store
    BY <1>n, <2>1 DEF Asks, Ready, Busy, CalmState, FileLeads
  <2>3. Reread(Home[r]) = store
    <3>1. memory[Home[r]] \in Nat
      BY <1>n DEF Numbers
    <3>2. Usable(store) \/ ~Usable(memory[Home[r]])
      BY <1>n, <2>2, <3>1 DEF Usable, Numbers
    <3>3. QED
      BY <3>2 DEF Reread, CalmState, OneLive
  <2>4. \A p \in Proc : memory'[p] \in {memory[p], store}
    BY <1>n, <2>1, <2>3 DEF Asks, Numbers
  <2>5. \A q \in Request : Leading(q)' => cur'[q] = store \/ (Leading(q) /\ cur'[q] = cur[q])
    BY <2>1, <2>3 DEF Asks, Leading
  <2>6. \A q \in Request : lockPc'[q] # "noop"
    BY <2>1 DEF Asks, L!Begin, L!Goto, lock, CalmState, OneLive, Typed, L!LockTypeOK
  <2>7. got[r] = NoToken
    BY <2>1 DEF CalmState, BoundsInv, Obtained, Leading
  <2>8. \A q \in Request : /\ stage'[q] = "rename" <=> stage[q] = "rename"
                           /\ Minted(q) <=> Minted(q)'
                           /\ Minted(q) => got'[q] = got[q] /\ cur'[q] = cur[q]
    BY <2>1, <2>7 DEF Asks, Minted, Leading
  <2>9. UNCHANGED tokens /\ outcome' = outcome
    BY <2>1 DEF Asks
  <2>10. QED
    BY <1>n, <2>4, <2>5, <2>6, <2>8, <2>9, CalmSpread DEF CalmState
<1>2. CASE Reload(r)
  <2>1. UNCHANGED <<tokens, outcome, lock, stage, cur, got>>
    BY <1>2 DEF Reload, world, tokens
  <2>2. \A p \in Proc : memory'[p] \in {memory[p], store}
    BY <1>n, <1>2 DEF Reload, Numbers
  <2>3. \A q \in Request : lockPc'[q] # "noop"
    BY <2>1 DEF lock, CalmState, OneLive
  <2>4. QED
    BY <1>n, <2>1, <2>2, <2>3, CalmSpread DEF CalmState, Minted, Leading
<1>3. QED
  BY <1>1, <1>2

(* A step that moves no token. *)
LEMMA CalmQuiet ==
    ASSUME CalmState, Quiet,
           \A r \in Request : lockPc'[r] # "noop",
           \A p \in Proc : outcome'[p] = outcome[p] \/ outcome'[p] # "terminal"
    PROVE  OneLive' /\ FileLeads'
<1>1. \A r \in Request : /\ stage'[r] = "rename" <=> stage[r] = "rename"
                         /\ Leading(r)' => Leading(r)
                         /\ Minted(r) <=> Minted(r)'
  BY DEF Quiet, Leading, Minted, CalmState
<1>2. UNCHANGED <<tokens, memory, cur, got>>
  BY DEF Quiet
<1>3. QED
  BY <1>1, <1>2, TypedNumbers, CalmSpread DEF CalmState

(* The exchange, the answer and the write-back: the one live token goes     *)
(* from the file to its successor, by way of the lock's one holder.         *)
LEMMA CalmRefresh ==
    ASSUME CalmState, NEW r \in Request, UNCHANGED mishaps,
           LockStep(r) \/ AwaitHolder(r) \/ Mint(r) \/ Reply(r) \/ WriteBack(r)
    PROVE  OneLive' /\ FileLeads'
<1>n. Numbers /\ Home[r] \in Proc
  BY TypedNumbers, HomeAssumption DEF CalmState
<1>m. mishaps = {}
  BY DEF CalmState, Calm
<1>1. CASE LockStep(r)
  <2>1. Quiet
    BY <1>1, QuietSteps DEF CalmState
  <2>2. L!Open(r) \/ L!Stat(r) \/ L!Unlink(r)
    BY <1>1, <1>m DEF LockStep, Suffers
  <2>3. \A q \in Request : lockPc'[q] # "noop"
    BY <2>2 DEF L!Open, L!Stat, L!Unlink, L!Goto, CalmState, OneLive, Typed, L!LockTypeOK
  <2>4. outcome' = outcome
    BY <1>1 DEF LockStep, process
  <2>5. QED
    BY <2>1, <2>3, <2>4, CalmQuiet
<1>2. CASE AwaitHolder(r)
  <2>1. /\ stage[r] = "refresh" /\ stage' = [stage EXCEPT ![r] = "adopt"]
        /\ UNCHANGED <<tokens, memory, outcome, cur, got>>
    BY <1>2 DEF AwaitHolder, world, tokens, process
  <2>2. got[r] = NoToken
    BY <1>2 DEF AwaitHolder, L!TurnAway, CalmState, BoundsInv, Obtained, Locked
  <2>3. \A q \in Request : /\ stage'[q] = "rename" <=> stage[q] = "rename"
                           /\ Minted(q) <=> Minted(q)'
                           /\ Leading(q)' => Leading(q)
    BY <2>1, <2>2 DEF Minted, Leading, CalmState, Typed, FlightInv, RequestTypeOK
  <2>4. \A q \in Request : lockPc'[q] # "noop"
    BY <1>2 DEF AwaitHolder, L!TurnAway, L!Goto, CalmState, OneLive, Typed, L!LockTypeOK
  <2>5. QED
    BY <1>n, <2>1, <2>3, <2>4, CalmSpread DEF CalmState
<1>3. ASSUME Locked(r), NEW q \in Request, Minted(q)
      PROVE  q = r
  <2>1. Locked(q)
    BY <1>3 DEF CalmState, BoundsInv, Obtained, Minted
  <2>2. QED
    BY <1>3, <2>1, CalmAlone DEF CalmState
<1>4. CASE Mint(r)
  <2> DEFINE t == issued + 1
  <2>1. /\ stage[r] = "refresh" /\ got[r] = NoToken /\ Locked(r)
        /\ cur[r] \in live
        /\ issued' = t
        /\ got' = [got EXCEPT ![r] = t]
        /\ live' = (live \ {cur[r]}) \cup {t}
        /\ UNCHANGED <<store, expired, cli, memory, outcome, stage, cur, lockPc>>
    BY <1>4 DEF Mint, Posting, Locked, process, lock
  <2>2. \A q \in Request : ~Minted(q)
    BY <1>3, <2>1 DEF Minted
  <2>3. cur[r] = issued /\ store = issued
    BY <2>1, <2>2 DEF CalmState, OneLive
  <2>4. t # NoToken /\ got'[r] = t /\ \A q \in Request \ {r} : got'[q] = got[q]
    BY <1>n, <2>1 DEF Numbers, NoToken
  <2> HIDE DEF t
  <2>5. OneLive'
    <3>1. live' = {issued'} /\ store' # NoToken /\ cli' = NoToken
          /\ \A q \in Request : lockPc'[q] # "noop"
      BY <2>1, <2>3 DEF CalmState, OneLive
    <3>2. \A q \in Request : Minted(q)' <=> q = r
      BY <2>1, <2>2, <2>4 DEF Minted
    <3>3. QED
      BY <2>1, <2>3, <2>4, <3>1, <3>2 DEF OneLive
  <2>6. FileLeads'
    BY <2>1 DEF CalmState, FileLeads, Leading, Usable, RequestsOf
  <2>7. QED
    BY <2>5, <2>6
<1>5. CASE ReplyOk(r)
  <2>1. /\ stage[r] = "refresh" /\ got[r] # NoToken
        /\ memory' = [memory EXCEPT ![Home[r]] = got[r]]
        /\ outcome' = [outcome EXCEPT ![Home[r]] = "clear"]
        /\ stage' = [stage EXCEPT ![r] = IF store = cur[r] THEN "rename" ELSE "release"]
        /\ UNCHANGED <<tokens, cur, got, lockPc>>
    BY <1>5 DEF ReplyOk, TakeReply, Posting, world, tokens, lock
  <2>2. Minted(r) /\ store = cur[r]
    BY <2>1 DEF Minted, CalmState, OneLive
  <2>3. stage' = [stage EXCEPT ![r] = "rename"]
    BY <2>1, <2>2
  <2>4. stage'[r] = "rename" /\ \A q \in Request \ {r} : stage'[q] = stage[q]
    BY <2>3 DEF CalmState, Typed, FlightInv, RequestTypeOK
  <2>5. \A q \in Request : (Minted(q)' <=> Minted(q)) /\ (Leading(q)' <=> Leading(q))
    BY <2>1, <2>4 DEF Minted, Leading
  <2>6. OneLive'
    BY <2>1, <2>5 DEF CalmState, OneLive, tokens
  <2>7. \A p \in Proc : memory'[p] <= store \/ \E q \in RequestsOf(p) : stage'[q] = "rename"
    <3> SUFFICES ASSUME NEW p \in Proc, p # Home[r]
                 PROVE  memory'[p] <= store \/ \E q \in RequestsOf(p) : stage'[q] = "rename"
      BY <2>4 DEF RequestsOf
    <3>1. memory'[p] = memory[p]
      BY <2>1
    <3>2. QED
      BY <2>4, <3>1 DEF CalmState, FileLeads, RequestsOf
  <2>8. \A p \in Proc : outcome'[p] # "terminal"
    BY <2>1 DEF CalmState, FileLeads, Typed, FlightInv, ProcessTypeOK
  <2>9. FileLeads'
    BY <2>1, <2>5, <2>7, <2>8 DEF CalmState, FileLeads, Usable, RequestsOf, tokens
  <2>10. QED
    BY <2>6, <2>9
<1>6. CASE ReplyTerminal(r) \/ ReplyTransient(r)
  <2>1. got[r] = NoToken
    BY <1>6, FailSteps
  <2>2. PICK oc : Fails(r, oc)
    BY <1>6, FailSteps
  <2>3. /\ UNCHANGED <<tokens, cur, lockPc>> /\ Locked(r) /\ Leading(r)
        /\ stage[r] = "refresh" /\ stage' = [stage EXCEPT ![r] = "release"]
    BY <2>2 DEF Fails, Locked, Leading
  <2>4. \A p \in Proc : memory'[p] \in {memory[p], store}
    BY <1>n, <2>2 DEF Fails, Numbers
  <2>5. \A q \in Request \ {r} : got'[q] = got[q]
    BY <1>n, <2>2 DEF Fails, Numbers
  <2>6. \A q \in Request : ~Minted(q)
    BY <1>3, <2>1, <2>3 DEF Minted
  <2>7. \A q \in Request : /\ stage'[q] = "rename" <=> stage[q] = "rename"
                           /\ Minted(q) <=> Minted(q)'
                           /\ Leading(q)' => Leading(q)
    BY <2>3, <2>5, <2>6 DEF Minted, Leading, CalmState, Typed, FlightInv, RequestTypeOK
  <2>8. \A p \in Proc : outcome'[p] = outcome[p] \/ outcome'[p] # "terminal"
    <3>1. CASE ReplyTransient(r)
      <4>1. Fails(r, "cooling")
        BY <3>1, FailSteps
      <4>2. QED
        BY <4>1 DEF Fails, CalmState, Typed, FlightInv, ProcessTypeOK
    <3>2. CASE ReplyTerminal(r)
      <4>1. cur[r] \notin live /\ Fails(r, "terminal")
        BY <3>2, FailSteps
      <4>2. cur[r] # store
        BY <2>6, <4>1 DEF CalmState, OneLive
      <4>3. Usable(store)
        BY <2>3, <4>2 DEF CalmState, FileLeads
      <4>4. outcome' = [outcome EXCEPT ![Home[r]] = "clear"]
        BY <4>1, <4>2, <4>3 DEF Fails
      <4>5. QED
        BY <4>4 DEF CalmState, Typed, FlightInv, ProcessTypeOK
    <3>3. QED
      BY <1>6, <3>1, <3>2
  <2>9. \A q \in Request : lockPc'[q] # "noop"
    BY <2>3 DEF CalmState, OneLive
  <2>10. QED
    BY <1>n, <2>3, <2>4, <2>6, <2>7, <2>8, <2>9, CalmSpread DEF CalmState
<1>7. CASE ReplyLost(r) \/ RenameFails(r)
  BY <1>7, <1>m DEF ReplyLost, RenameFails, Suffers
<1>8. CASE Rename(r)
  <2>1. /\ stage[r] = "rename" /\ store' = got[r]
        /\ stage' = [stage EXCEPT ![r] = "release"]
        /\ UNCHANGED <<issued, live, closing, expired, cli, memory, outcome, cur, got, lockPc>>
    BY <1>8 DEF Rename, process, lock
  <2>2. Minted(r) /\ Locked(r)
    BY <2>1 DEF Minted, CalmState, BoundsInv, Obtained
  <2>3. /\ got[r] = issued /\ cur[r] = store /\ got[r] # NoToken
        /\ got[r] > cur[r] /\ got[r] > closing
    BY <2>2 DEF Minted, CalmState, OneLive, ServedInv, Younger
  <2>4. \A q \in Request : ~Minted(q)'
    BY <1>3, <2>1, <2>2 DEF Minted, CalmState, Typed, FlightInv, RequestTypeOK
  <2>5. OneLive'
    BY <2>1, <2>3, <2>4 DEF CalmState, OneLive
  <2>6. Usable(store)'
    BY <1>n, <2>1, <2>3 DEF Usable, Numbers
  <2>7. \A q \in Request : Leading(q)' => cur'[q] < store'
    BY <1>n, <2>1, <2>3 DEF CalmState, FileLeads, Leading, Numbers, Typed, FlightInv, RequestTypeOK
  <2>8. \A p \in Proc : memory'[p] <= store'
    BY <2>1, <2>3 DEF CalmState, BoundsInv, Issued
  <2>9. FileLeads'
    BY <2>1, <2>6, <2>7, <2>8 DEF CalmState, FileLeads
  <2>10. QED
    BY <2>5, <2>9
<1>9. QED
  BY <1>1, <1>2, <1>4, <1>5, <1>6, <1>7, <1>8 DEF Reply, WriteBack

(* The end of a refresh. *)
LEMMA CalmOver ==
    ASSUME CalmState, NEW r \in Request, Release(r) \/ Adopt(r)
    PROVE  OneLive' /\ FileLeads'
<1>n. Numbers /\ Home[r] \in Proc /\ Typed
  BY TypedNumbers, HomeAssumption DEF CalmState
<1>1. PICK v : Ends(r, v)
  BY <1>n, OverSteps
<1>2. Leading(r) /\ ~Minted(r) /\ stage[r] # "rename"
  BY <1>n, OverSteps DEF Minted
<1>3. \A q \in Request : q # r => cur'[q] = cur[q] /\ got'[q] = got[q]
  BY <1>n, <1>1 DEF Ends, Numbers
<1>4. \A q \in Request : /\ stage'[q] = "rename" <=> stage[q] = "rename"
                         /\ Minted(q) <=> Minted(q)'
                         /\ Leading(q)' => q # r /\ Leading(q)
  BY <1>1, <1>2, <1>3 DEF Ends, Minted, Leading
<1>5. \A p \in Proc : memory'[p] \in {memory[p], store}
  BY <1>n, OverSteps DEF Numbers
<1>6. \A p \in Proc : outcome'[p] = outcome[p] \/ outcome'[p] # "terminal"
  <2>1. outcome' = outcome \/ outcome' = [outcome EXCEPT ![Home[r]] = "clear"]
    BY <1>n, OverSteps
  <2>2. QED
    BY <1>n, <2>1 DEF Typed, FlightInv, ProcessTypeOK
<1>7. \A q \in Request : lockPc'[q] # "noop"
  BY <1>n DEF Release, Adopt, AdoptStored, AdoptGivesUp, L!Release, L!Goto, lock, CalmState, OneLive,
              Typed, L!LockTypeOK
<1>8. UNCHANGED tokens
  BY <1>1 DEF Ends
<1>9. \A q \in Request : Minted(q) => q # r
  BY <1>2
<1>10. QED
  BY <1>n, <1>3, <1>4, <1>5, <1>6, <1>7, <1>8, <1>9, CalmSpread DEF CalmState

(* What happens around the requests: time does not overtake a refresh. *)
LEMMA CalmAround ==
    ASSUME CalmState, UNCHANGED mishaps,
           (\E p \in Proc : ProcessStep(p)) \/ WorldStep \/ UNCHANGED vars
    PROVE  OneLive' /\ FileLeads'
<1>n. Numbers /\ Typed
  BY TypedNumbers DEF CalmState
<1>m. mishaps = {} /\ cli = NoToken
  BY DEF CalmState, Calm, OneLive
<1>1. ASSUME NEW p \in Proc, Crash(p)
      PROVE  FALSE
  BY <1>1, <1>m DEF Crash, Suffers
<1>2. ASSUME NEW p \in Proc, Boot(p)
      PROVE  OneLive' /\ FileLeads'
  <2>1. UNCHANGED <<tokens, outcome, lockPc, stage, cur, got>>
    BY <1>2 DEF Boot, world, tokens, request, lock
  <2>2. \A q \in Proc : memory'[q] \in {memory[q], store}
    BY <1>n, <1>2 DEF Boot, Numbers
  <2>3. QED
    BY <1>n, <2>1, <2>2, CalmSpread DEF CalmState, OneLive, Minted, Leading
<1>3. ASSUME NEW p \in Proc, CooldownEnds(p)
      PROVE  OneLive' /\ FileLeads'
  <2>1. Quiet
    BY <1>n, <1>3, QuietSteps
  <2>2. lockPc' = lockPc /\ outcome' = [outcome EXCEPT ![p] = "transient"]
    BY <1>3 DEF CooldownEnds, lock
  <2>3. QED
    BY <1>n, <2>1, <2>2, CalmQuiet DEF CalmState, OneLive, Typed, FlightInv, ProcessTypeOK
<1>4. ASSUME NEW spent, CliObtains(spent)
      PROVE  FALSE
  BY <1>4, <1>m DEF CliObtains, Suffers
<1>5. CASE CliTears \/ CliWrites
  BY <1>5, <1>m DEF CliTears, CliWrites
<1>6. CASE Closes
  BY <1>6 DEF Closes, process, request, lock, CalmState, OneLive, FileLeads, Minted, Leading,
              Usable, RequestsOf
<1>7. CASE Expires
  <2>1. /\ expired' = expired + 1 /\ Unhurried(expired + 1)
        /\ UNCHANGED <<store, issued, live, cli, memory, outcome, stage, cur, got, lockPc>>
    BY <1>7 DEF Expires, process, request, lock
  <2>2. OneLive'
    BY <2>1 DEF CalmState, OneLive, Minted
  <2>3. \A r \in Request : Leading(r)' => cur'[r] = store' \/ (cur'[r] < store' /\ Usable(store)')
    BY <1>n, <2>1 DEF CalmState, FileLeads, Leading, Usable, Unhurried, Numbers
  <2>4. FileLeads'
    BY <2>1, <2>3 DEF CalmState, FileLeads, RequestsOf
  <2>5. QED
    BY <2>2, <2>4
<1>8. CASE LockExpires \/ UNCHANGED vars
  <2>1. Quiet /\ lockPc' = lockPc /\ outcome' = outcome
    BY <1>n, <1>8, QuietSteps DEF LockExpires, L!Expire, process, vars, lock
  <2>2. QED
    BY <2>1, CalmQuiet DEF CalmState, OneLive
<1>9. QED
  BY <1>1, <1>2, <1>3, <1>4, <1>5, <1>6, <1>7, <1>8 DEF ProcessStep, WorldStep

(* The initial states. *)
LEMMA CalmInit == Init => OneLive /\ FileLeads
<1> SUFFICES ASSUME Init PROVE OneLive /\ FileLeads
  OBVIOUS
<1>1. OneLive
  BY DEF Init, L!LockInit, OneLive, Minted, NoToken
<1>2. FileLeads
  BY DEF Init, FileLeads, Leading
<1>3. QED
  BY <1>1, <1>2

(* CalmInv is an invariant of the credential system. *)
LEMMA CalmInvariant == SafetySpec => []CalmInv
<1>1. Init => CalmInv
  BY CalmInit DEF CalmInv
<1>2. ASSUME Typed, BoundsInv, ServedInv, L!ExclusiveUntilTakeover, CalmInv, [Next]_vars
      PROVE  CalmInv'
  <2> SUFFICES ASSUME Calm' PROVE OneLive' /\ FileLeads'
    BY DEF CalmInv
  <2>1. CalmState /\ UNCHANGED mishaps
    BY <1>2, CalmBefore DEF CalmState, CalmInv
  <2>2. ASSUME NEW r \in Request, WaitEnds(r) \/ Capture(r) \/ Finish(r)
        PROVE  OneLive' /\ FileLeads'
    <3>1. Quiet /\ lockPc' = lockPc /\ outcome' = outcome
      BY <1>2, <2>2, QuietSteps DEF WaitEnds, Capture, Finish, process, lock
    <3>2. QED
      BY <2>1, <3>1, CalmQuiet DEF CalmState, OneLive
  <2>3. QED
    BY <1>2, <2>1, <2>2, CalmAsk, CalmRefresh, CalmOver, CalmAround DEF Next, RequestStep
<1>3. QED
  BY <1>1, <1>2, TypedInvariant, BoundsInvariant, ServedInvariant, RefreshExclusive, PTL
     DEF SafetySpec

(* The two locks, the re-read and the order of the write-back do their job: *)
(* with nothing lost and no lock taken over, every answer invalid_grant     *)
(* finds the successor of its token in the file, usable, and no process     *)
(* concludes that it has to log in again.                                   *)
THEOREM NeverFalselyTerminal == SafetySpec => []NoFalseTerminal
<1>1. CalmInv => NoFalseTerminal
  BY DEF CalmInv, Calm, FileLeads, NoFalseTerminal
<1>2. QED
  BY <1>1, CalmInvariant, PTL
============================================================================
