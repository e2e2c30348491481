------------------------- MODULE CredentialRefresh -------------------------
(***************************************************************************)
(* The OAuth credential lifecycle of src/domain/credentials.ts, with the   *)
(* lock of refresh-lock.ts and the outcome state of refresh-backoff.ts:    *)
(* several gateway processes and the `claude` CLI share one credentials    *)
(* file whose refresh token rotates, so that a used one is dead.           *)
(*                                                                         *)
(* A token stands for one OAuth credential (access token, refresh token    *)
(* and expiry); tokens are numbered in the order in which they are issued. *)
(* A request is one user of a process's token: a chat or completion that   *)
(* waits for a token, a call that does not wait, or the 60 s timer.  It    *)
(* asks for a token, uses it, and may have it rejected with a 401.         *)
(*                                                                         *)
(* The code of one process between two awaits is a step of its own, except *)
(* that it is cut wherever it touches a file another process may touch;    *)
(* until such a stretch ends the process's other requests do not move.     *)
(***************************************************************************)
EXTENDS Naturals, FiniteSets

CONSTANTS
    Proc,           \* gateway processes
    Request,        \* users of a token, over all processes
    Home,           \* the process each request belongs to
    Patient,        \* requests that call ensureValidToken with wait: true
    MaxToken,       \* bound: tokens issued in one behaviour
    Mishaps,        \* what may go wrong in a behaviour (a part of Mishap)
    MaxMishaps,     \* bound: how many of these go wrong in one behaviour
    NoOne, MaxCrashes, MayOverrun       \* see RefreshLock

Mishap == {"lost", "unwritten", "unlocked", "crash", "cli"}

ASSUME HomeAssumption == Home \in [Request -> Proc]
ASSUME PatientAssumption == Patient \subseteq Request
ASSUME MaxTokenAssumption == MaxToken \in Nat \ {0}
ASSUME MishapsAssumption == Mishaps \subseteq Mishap /\ MaxMishaps \in Nat
ASSUME NoRequestAssumption == NoOne \notin Request
ASSUME BoundsAssumption == MaxCrashes \in Nat /\ MayOverrun \in BOOLEAN

VARIABLES
    \* the world
    store,          \* the token in the file, NoToken when it does not parse
    issued,         \* how many tokens have been issued
    live,           \* tokens whose refresh token the endpoint still honours
    closing,        \* tokens up to this one expire within five minutes
    expired,        \* tokens up to this one are within a minute of expiry
    parent,         \* the token each token was exchanged for
    cli,            \* a token the CLI has obtained and not yet written
    mishaps,        \* history: what has gone wrong so far
    \* a process
    memory,         \* `credentials`; NoToken while the process is down
    outcome,        \* `cooldown` and `lastFailureKind`
    inFlight,       \* `refreshPromise`: the request that runs it, or NoOne
    \* a request
    stage,          \* where it is
    force,          \* it asked with force: true, after a 401
    late,           \* its wait is over: deadline passed or client gone
    used,           \* the token it sends upstream
    cur,            \* `current` of the refresh it runs
    got,            \* the token that refresh has obtained, then its result
    \* the lock file
    lockOwner, lockStale, lockPc, attempt, crashes, takenOver

world == <<store, issued, live, closing, expired, parent, cli, mishaps>>
process == <<memory, outcome, inFlight>>
request == <<stage, force, late, used, cur, got>>
lock == <<lockOwner, lockStale, lockPc, attempt, crashes, takenOver>>
vars == <<world, process, request, lock>>

L == INSTANCE RefreshLock WITH Contender <- Request

NoToken == 0
Token == 1..MaxToken
Outcome == {"clear", "cooling", "transient", "terminal"}
Stage == {"idle", "refresh", "rename", "release", "adopt", "joined", "sleep",
          "served", "using", "refused"}

(* usable(c): more than a minute left.  usable(c, REFRESH_MARGIN_MS): more  *)
(* than five.  Tokens have one lifetime, so they expire in order of issue;  *)
(* NoToken is below every token.                                            *)
Usable(t) == t > expired
UsableForLong(t) == t > closing

RequestsOf(p) == {r \in Request : Home[r] = p}

(* The request that runs the refresh of its process, and its substates.     *)
Leading(r) == stage[r] \in {"refresh", "rename", "release", "adopt"}
Posting(r) == stage[r] = "refresh" /\ lockPc[r] \in {"held", "noop"}

(* Process p is in the middle of a synchronous stretch.                     *)
Busy(p) ==
    \E r \in RequestsOf(p) :
        \/ stage[r] \in {"rename", "release"}
        \/ stage[r] = "refresh" /\ lockPc[r] \in {"open", "stat", "unlink", "busy"}

Ready(p) == memory[p] # NoToken /\ ~Busy(p)

Init ==
    /\ store = 1 /\ issued = 1 /\ live = {1}
    /\ closing = 0 /\ expired = 0
    /\ parent = [t \in Token |-> NoToken]
    /\ cli = NoToken
    /\ mishaps = {}
    /\ memory = [p \in Proc |-> 1]
    /\ outcome = [p \in Proc |-> "clear"]
    /\ inFlight = [p \in Proc |-> NoOne]
    /\ stage = [r \in Request |-> "idle"]
    /\ force = [r \in Request |-> FALSE]
    /\ late = [r \in Request |-> r \notin Patient]
    /\ used = [r \in Request |-> NoToken]
    /\ cur = [r \in Request |-> NoToken]
    /\ got = [r \in Request |-> NoToken]
    /\ L!LockInit

(* A mishap of each kind happens once at most, and MaxMishaps in all.       *)
Suffers(m) ==
    /\ m \in Mishaps \ mishaps
    /\ Cardinality(mishaps) < MaxMishaps
    /\ mishaps' = mishaps \cup {m}

----------------------------------------------------------------------------
(* What a call of refreshIfNeeded returns, and what its caller does next.   *)

\* Mutant of Reread: whatever the file holds is adopted.
RereadAlways(p) == IF store # NoToken THEN store ELSE memory[p]

(* refreshIfNeeded's first statement: adopt the stored token, an unusable   *)
(* one only when the one in memory is unusable too.                         *)
Reread(p) ==
    IF store # NoToken /\ (memory[p] = NoToken \/ Usable(store) \/ ~Usable(memory[p]))
    THEN store ELSE memory[p]

(* The stage of request q once it has the result v of a refreshIfNeeded it  *)
(* called with force f: recoverRejectedToken takes any token but the        *)
(* rejected one, ensureValidToken takes a usable token and waits or throws  *)
(* without one.                                                             *)
Verdict(q, f, v, oc) ==
    CASE f /\ v \notin {NoToken, used[q]}             -> "using"
      [] f /\ v \in {NoToken, used[q]}                -> "refused"
      [] ~f /\ Usable(v)                              -> "served"
      [] ~f /\ ~Usable(v) /\ ~late[q] /\ oc # "terminal" -> "sleep"
      [] OTHER                                        -> "refused"

(* The requests in S, whose force flags are fs, get the result v.           *)
Resolve(S, fs, v, oc) ==
    /\ stage' = [q \in Request |-> IF q \in S THEN Verdict(q, fs[q], v, oc) ELSE stage[q]]
    /\ used' = [q \in Request |->
                  IF q \in S /\ fs[q] THEN v ELSE used[q]]
    /\ force' = [q \in Request |-> IF q \in S THEN FALSE ELSE force[q]]

(* The rest of refreshIfNeeded for a process whose memory is now m: return  *)
(* m, honour a cooldown, join the refresh in flight, or start one.          *)
ReturnAtOnce(r, f, m) ==
    /\ \/ ~f /\ UsableForLong(m)
       \/ outcome[Home[r]] = "cooling"
    /\ Resolve({r}, [force EXCEPT ![r] = f],
               IF ~f /\ Usable(m) THEN m ELSE NoToken, outcome[Home[r]])
    /\ UNCHANGED <<inFlight, cur, lock>>

JoinRefresh(r, f, m) ==
    /\ f \/ ~UsableForLong(m)
    /\ outcome[Home[r]] # "cooling"
    /\ inFlight[Home[r]] # NoOne
    /\ stage' = [stage EXCEPT ![r] = "joined"]
    /\ force' = [force EXCEPT ![r] = f]
    /\ UNCHANGED <<used, inFlight, cur, lock>>

StartRefresh(r, f, m) ==
    /\ stage' = [stage EXCEPT ![r] = "refresh"]
    /\ force' = [force EXCEPT ![r] = f]
    /\ inFlight' = [inFlight EXCEPT ![Home[r]] = r]
    /\ cur' = [cur EXCEPT ![r] = m]
    /\ L!Begin(r)
    /\ UNCHANGED used

\* Mutant of LeadRefresh: refreshPromise is not looked at.
LeadRefreshAnyway(r, f, m) ==
    /\ f \/ ~UsableForLong(m)
    /\ outcome[Home[r]] # "cooling"
    /\ StartRefresh(r, f, m)

\* Mutant of LeadRefresh: a forced refresh ignores the cooldown.
LeadRefreshForced(r, f, m) ==
    /\ f \/ ~UsableForLong(m)
    /\ f \/ outcome[Home[r]] # "cooling"
    /\ inFlight[Home[r]] = NoOne
    /\ StartRefresh(r, f, m)

LeadRefresh(r, f, m) ==
    /\ f \/ ~UsableForLong(m)
    /\ outcome[Home[r]] # "cooling"
    /\ inFlight[Home[r]] = NoOne
    /\ StartRefresh(r, f, m)

RefreshIfNeeded(r, f) ==
    LET m == Reread(Home[r]) IN
    /\ Ready(Home[r])
    /\ memory' = [memory EXCEPT ![Home[r]] = m]
    /\ ReturnAtOnce(r, f, m) \/ JoinRefresh(r, f, m) \/ LeadRefresh(r, f, m)
    /\ UNCHANGED <<world, outcome, late, got>>

(* ensureValidToken, from its caller or from its wait loop.                 *)
Ensure(r) == stage[r] = "idle" /\ RefreshIfNeeded(r, FALSE)
Poll(r) == stage[r] = "sleep" /\ RefreshIfNeeded(r, FALSE)

(* The deadline of the wait passes or the client goes away; the wait ends   *)
(* after the next poll.                                                     *)
WaitEnds(r) ==
    /\ stage[r] \in {"refresh", "rename", "release", "adopt", "joined", "sleep"}
    /\ ~force[r] /\ ~late[r]
    /\ late' = [late EXCEPT ![r] = TRUE]
    /\ UNCHANGED <<world, process, lock, stage, force, used, cur, got>>

(* callAnthropic reads the token it sends when the call starts, some awaits *)
(* after ensureValidToken has returned.                                     *)
Capture(r) ==
    /\ stage[r] = "served" /\ Ready(Home[r])
    /\ stage' = [stage EXCEPT ![r] = "using"]
    /\ used' = [used EXCEPT ![r] = memory[Home[r]]]
    /\ UNCHANGED <<world, process, lock, force, late, cur, got>>

(* After a 401 or a 429, reloadCredentialsFromSource finds a usable token   *)
(* in the file and the call goes on with it.                                *)
Reload(r) ==
    /\ stage[r] = "using" /\ Ready(Home[r]) /\ Usable(store)
    /\ memory' = [memory EXCEPT ![Home[r]] = store]
    /\ used' = [used EXCEPT ![r] = store]
    /\ UNCHANGED <<world, outcome, inFlight, lock, stage, force, late, cur, got>>

(* After a 401 with no other token in the file: forceRefresh.               *)
Recover(r) ==
    /\ stage[r] = "using"
    /\ ~(Usable(store) /\ store # used[r])
    /\ RefreshIfNeeded(r, TRUE)

(* The upstream call ends, or the client has its 401, 429 or 503.           *)
Finish(r) ==
    /\ stage[r] \in {"using", "refused"}
    /\ stage' = [stage EXCEPT ![r] = "idle"]
    /\ used' = [used EXCEPT ![r] = NoToken]
    /\ late' = [late EXCEPT ![r] = r \notin Patient]
    /\ UNCHANGED <<world, process, lock, force, cur, got>>

----------------------------------------------------------------------------
(* The refresh, run by the leading request.                                 *)

(* One file-system call of acquireRefreshLock.                              *)
LockStep(r) ==
    /\ stage[r] = "refresh"
    /\ \/ /\ L!Open(r) \/ L!Stat(r) \/ L!Unlink(r)
          /\ UNCHANGED mishaps
       \/ /\ L!OpenFails(r)
          /\ Suffers("unlocked")
    /\ UNCHANGED <<store, issued, live, closing, expired, parent, cli, process, request>>

(* The lock is another process's: waitForAdopt.                             *)
AwaitHolder(r) ==
    /\ stage[r] = "refresh"
    /\ L!TurnAway(r)
    /\ stage' = [stage EXCEPT ![r] = "adopt"]
    /\ UNCHANGED <<world, process, force, late, used, cur, got>>

(* External: the token endpoint exchanges a live refresh token, which dies. *)
Mint(r) ==
    /\ Posting(r) /\ got[r] = NoToken
    /\ cur[r] \in live /\ issued < MaxToken
    /\ issued' = issued + 1
    /\ got' = [got EXCEPT ![r] = issued + 1]
    /\ live' = (live \ {cur[r]}) \cup {issued + 1}
    /\ parent' = [parent EXCEPT ![issued + 1] = cur[r]]
    /\ UNCHANGED <<store, closing, expired, cli, mishaps, process, lock, stage, force, late, used, cur>>

(* The process has m in memory, and renames over the file or does not.      *)
TakeReply(r, m, swap) ==
    /\ Posting(r) /\ got[r] # NoToken /\ Usable(got[r])
    /\ memory' = [memory EXCEPT ![Home[r]] = m]
    /\ outcome' = [outcome EXCEPT ![Home[r]] = "clear"]
    /\ stage' = [stage EXCEPT ![r] = IF swap THEN "rename" ELSE "release"]
    /\ UNCHANGED <<world, inFlight, force, late, used, cur, got>>

\* Mutant of ReplyOk: the new token is not put in memory.
ReplyOkForgets(r) == TakeReply(r, memory[Home[r]], store = cur[r]) /\ UNCHANGED lock

\* Mutant of ReplyOk: the write-back's comparison is inverted.
ReplyOkInverted(r) == TakeReply(r, got[r], store # cur[r]) /\ UNCHANGED lock

\* Mutant of ReplyOk: the lock is left before the write-back.
ReplyOkUnlocks(r) ==
    /\ TakeReply(r, got[r], store = cur[r])
    /\ lockOwner' = NoOne /\ lockStale' = FALSE
    /\ UNCHANGED <<lockPc, attempt, crashes, takenOver>>

(* A usable new token arrives: memory takes it, and writeBackCredentials    *)
(* compares the file with the token that was exchanged.                     *)
ReplyOk(r) == TakeReply(r, got[r], store = cur[r]) /\ UNCHANGED lock

(* ... and, if it still held it, renames the new file over it.              *)
Rename(r) ==
    /\ stage[r] = "rename"
    /\ store' = got[r]
    /\ stage' = [stage EXCEPT ![r] = "release"]
    /\ UNCHANGED <<issued, live, closing, expired, parent, cli, mishaps, process, lock,
                   force, late, used, cur, got>>

RenameFails(r) ==
    /\ stage[r] = "rename"
    /\ Suffers("unwritten")
    /\ stage' = [stage EXCEPT ![r] = "release"]
    /\ UNCHANGED <<store, issued, live, closing, expired, parent, cli, process, lock,
                   force, late, used, cur, got>>

(* The refresh fails with oc: another writer's token is adopted after all,  *)
(* or a still usable current one is kept, unless it was rejected.           *)
RefreshFails(r, oc) ==
    /\ \/ /\ Usable(store) /\ store # cur[r]
          /\ memory' = [memory EXCEPT ![Home[r]] = store]
          /\ outcome' = [outcome EXCEPT ![Home[r]] = "clear"]
          /\ got' = [got EXCEPT ![r] = store]
       \/ /\ ~(Usable(store) /\ store # cur[r])
          /\ outcome' = [outcome EXCEPT ![Home[r]] = oc]
          /\ got' = [got EXCEPT ![r] =
                       IF ~force[r] /\ Usable(cur[r]) THEN cur[r] ELSE NoToken]
          /\ UNCHANGED memory
    /\ stage' = [stage EXCEPT ![r] = "release"]
    /\ UNCHANGED <<store, issued, live, closing, expired, parent, cli, inFlight, lock,
                   force, late, used, cur>>

(* The endpoint's answer is an error: invalid_grant for a dead refresh      *)
(* token, or a rate limit or the like, or none within the timeout.          *)
ReplyTerminal(r) ==
    /\ Posting(r) /\ got[r] = NoToken /\ cur[r] \notin live
    /\ RefreshFails(r, "terminal")
    /\ UNCHANGED mishaps

ReplyTransient(r) ==
    /\ Posting(r) /\ got[r] = NoToken
    /\ RefreshFails(r, "cooling")
    /\ UNCHANGED mishaps

(* The token was exchanged but the answer is lost: it comes after the       *)
(* timeout, does not parse, or holds a token that is not usable.            *)
ReplyLost(r) ==
    /\ Posting(r) /\ got[r] # NoToken
    /\ Suffers("lost")
    /\ RefreshFails(r, "cooling")

(* The requests that wait for the refresh of r.                             *)
Waiting(r) == {r} \cup {q \in RequestsOf(Home[r]) : stage[q] = "joined"}

(* The requests in S get v, and the process is free for its next refresh.   *)
EndRefresh(S, r, v, oc) ==
    /\ Resolve(S, force, v, oc)
    /\ inFlight' = [inFlight EXCEPT ![Home[r]] = NoOne]
    /\ cur' = [cur EXCEPT ![r] = NoToken]
    /\ got' = [got EXCEPT ![r] = NoToken]

\* Mutant of Settle: the requests that joined are not told.
SettleLeaderOnly(r, v, oc) == EndRefresh({r}, r, v, oc)

(* refreshPromise resolves with v and is reset.                             *)
Settle(r, v, oc) == EndRefresh(Waiting(r), r, v, oc)

(* The refresh is over: the lock is released.                               *)
Release(r) ==
    /\ stage[r] = "release"
    /\ L!Release(r)
    /\ Settle(r, got[r], outcome[Home[r]])
    /\ UNCHANGED <<world, memory, outcome, late>>

(* waitForAdopt: the holder's token shows up in the file, or five seconds   *)
(* pass without it.                                                         *)
AdoptStored(r) ==
    /\ stage[r] = "adopt" /\ Ready(Home[r])
    /\ Usable(store) /\ store # cur[r]
    /\ memory' = [memory EXCEPT ![Home[r]] = store]
    /\ outcome' = [outcome EXCEPT ![Home[r]] = "clear"]
    /\ Settle(r, store, "clear")
    /\ UNCHANGED <<world, lock, late>>

AdoptGivesUp(r) ==
    /\ stage[r] = "adopt" /\ Ready(Home[r])
    /\ ~(Usable(store) /\ store # cur[r])
    /\ Settle(r, IF ~force[r] /\ Usable(cur[r]) THEN cur[r] ELSE NoToken,
              outcome[Home[r]])
    /\ UNCHANGED <<world, memory, outcome, lock, late>>

----------------------------------------------------------------------------
(* The process's surroundings. *)

(* A process dies with its requests and what it had only in memory.         *)
Crash(p) ==
    /\ memory[p] # NoToken
    /\ Suffers("crash")
    /\ memory' = [memory EXCEPT ![p] = NoToken]
    /\ outcome' = [outcome EXCEPT ![p] = "clear"]
    /\ inFlight' = [inFlight EXCEPT ![p] = NoOne]
    /\ stage' = [r \in Request |-> IF Home[r] = p THEN "idle" ELSE stage[r]]
    /\ force' = [r \in Request |-> IF Home[r] = p THEN FALSE ELSE force[r]]
    /\ late' = [r \in Request |-> IF Home[r] = p THEN r \notin Patient ELSE late[r]]
    /\ used' = [r \in Request |-> IF Home[r] = p THEN NoToken ELSE used[r]]
    /\ cur' = [r \in Request |-> IF Home[r] = p THEN NoToken ELSE cur[r]]
    /\ got' = [r \in Request |-> IF Home[r] = p THEN NoToken ELSE got[r]]
    /\ L!Crash(RequestsOf(p))
    /\ UNCHANGED <<store, issued, live, closing, expired, parent, cli>>

(* readCredentials at boot: any token that parses will do.                  *)
Boot(p) ==
    /\ memory[p] = NoToken /\ store # NoToken
    /\ memory' = [memory EXCEPT ![p] = store]
    /\ UNCHANGED <<world, outcome, inFlight, request, lock>>

(* The cooldown of a transient failure runs out.                            *)
CooldownEnds(p) ==
    /\ outcome[p] = "cooling"
    /\ outcome' = [outcome EXCEPT ![p] = "transient"]
    /\ UNCHANGED <<world, memory, inFlight, request, lock>>

(* External: the CLI logs in, or refreshes the token in the file, and       *)
(* writes what it got some time later, perhaps not atomically.              *)
CliObtains(spent) ==
    /\ Suffers("cli")
    /\ cli = NoToken /\ issued < MaxToken
    /\ issued' = issued + 1
    /\ cli' = issued + 1
    /\ live' = (live \ spent) \cup {issued + 1}
    /\ parent' = [parent EXCEPT ![issued + 1] = IF spent = {} THEN NoToken ELSE store]
    /\ UNCHANGED <<store, closing, expired, process, request, lock>>

CliTears ==
    /\ cli # NoToken /\ store # NoToken
    /\ store' = NoToken
    /\ UNCHANGED <<issued, live, closing, expired, parent, cli, mishaps, process, request, lock>>

CliWrites ==
    /\ cli # NoToken
    /\ store' = cli
    /\ cli' = NoToken
    /\ UNCHANGED <<issued, live, closing, expired, parent, mishaps, process, request, lock>>

(* Time brings the oldest token that still has it nearer to its expiry.  A  *)
(* refresh, or the CLI's, takes seconds and a token lasts hours: none comes *)
(* near its expiry in a refresh that began before the token was issued.     *)
Unhurried(t) ==
    /\ \A r \in Request : Leading(r) => t <= cur[r]
    /\ cli # NoToken => t < cli

Closes ==
    /\ closing < issued /\ Unhurried(closing + 1)
    /\ closing' = closing + 1
    /\ UNCHANGED <<store, issued, live, expired, parent, cli, mishaps, process, request, lock>>

\* Mutant of Expires: the margins are swapped, a token becomes unusable
\* before it is due for a refresh.
ExpiresEarly ==
    /\ expired < issued /\ Unhurried(expired + 1)
    /\ expired' = expired + 1
    /\ UNCHANGED <<store, issued, live, closing, parent, cli, mishaps, process, request, lock>>

Expires ==
    /\ expired < closing /\ Unhurried(expired + 1)
    /\ expired' = expired + 1
    /\ UNCHANGED <<store, issued, live, closing, parent, cli, mishaps, process, request, lock>>

LockExpires == L!Expire /\ UNCHANGED <<world, process, request>>

----------------------------------------------------------------------------
Reply(r) == ReplyOk(r) \/ ReplyTerminal(r) \/ ReplyTransient(r) \/ ReplyLost(r)
WriteBack(r) == Rename(r) \/ RenameFails(r)
Adopt(r) == AdoptStored(r) \/ AdoptGivesUp(r)

RequestStep(r) ==
    \/ Ensure(r) \/ Poll(r) \/ WaitEnds(r) \/ Capture(r)
    \/ Reload(r) \/ Recover(r) \/ Finish(r)
    \/ LockStep(r) \/ AwaitHolder(r) \/ Mint(r) \/ Reply(r)
    \/ WriteBack(r) \/ Release(r) \/ Adopt(r)

ProcessStep(p) == Crash(p) \/ Boot(p) \/ CooldownEnds(p)

WorldStep ==
    \/ \E spent \in {{}, {store} \cap live} : CliObtains(spent)
    \/ CliTears \/ CliWrites
    \/ Closes \/ Expires \/ LockExpires

Next ==
    \/ \E r \in Request : RequestStep(r)
    \/ \E p \in Proc : ProcessStep(p)
    \/ WorldStep

SafetySpec == Init /\ [][Next]_vars

(* What the event loop, the abort timer of the token request (15 s), the    *)
(* deadline of waitForAdopt (5 s) and the deadline of ensureValidToken      *)
(* (45 s) guarantee.  A poll is a timer callback: the loop cannot starve    *)
(* it, though other requests may be running each time it is looked at.      *)
(* Nothing obliges a client to call, a token to expire, the CLI to move, a  *)
(* cooldown to end or the endpoint to be kind.                              *)
Fairness ==
    \A r \in Request :
        /\ WF_vars(LockStep(r)) /\ WF_vars(AwaitHolder(r))
        /\ WF_vars(Reply(r)) /\ WF_vars(WriteBack(r)) /\ WF_vars(Release(r))
        /\ WF_vars(Adopt(r))
        /\ WF_vars(WaitEnds(r)) /\ SF_vars(Poll(r))

Spec == SafetySpec /\ Fairness

----------------------------------------------------------------------------
WorldTypeOK ==
    /\ store \in 0..MaxToken
    /\ issued \in Token
    /\ live \subseteq Token
    /\ closing \in 0..issued /\ expired \in 0..closing
    /\ parent \in [Token -> 0..MaxToken]
    /\ cli \in 0..MaxToken
    /\ mishaps \subseteq Mishaps

ProcessTypeOK ==
    /\ memory \in [Proc -> 0..MaxToken]
    /\ outcome \in [Proc -> Outcome]
    /\ inFlight \in [Proc -> Request \cup {NoOne}]

RequestTypeOK ==
    /\ stage \in [Request -> Stage]
    /\ force \in [Request -> BOOLEAN]
    /\ late \in [Request -> BOOLEAN]
    /\ used \in [Request -> 0..MaxToken]
    /\ cur \in [Request -> 0..MaxToken]
    /\ got \in [Request -> 0..MaxToken]

(* The variables hold what the code can put there; in particular a token is *)
(* due for a refresh (usable for five minutes no more) before it is         *)
(* unusable, and the lock's part of the state is RefreshLock's.             *)
TypeOK == WorldTypeOK /\ ProcessTypeOK /\ RequestTypeOK /\ L!LockTypeOK

(* In-process single flight (credentials.ts:347): a process never runs two  *)
(* refreshes at once, through joins, resolutions, lock waits and crashes; a *)
(* second one would spend a refresh token the first has killed.             *)
SingleFlight ==
    \A r, q \in Request :
        Leading(r) /\ Leading(q) /\ Home[r] = Home[q] => r = q

(* No refresh is under way in a cooldown: none is begun in one, by whoever  *)
(* retries, and none still waits for the lock, the endpoint or another      *)
(* process's token when a failure begins one for its process.  The endpoint *)
(* is asked once a cooldown, not once per request that saw it fail.         *)
CooldownRespected ==
    \A r \in Request :
        stage[r] \in {"refresh", "rename", "adopt"} => outcome[Home[r]] # "cooling"

(* Rotation never leaves the shared file with a dead refresh token and no   *)
(* successor under way: unless an answer, a write-back or a process is      *)
(* lost, the file's token is live, or whoever spent it still has the token  *)
(* it got in exchange and is about to write it.                             *)
StoreKeepsGrant ==
    mishaps \cap {"lost", "unwritten", "crash"} = {} =>
        \/ store \in live \cup {NoToken}
        \/ cli # NoToken /\ parent[cli] = store
        \/ \E r \in Request : /\ stage[r] \in {"refresh", "rename"}
                              /\ got[r] # NoToken /\ parent[got[r]] = store

(* The two locks, the re-read and the write-back order do their job: while  *)
(* nothing goes wrong and no lock is taken over, no process ever concludes  *)
(* that its refresh token is dead, whatever the others exchange meanwhile.  *)
NoFalseTerminal ==
    mishaps = {} /\ ~takenOver => \A p \in Proc : outcome[p] # "terminal"

(* Nothing but time and a crash takes a usable token out of memory.         *)
MemoryKeepsWorking ==
    [][\A p \in Proc :
          Usable(memory[p]) /\ memory'[p] \notin {memory[p], NoToken}
              => memory'[p] > expired']_vars

(* ensureValidToken checks the token its refresh returned, its caller sends *)
(* the one in memory (getCredentials): when the former is usable, so is the *)
(* latter.                                                                  *)
ServedTokenWorks ==
    [][\A r \in Request :
          stage[r] # "served" /\ stage'[r] = "served"
              => memory'[Home[r]] > expired']_vars


(* A process goes back from a token to the one it was exchanged for.        *)
Relapses(p) == memory[p] # NoToken /\ memory'[p] # NoToken /\ memory'[p] = parent[memory[p]]

(* No process does: the comment at credentials.ts:330 has it that "a failed *)
(* write-back never resurrects the pre-refresh token".                      *)
NoRelapse == [][\A p \in Proc : ~Relapses(p)]_vars

(* ensureValidToken "throws CredentialsUnavailableError only when nothing   *)
(* usable is left" (credentials.ts:390).                                    *)
RefusedOnlyWithoutToken ==
    [][\A r \in Request :
          stage[r] # "refused" /\ stage'[r] = "refused" /\ ~force[r] /\ stage[r] # "using"
              => memory'[Home[r]] <= expired']_vars

(* Lock steps interleave with everything a process and its crashes do as    *)
(* RefreshLock says: a refresh enters, waits for, keeps and leaves the lock *)
(* in that order, and nothing but the lock's own calls touches its file.    *)
UsesLock == L!LockSafetySpec

(* Every request that waits for a token is answered: it gets one, or an     *)
(* error (or its process dies).                                             *)
Waits(r) == stage[r] \in {"refresh", "rename", "release", "adopt", "joined", "sleep"}
Answered == \A r \in Request : Waits(r) ~> ~Waits(r)
============================================================================
