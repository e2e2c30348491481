----------------------------- MODULE MCProgress -----------------------------
(* The parts in which something must come about, one to a behaviour: the    *)
(* relay of an answer, the request records, the live view and the sessions  *)
(* of the dashboard, its loading, and the deployment.  The parts share no   *)
(* state, so a behaviour that interleaved two of them would show no more.   *)
EXTENDS StreamRelay, LiveView, Deploy, TLC

CONSTANTS t1, t2                    \* two requests

VARIABLES subject,
          proc, starts, stage, open, turn, rows, index, docs, main, fts,
          gap, missed, orderly, faults,
          recorded, listed, session, conversation, cache, refetching, shown,
          served, deploys, kept, tabs

storeVars == <<proc, starts, stage, open, turn, rows, index, docs, main, fts,
               gap, missed, orderly, faults>>
sessionVars == <<recorded, listed, session, conversation, cache, refetching, shown>>
serveVars == <<served, deploys, kept, tabs>>

MCTrace == {t1, t2}
MCKind == t1 :> "chatStream" @@ t2 :> "fim"
Store == INSTANCE RequestStore WITH
    Trace <- MCTrace, Kind <- MCKind, MaxStarts <- 2, MaxFaults <- 1

MCKey == {"k1"}
Session == INSTANCE Sessions WITH
    MaxRequests <- 3, MaxTime <- 2, FirstMessage <- MCKey, MaxIdle <- 1, ListLimit <- 2

MCTouchesDeps == {2}
MCTouchesUi == {3}
MCSound == {1, 2, 3}

(* A browser that takes brotli and a client that takes nothing, builds of   *)
(* which two have the same charts.                                          *)
MCTab == {"browser", "plain"}
MCAccepts == "browser" :> {"br", "gzip"} @@ "plain" :> {}
MCChunkOf == <<11, 11, 12>>
Served == INSTANCE Serving WITH
    dist <- served, cache <- kept, Tab <- MCTab, Accepts <- MCAccepts,
    ChunkOf <- MCChunkOf, MaxDeploys <- 2

ASSUME MCConstantsOK ==
    /\ Store!StoreConstantsOK /\ LiveConstantsOK /\ Session!SessionConstantsOK
    /\ Served!ConstantsOK /\ DeployConstantsOK

----------------------------------------------------------------------------
MCInit ==
    /\ subject \in {"relay", "store", "live", "session", "deploy", "serving"}
    /\ Init /\ Store!StoreInit /\ LiveInit /\ Session!SessionInit /\ DeployInit
    /\ Served!Init /\ (subject = "serving" \/ served = 1)

MCRelay ==
    /\ subject = "relay"
    /\ UNCHANGED <<subject, storeVars, liveVars, sessionVars, deployVars, serveVars>>
    /\ Next

MCStore ==
    /\ subject = "store"
    /\ UNCHANGED <<subject, vars, liveVars, sessionVars, deployVars, serveVars>>
    /\ Store!StoreNext

MCLive ==
    /\ subject = "live"
    /\ UNCHANGED <<subject, vars, storeVars, sessionVars, deployVars, serveVars>>
    /\ LiveNext

MCSession ==
    /\ subject = "session"
    /\ UNCHANGED <<subject, vars, storeVars, liveVars, deployVars, serveVars>>
    /\ Session!SessionNext

MCDeploy ==
    /\ subject = "deploy"
    /\ UNCHANGED <<subject, vars, storeVars, liveVars, sessionVars, serveVars>>
    /\ DeployNext

MCServing ==
    /\ subject = "serving"
    /\ UNCHANGED <<subject, vars, storeVars, liveVars, sessionVars, deployVars>>
    /\ Served!Next

MCNext == MCRelay \/ MCStore \/ MCLive \/ MCSession \/ MCDeploy \/ MCServing

(* The fairness of the parts, for the part that the behaviour is about.     *)
MCSpec ==
    /\ MCInit
    /\ [][MCNext]_<<subject, vars, storeVars, liveVars, sessionVars, deployVars, serveVars>>
    /\ WF_vars(subject = "relay" /\ Loop)
    /\ WF_vars(subject = "relay" /\ ReadDone /\ cancels > 0)
    /\ WF_vars(subject = "relay" /\ GraceEnds)
    /\ WF_vars(subject = "relay" /\ ForceTimer)
    /\ WF_storeVars(subject = "store" /\ Store!Statement)
    /\ WF_storeVars(subject = "store" /\ Store!ForceClose)
    /\ WF_sessionVars(subject = "session" /\ Session!PollList)
    /\ WF_sessionVars(subject = "session" /\ Session!PollTurns)
    /\ \A r \in 1..3 :
         /\ WF_sessionVars(subject = "session" /\ Session!RefetchAnswers(r))
         /\ WF_sessionVars(subject = "session" /\ Session!Collect(r))
    /\ WF_deployVars(subject = "deploy" /\ Step)
    /\ \A t \in MCTab : /\ WF_serveVars(subject = "serving" /\ Served!ImportCharts(t))
                       /\ WF_serveVars(subject = "serving" /\ Served!Reload(t))

MCTypeOK ==
    CASE subject = "relay"   -> TypeOK
      [] subject = "store"   -> Store!StoreTypeOK
      [] subject = "live"    -> LiveTypeOK
      [] subject = "session" -> Session!SessionTypeOK
      [] subject = "deploy"  -> DeployTypeOK
      [] subject = "serving" -> Served!TypeOK

(* The properties of the parts that are instantiated, as their modules state *)
(* them; those of the others are in scope and hold where nothing moves.     *)
ShutdownEnds == Store!ShutdownEnds
ShownWholeInTheEnd == Session!ShownWholeInTheEnd
DashboardLoads == subject = "serving" => Served!DashboardLoads
=============================================================================
