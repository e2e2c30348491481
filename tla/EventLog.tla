------------------------------ MODULE EventLog ------------------------------
(***************************************************************************)
(* The event log: the table `events` that emit of                          *)
(* src/observability/logger.ts fills and never fails for, the requests     *)
(* whose middleware emits their start and end into it, and what is read of *)
(* it: the list with its filters (http/routes/telemetry/logs.ts), a        *)
(* request with its events (requests.ts), the export (export.ts) and the   *)
(* event counts of the metrics.                                            *)
(*                                                                         *)
(* A trace is the request's number.  A write to either table may fail, and *)
(* the request goes on.  Of what handlers and the process emit besides,    *)
(* the errors are modelled; information and warnings count nowhere but in  *)
(* the totals.                                                             *)
(***************************************************************************)
EXTENDS Paging, FiniteSets

CONSTANTS
    PageDefault,    \* the limit of a list that is not asked for one, 100
    PageMax,        \* the most a list answers, 1000
    ExportMax,      \* MAX_ROWS of the export, 100000
    Asked,          \* limits a client may ask for
    End,            \* ends of a request: the status recorded, whether the handler threw
    MaxRequests, MaxTroubles,   \* bounds: requests, errors of handlers' own,
    MaxFaults, MaxTime          \* failed writes, ticks

(* What a model's values of the constants satisfy.                          *)
ConstantsOK ==
    /\ {PageDefault, PageMax, ExportMax, MaxRequests, MaxTroubles, MaxFaults, MaxTime}
         \subseteq Nat
    /\ PageDefault <= PageMax /\ PageMax <= ExportMax /\ Asked \subseteq Int
    /\ \A end \in End : end.status \in Nat \ {0} /\ end.threw \in BOOLEAN

VARIABLES
    now,
    requests,       \* those that came: when, and their row's status, none or no row
    events,         \* the table `events`, by id
    \* history
    thrown,         \* requests whose handler threw
    ended,          \* requests that have ended
    troubles,       \* errors that handlers and the process emitted of their own
    unwritten,      \* writes of the table `requests` that failed
    lost            \* events whose insert failed

vars == <<now, requests, events, thrown, ended, troubles, unwritten, lost>>

NoRow == -2
NoStatus == -1
NoTrace == 0
Traced == DOMAIN requests

Init ==
    /\ now = 0 /\ requests = <<>> /\ events = <<>>
    /\ thrown = {} /\ ended = {} /\ troubles = 0 /\ unwritten = 0 /\ lost = 0

Tick ==
    /\ now < MaxTime
    /\ now' = now + 1
    /\ UNCHANGED <<requests, events, thrown, ended, troubles, unwritten, lost>>

----------------------------------------------------------------------------
(* Writing.  What fails of a handler's writes is a set of: the event, the   *)
(* write of the row, and the event that reports that one.                   *)

LoggedFailure ==
    {fail \in SUBSET {"event", "row", "report"} :
        /\ "report" \in fail => "row" \in fail
        /\ unwritten + lost + Cardinality(fail) <= MaxFaults}

Event(level, name, trace, status) ==
    [level |-> level, event |-> name, trace |-> trace, status |-> status, at |-> now]

\* Mutant of Emit: a write of the row that fails is not reported.
EmitUnreported(fail, event, write) ==
    /\ events' = events \o (IF "event" \in fail THEN <<>> ELSE <<event>>)
    /\ unwritten' = unwritten + Cardinality(fail \cap {"row"})
    /\ lost' = lost + Cardinality(fail \cap {"event", "report"})

(* insertEvent of what is emitted, then the write of the row; insertRequest *)
(* and updateRequest emit their own failure, in the request's trace.        *)
Emit(fail, event, write) ==
    /\ events' = events
         \o (IF "event" \in fail THEN <<>> ELSE <<event>>)
         \o (IF "row" \in fail /\ "report" \notin fail
             THEN <<Event("error", write, event.trace, NoStatus)>> ELSE <<>>)
    /\ unwritten' = unwritten + Cardinality(fail \cap {"row"})
    /\ lost' = lost + Cardinality(fail \cap {"event", "report"})

Start ==
    /\ Len(requests) < MaxRequests
    /\ \E fail \in LoggedFailure :
         /\ requests' = Append(requests, [at |-> now, status |-> IF "row" \in fail
                                                                 THEN NoRow ELSE NoStatus])
         /\ Emit(fail, Event("info", "start", Len(requests'), NoStatus), "insertRequest")
    /\ UNCHANGED <<now, thrown, ended, troubles>>

(* The row's update finds no row when its insert failed.                    *)
Finish(t, end) ==
    /\ t \notin ended
    /\ ended' = ended \cup {t}
    /\ thrown' = IF end.threw THEN thrown \cup {t} ELSE thrown
    /\ \E fail \in LoggedFailure :
         /\ requests' = IF "row" \in fail \/ requests[t].status = NoRow THEN requests
                        ELSE [requests EXCEPT ![t].status = end.status]
         /\ Emit(fail, IF end.threw THEN Event("error", "error", t, NoStatus)
                                    ELSE Event("info", "end", t, end.status), "updateRequest")
    /\ UNCHANGED <<now, troubles>>

(* A handler emits an error of its own, of upstream, a guard or a stream    *)
(* that breaks after the request ended; a timer of the process one without  *)
(* a request; and installGlobalHandlers a fatal one, of what nobody caught. *)
Trouble(t, level) ==
    /\ troubles < MaxTroubles
    /\ troubles' = troubles + 1
    /\ \E fail \in LoggedFailure \cap {{}, {"event"}} :
         Emit(fail, Event(level, "trouble", t, NoStatus), "none")
    /\ UNCHANGED <<now, requests, thrown, ended>>

Next ==
    \/ Tick \/ Start
    \/ \E t \in Traced, end \in End : Finish(t, end)
    \/ \E t \in Traced \cup {NoTrace}, level \in {"error", "fatal"} : Trouble(t, level)

Spec == Init /\ [][Next]_vars

----------------------------------------------------------------------------
(* Reading: buildEventWhere, and the routes over it.                        *)

NoFilters == [level |-> {}, trace |-> Absent, from |-> 0]

Where(f) ==
    SelectSeq(events, LAMBDA e : /\ f.level = {} \/ e.level \in f.level
                                 /\ f.trace \in {Absent, e.trace}
                                 /\ e.at >= f.from)
CountEvents(f) == Len(Where(f))
QueryEvents(f, page) == Paged(Where(f), page)
Logs(f, asked) ==
    LET page == Page(asked, PageDefault, PageMax)
    IN  [total |-> CountEvents(f), limit |-> page.limit, items |-> QueryEvents(f, page)]
Export(f, asked) == QueryEvents(f, Page(asked, ExportMax, ExportMax))

OfTrace(t) == [NoFilters EXCEPT !.trace = t]
Level(levels, from) == [NoFilters EXCEPT !.level = levels, !.from = from]

\* Mutant of Errors: a fatal event is no active error.
ErrorsNotFatal(from) == Level({"error"}, from)

Errors(from) == Level({"error", "fatal"}, from)

(* getRequestByTrace and the events of the trace.                           *)
RequestById(t) ==
    IF requests[t].status = NoRow THEN [found |-> FALSE]
    ELSE [found |-> TRUE, request |-> requests[t],
          events |-> QueryEvents(OfTrace(t),
                                 [limit |-> PageMax, offset |-> 0, order |-> "asc"])]

(* getMetrics' events_per_min, per window, and active_errors.               *)
EventCounts(window) ==
    [events |-> CountEvents([NoFilters EXCEPT !.from = now - window]),
     activeErrors |-> CountEvents(Errors(now - window))]

----------------------------------------------------------------------------
TypeOK ==
    /\ now \in 0..MaxTime /\ Len(requests) <= MaxRequests
    /\ ended \subseteq Traced /\ thrown \subseteq ended
    /\ unwritten + lost \in 0..MaxFaults
    /\ troubles \in 0..MaxTroubles
    /\ \A n \in DOMAIN events :
         events[n].trace \in Traced \cup {NoTrace} /\ events[n].at \in 0..now

(* A request whose row is missing, or was never given its end, has the      *)
(* failure of that write under its trace in the log, unless the log lost    *)
(* events itself: what the one table does not have, the other tells.        *)
FaultsTold ==
    LET told(t, write) ==
            \E n \in DOMAIN events : /\ events[n].level = "error" /\ events[n].trace = t
                                     /\ events[n].event = write
    IN  lost = 0 =>
            \A t \in Traced :
                /\ requests[t].status = NoRow => told(t, "insertRequest")
                /\ t \in ended /\ requests[t].status = NoStatus => told(t, "updateRequest")

(* A request and its events, read together, tell the same, and in order:    *)
(* when it began, and, once its row has an end, the same end, as long as    *)
(* the events of the trace are no more than the most that are read.         *)
RequestsAgree ==
    lost = 0 =>
        \A t \in Traced : RequestById(t).found =>
            LET told == RequestById(t)
            IN  /\ told.events[1].event = "start" /\ told.events[1].at = told.request.at
                /\ (told.request.status # NoStatus /\ CountEvents(OfTrace(t)) <= PageMax) =>
                     \E n \in DOMAIN told.events :
                        IF t \in thrown THEN told.events[n].event = "error"
                        ELSE told.events[n].status = told.request.status

(* The active errors of the metrics account for everything that went wrong, *)
(* each thrown request, each failed write and each error of a handler or    *)
(* the process once, but for lost events; the log's list of the level error *)
(* and that of the level fatal show them together, and neither alone.       *)
ErrorsCounted ==
    /\ \A w \in 0..MaxTime :
         LET listed(level) == Logs(Level({level}, now - w),
                                   [limit |-> 0, offset |-> 0, order |-> "desc"]).total
         IN  EventCounts(w).activeErrors = listed("error") + listed("fatal")
    /\ LET errors == EventCounts(MaxTime).activeErrors
           happened == Cardinality(thrown) + unwritten + troubles
       IN  errors <= happened /\ happened <= errors + lost

(* Whatever limit is asked for, and in either order, the log is paged       *)
(* through completely, to what the export gives.                            *)
LogComplete ==
    \A order \in {"asc", "desc"}, limit \in Asked, f \in {NoFilters, Errors(0), OfTrace(1)} :
        Complete(LAMBDA offset : Logs(f, [limit |-> limit, offset |-> offset, order |-> order]),
                 Export(f, [limit |-> Absent, offset |-> 0, order |-> order]), ExportMax)

(* However writes fail, the log agrees with the table of requests and with  *)
(* itself.                                                                  *)
LogAgrees == FaultsTold /\ RequestsAgree /\ ErrorsCounted /\ LogComplete
=============================================================================
