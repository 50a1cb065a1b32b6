------------------------------ MODULE Metrics ------------------------------
(***************************************************************************)
(* metric/metric.go and metric/recorder.go: the collectors are package     *)
(* globals that every Recorder registers anew, under the name of its       *)
(* service, and that the middlewares of all Recorders report to.  main     *)
(* makes Recorders and (re)initializes the logger (Logging) one after the  *)
(* other; requests are served meanwhile.                                   *)
(*                                                                         *)
(* A collector is named by the Recorder that made it and by its metric, so *)
(* that the Recorder's number also stands for the buckets it asked for.    *)
(***************************************************************************)
EXTENDS Logging, Sequences

CONSTANTS Services,      \* service names given to Recorder
          Invalid,       \* those of which Prometheus accepts no metric name
          MaxRecorders   \* bound: calls of Recorder

ASSUME MetricsAssumption == Invalid \subseteq Services /\ MaxRecorders \in Nat

\* The order in which registerMetrics registers, and Recorder reports.
Registered == <<"total", "duration", "requestSize", "responseSize">>
Reported == <<"total", "requestSize", "responseSize", "duration">>
Metric == {"total", "duration", "requestSize", "responseSize"}
None == 0

VARIABLES
  recorders,  \* the service of each call of Recorder
  at,         \* how many metrics the current call has registered
  collector,  \* the globals: whose collector each metric reports to
  registry,   \* the collectors Prometheus exposes
  req         \* the request that is being recorded

metricVars == <<recorders, at, collector, registry, req>>
vars == <<logVars, metricVars>>

NoRequest == [by |-> None, sends |-> {}, next |-> Len(Reported) + 1,
              to |-> [m \in Metric |-> None], overlapped |-> FALSE]

Init ==
  /\ LogInit
  /\ recorders = <<>> /\ at = 0
  /\ collector = [m \in Metric |-> None]
  /\ registry = {}
  /\ req = NoRequest

----------------------------------------------------------------------------
(* Main makes a Recorder. *)

Recorder(service) ==
  /\ step = "idle" /\ Len(recorders) < MaxRecorders
  /\ recorders' = Append(recorders, service)
  /\ at' = 0
  /\ step' = "registerMetrics"
  /\ req' = [req EXCEPT !.overlapped = TRUE]
  /\ UNCHANGED <<level, logger, asked, muted, msg, collector, registry>>

\* prometheus.Register refuses a collector of a registered name and labels and
\* hands out the registered one: AlreadyRegisteredError.ExistingCollector.
Existing(service, metric) ==
  {i \in DOMAIN recorders : recorders[i] = service /\ <<i, metric>> \in registry}

\* Mutant: Register returns the collector it was given.
RegisterOwn(i, metric) ==
  /\ collector' = [collector EXCEPT ![metric] = i]
  /\ registry' = IF Existing(recorders[i], metric) = {} THEN registry \cup {<<i, metric>>}
                 ELSE registry
  /\ UNCHANGED step

\* Mutant: a global that is set is left alone.
RegisterOnce(i, metric) ==
  /\ IF collector[metric] = None
     THEN collector' = [collector EXCEPT ![metric] = i] /\ registry' = registry \cup {<<i, metric>>}
     ELSE UNCHANGED <<collector, registry>>
  /\ UNCHANGED step

\* Register: what ends up in the global, and in Prometheus.
Register(i, metric) ==
  LET existing == Existing(recorders[i], metric) IN
  \/ \E j \in existing :
       collector' = [collector EXCEPT ![metric] = j] /\ UNCHANGED <<registry, step>>
  \/ /\ existing = {} /\ recorders[i] \notin Invalid
     /\ registry' = registry \cup {<<i, metric>>}
     /\ collector' = [collector EXCEPT ![metric] = i]
     /\ UNCHANGED step
  \/ /\ recorders[i] \in Invalid /\ Panics
     /\ step' = "dead"
     /\ UNCHANGED <<collector, registry>>
  \/ /\ recorders[i] \in Invalid /\ ~Panics
     /\ collector' = [collector EXCEPT ![metric] = i]
     /\ UNCHANGED <<registry, step>>

registerMetrics ==
  /\ step = "registerMetrics" /\ at < Len(Registered)
  /\ Register(Len(recorders), Registered[at + 1])
  /\ at' = at + 1
  /\ UNCHANGED <<level, logger, asked, muted, msg, recorders, req>>

RecorderReturns ==
  /\ step = "registerMetrics" /\ at = Len(Registered)
  /\ step' = "idle"
  /\ UNCHANGED <<level, logger, asked, muted, msg, metricVars>>

----------------------------------------------------------------------------
(* The middleware of Recorder i, after the handlers below it returned. *)

Returned == {i \in DOMAIN recorders : step # "registerMetrics" \/ i < Len(recorders)}

\* labelsVal, entityVal: a controller not called ...Controller has no entity and
\* nothing is reported; the size of an empty response is not.
Record(i, entity, length) ==
  /\ req.next > Len(Reported)
  /\ req' = [NoRequest EXCEPT
       !.by = i, !.next = 1, !.overlapped = step = "registerMetrics",
       !.sends = IF ~entity THEN {}
                 ELSE IF length > 0 THEN Metric ELSE Metric \ {"responseSize"}]

\* reportRequestsTotal, reportRequestSize, reportResponseSize,
\* reportRequestDuration: each reads its global.
Report ==
  /\ req.next <= Len(Reported)
  /\ LET metric == Reported[req.next] IN
     req' = [req EXCEPT !.next = @ + 1,
               !.to[metric] = IF metric \in req.sends THEN collector[metric] ELSE None]

Serve ==
  /\ step # "dead"
  /\ \/ \E i \in Returned, entity \in BOOLEAN, length \in 0..1 : Record(i, entity, length)
     \/ Report
  /\ UNCHANGED <<logVars, recorders, at, collector, registry>>

Next ==
  \/ (Main \/ \E g \in Goroutines : Log(g)) /\ UNCHANGED metricVars
  \/ \E service \in Services : Recorder(service)
  \/ registerMetrics
  \/ RecorderReturns
  \/ Serve

Spec == Init /\ [][Next]_vars

----------------------------------------------------------------------------
\* Type invariant.
TypeOK ==
  /\ LogTypeOK
  /\ step \in {"idle", "SetLevel", "logger.Level", "registerMetrics", "dead"}
  /\ recorders \in Seq(Services) /\ Len(recorders) <= MaxRecorders
  /\ at \in 0..Len(Registered)
  /\ collector \in [Metric -> 0..Len(recorders)]
  /\ registry \subseteq (1..Len(recorders)) \X Metric
  /\ req \in [by : 0..Len(recorders), sends : SUBSET Metric, next : 1..Len(Reported) + 1,
              to : [Metric -> 0..Len(recorders)], overlapped : BOOLEAN]

Done(metric) == \E n \in 1..(req.next - 1) : Reported[n] = metric

\* Every report of a request reaches a collector, one that Prometheus exposes,
\* and that has the buckets of the first Recorder of its name; collectors nobody
\* sees exist only if some InitializeLogger asked for a level below Error, since
\* then log.Panic returns and Register hands out the refused collector
\* (metric.go:112-125, log.go:234).
ReportsAreExposed ==
  \A m \in req.sends : Done(m) =>
    LET i == req.to[m] IN
    /\ i # None
    /\ IF <<i, m>> \in registry
       THEN \A j \in 1..(i - 1) : recorders[j] # recorders[i]
       ELSE muted /\ recorders[i] \in Invalid

\* A Recorder made later takes over the requests of the earlier ones, whatever
\* its service; apart from that a request is counted for its own service, and
\* unless a call of Recorder overlaps it, all its reports go to one service
\* (metric.go:64-106).
ReportsGoForward ==
  /\ \A m \in Metric : req.to[m] # None =>
       \E j \in req.by .. Len(recorders) : recorders[j] = recorders[req.to[m]]
  /\ ~req.overlapped => \A m, n \in Metric : None \notin {req.to[m], req.to[n]} =>
       recorders[req.to[m]] = recorders[req.to[n]]
============================================================================
