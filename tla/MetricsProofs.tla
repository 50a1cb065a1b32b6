--------------------------- MODULE MetricsProofs ---------------------------
(* Proofs about Metrics and Logging.                                       *)
EXTENDS Metrics, TLAPS

----------------------------------------------------------------------------
(* Logging *)

Initializing == {"SetLevel", "logger.Level"}

\* Outside InitializeLogger the library's logger has the level asked for, and
\* the standard logger writes errors if that level includes them.
Settled ==
  /\ step \notin Initializing =>
       level[logger] = asked /\ (asked >= ErrorLevel => level[Std] >= ErrorLevel)
  /\ step = "logger.Level" => level[Std] = asked

\* What is known of a message no InitializeLogger overlaps.
Undisturbed(g) ==
  /\ msg[g].state \in {"asked", "entry"} =>
       step \notin Initializing /\ msg[g].asked = asked /\ asked >= msg[g].severity
  /\ msg[g].state = "entry" =>
       msg[g].to = IF msg[g].severity = ErrorLevel THEN Std ELSE logger
  /\ msg[g].state \in {"written", "dropped"} =>
       (msg[g].state = "written" <=> msg[g].asked >= msg[g].severity)

LogInv ==
  /\ LogTypeOK
  /\ Settled
  /\ asked < ErrorLevel => muted
  /\ \A g \in Goroutines : /\ msg[g].severity >= ErrorLevel
                           /\ ~msg[g].overlapped => Undisturbed(g)

\* The library's logger is never logrus's standard logger.
LEMMA TwoLoggers == LogTypeOK => logger # Std /\ logger \in Loggers /\ Std \in Loggers
BY LoggingAssumption DEF LogTypeOK, Loggers, Std

\* What ParseLevel and its fallback give is a level.
LEMMA ParsedIsLevel == ASSUME NEW given, NEW fallback \in Level PROVE Parsed(given, fallback) \in Level
BY DEF Parsed

Messages ==
  [state : {"none", "asked", "entry", "written", "dropped"}, severity : Level,
   asked : Level, to : Loggers, overlapped : BOOLEAN]

\* A goroutine that has logged nothing.
LEMMA QuietMessage == Quiet \in Messages
BY LoggingAssumption
DEF Messages, Quiet, Loggers, Std, Level, ErrorLevel, InfoLevel, DebugLevel

\* The logger of the package initialization has the level of the environment.
LEMMA LogInitially == LogInit => LogInv
<1> SUFFICES ASSUME LogInit PROVE LogInv
  OBVIOUS
<1>1. asked \in Level
  BY ParsedIsLevel DEF LogInit, getDefaultLogLevel, Level, InfoLevel, DebugLevel
<1>2. 0 \in Loggers /\ Std \in Loggers /\ Std # 0 /\ 0 \in 0..MaxInits
  BY LoggingAssumption DEF Loggers, Std
<1>3. level \in [Loggers -> Level] /\ level[logger] = asked /\ level[Std] = InfoLevel
  BY <1>1, <1>2 DEF LogInit, Level, InfoLevel, DebugLevel
<1>4. msg \in [Goroutines -> Messages]
  BY QuietMessage DEF LogInit
<1>5. muted \in BOOLEAN /\ (asked < ErrorLevel => muted)
  <2>1. CASE asked < ErrorLevel
    BY <2>1 DEF LogInit
  <2>2. CASE ~(asked < ErrorLevel)
    BY <2>2 DEF LogInit
  <2>. QED
    BY <2>1, <2>2
<1>6. LogTypeOK
  BY <1>1, <1>2, <1>3, <1>4, <1>5 DEF LogTypeOK, LogInit, Messages
<1>7. Settled
  BY <1>3 DEF Settled, LogInit, Initializing, ErrorLevel, InfoLevel
<1>8. \A g \in Goroutines : msg[g].severity >= ErrorLevel /\ Undisturbed(g)
  <2>1. Quiet.state = "none" /\ Quiet.severity = ErrorLevel
    BY DEF Quiet
  <2>2. msg = [g \in Goroutines |-> Quiet]
    BY DEF LogInit
  <2>3. \A g \in Goroutines : msg[g].state = "none" /\ msg[g].severity = ErrorLevel
    BY <2>1, <2>2
  <2>4. \A g \in Goroutines : Undisturbed(g)
    BY <2>3 DEF Undisturbed
  <2>5. ErrorLevel >= ErrorLevel
    BY DEF ErrorLevel
  <2>. QED
    BY <2>3, <2>4, <2>5
<1>. QED
  BY <1>5, <1>6, <1>7, <1>8 DEF LogInv

\* InitializeLogger: every message under way is marked.
LEMMA InitializeStep ==
  ASSUME LogInv, NEW given, InitializeLogger(given) PROVE LogInv'
<1>1. asked' \in Level /\ logger' \in 0..MaxInits
  BY ParsedIsLevel, LoggingAssumption
  DEF InitializeLogger, Level, ErrorLevel, DebugLevel, LogInv, LogTypeOK
<1>2. msg' \in [Goroutines ->
       [state : {"none", "asked", "entry", "written", "dropped"}, severity : Level,
        asked : Level, to : Loggers, overlapped : BOOLEAN]]
  BY DEF InitializeLogger, LogInv, LogTypeOK
<1>3. \A g \in Goroutines : msg'[g].severity = msg[g].severity /\ msg'[g].overlapped
  BY DEF InitializeLogger, LogInv, LogTypeOK
<1>4. muted' \in BOOLEAN /\ (asked' < ErrorLevel => muted')
  BY DEF InitializeLogger
<1>5. LogTypeOK'
  BY <1>1, <1>2, <1>4 DEF LogTypeOK, LogInv, InitializeLogger
<1>6. Settled'
  BY DEF Settled, InitializeLogger, Initializing
<1>. QED
  BY <1>3, <1>4, <1>5, <1>6 DEF LogInv

\* The rest of main's steps that concern the levels.
LEMMA LevelStep ==
  ASSUME LogInv,
         \/ SetStandardLevel \/ SetLoggerLevel
         \/ \E given \in Given, json \in BOOLEAN : NewCustomizedLogger(given, json)
  PROVE  LogInv'
<1>0. logger # Std /\ logger \in Loggers /\ Std \in Loggers
  BY TwoLoggers DEF LogInv
<1>1. level' \in [Loggers -> Level] /\ UNCHANGED <<logger, asked, muted, msg>>
  BY DEF SetStandardLevel, SetLoggerLevel, NewCustomizedLogger, LogInv, LogTypeOK,
         Level, InfoLevel, DebugLevel
<1>2. LogTypeOK'
  BY <1>1 DEF LogInv, LogTypeOK
<1>3. Settled'
  <2>1. CASE SetStandardLevel
    BY <1>0, <2>1 DEF SetStandardLevel, Settled, LogInv, LogTypeOK, Initializing
  <2>2. CASE SetLoggerLevel
    BY <1>0, <2>2 DEF SetLoggerLevel, Settled, LogInv, LogTypeOK, Initializing
  <2>3. CASE \E given \in Given, json \in BOOLEAN : NewCustomizedLogger(given, json)
    BY <1>0, <2>3 DEF NewCustomizedLogger, Settled, LogInv, LogTypeOK, Initializing,
                      ErrorLevel, InfoLevel, DebugLevel
  <2>. QED
    BY <2>1, <2>2, <2>3
<1>4. \A g \in Goroutines : Undisturbed(g) => Undisturbed(g)'
  BY <1>1 DEF SetStandardLevel, SetLoggerLevel, NewCustomizedLogger, Undisturbed, Initializing
<1>. QED
  BY <1>1, <1>2, <1>3, <1>4 DEF LogInv

\* Logging a message.
LEMMA MessageStep ==
  ASSUME LogInv, NEW g \in Goroutines, Log(g) PROVE LogInv'
<1>0. logger # Std /\ logger \in Loggers /\ Std \in Loggers
  BY TwoLoggers DEF LogInv
<1>1. UNCHANGED <<level, logger, step, asked, muted>>
  BY DEF Log
<1>2. \A h \in Goroutines \ {g} : msg'[h] = msg[h]
  BY DEF Log, Ask, Entry, Write, LogInv, LogTypeOK
<1>3. \A h \in Goroutines \ {g} : Undisturbed(h) => Undisturbed(h)'
  BY <1>1, <1>2 DEF Undisturbed
<1>4. ASSUME NEW severity \in Severities, Ask(g, severity) PROVE LogInv'
  <2>1. severity \in Level /\ severity >= ErrorLevel
    BY LoggingAssumption DEF Level, ErrorLevel, DebugLevel
  <2>2. /\ msg'[g].state = IF level[logger] >= severity THEN "asked" ELSE "dropped"
        /\ msg'[g].severity = severity
        /\ msg'[g].asked = asked
    BY <1>4 DEF Ask, Quiet, LogInv, LogTypeOK
  <2> DEFINE now == step \in Initializing
             asking == [Quiet EXCEPT
               !.state = IF level[logger] >= severity THEN "asked" ELSE "dropped",
               !.severity = severity, !.asked = asked, !.overlapped = now]
  <2>a. msg' = [msg EXCEPT ![g] = asking]
    BY <1>4, Zenon DEF Ask, Initializing
  <2>c. now \in BOOLEAN /\ (now = FALSE => step \notin Initializing)
    BY SMT
  <2> HIDE DEF now
  <2>b. asking \in Messages
    BY <2>1, <2>c, QuietMessage DEF LogInv, LogTypeOK, Messages
  <2>d. asking.overlapped = now
    BY <2>c, QuietMessage DEF Messages
  <2> HIDE DEF asking
  <2>3. LogTypeOK'
    BY <1>1, <2>a, <2>b DEF LogInv, LogTypeOK, Messages
  <2>4. ~msg'[g].overlapped => step \notin Initializing
    <3>1. msg'[g] = asking
      BY <2>a DEF LogInv, LogTypeOK
    <3>. QED
      BY <2>c, <2>d, <3>1
  <2>5. step \notin Initializing => Undisturbed(g)'
    <3> SUFFICES ASSUME step \notin Initializing PROVE Undisturbed(g)'
      OBVIOUS
    <3>1. level[logger] = asked /\ asked \in Level
      BY DEF LogInv, Settled, LogTypeOK
    <3>. QED
      BY <1>1, <2>1, <2>2, <3>1 DEF Undisturbed, Level, DebugLevel
  <2>. QED
    BY <1>1, <1>2, <1>3, <2>1, <2>2, <2>3, <2>4, <2>5 DEF LogInv, Settled
<1>5. CASE Entry(g)
  <2>1. msg'[g] = [msg[g] EXCEPT !.state = "entry",
                     !.to = IF msg[g].severity = ErrorLevel THEN Std ELSE logger]
    BY <1>5 DEF Entry, LogInv, LogTypeOK
  <2>2. LogTypeOK'
    <3>1. msg[g] \in Messages /\ msg \in [Goroutines -> Messages] /\ logger \in Loggers /\ Std \in Loggers
      BY TwoLoggers DEF LogInv, LogTypeOK, Messages
    <3> DEFINE to == IF msg[g].severity = ErrorLevel THEN Std ELSE logger
    <3>a. to \in Loggers
      BY <3>1
    <3>b. msg'[g] = [msg[g] EXCEPT !.state = "entry", !.to = to]
      BY <2>1
    <3> HIDE DEF to
    <3>2. msg'[g] \in Messages
      BY <3>1, <3>a, <3>b DEF Messages
    <3>3. msg' \in [Goroutines -> Messages]
      BY <1>5, <2>1, <3>1, <3>2, Zenon DEF Entry
    <3>. QED
      BY <1>1, <3>3 DEF LogInv, LogTypeOK, Messages
  <2>3. /\ msg'[g].overlapped = msg[g].overlapped /\ msg'[g].severity = msg[g].severity
        /\ Undisturbed(g) => Undisturbed(g)'
    BY <1>1, <1>5, <2>1 DEF Entry, LogInv, LogTypeOK, Undisturbed
  <2>. QED
    BY <1>1, <1>2, <1>3, <2>2, <2>3 DEF LogInv, Settled
<1>6. CASE Write(g)
  <2>1. msg'[g] = [msg[g] EXCEPT !.state =
               IF level[msg[g].to] >= msg[g].severity THEN "written" ELSE "dropped"]
    BY <1>6 DEF Write, LogInv, LogTypeOK
  <2>2. LogTypeOK'
    BY <1>1, <1>6 DEF Write, LogInv, LogTypeOK
  <2>3. msg'[g].overlapped = msg[g].overlapped /\ msg'[g].severity = msg[g].severity
    BY <2>1 DEF LogInv, LogTypeOK
  <2>4. Undisturbed(g) => Undisturbed(g)'
    <3> SUFFICES ASSUME Undisturbed(g) PROVE Undisturbed(g)'
      OBVIOUS
    <3>1. msg[g].severity \in Level /\ msg[g].severity >= ErrorLevel /\ asked \in Level
      BY DEF LogInv, LogTypeOK
    <3>2. step \notin Initializing /\ msg[g].asked = asked /\ asked >= msg[g].severity
      BY <1>6 DEF Write, Undisturbed
    <3>3. level[logger] = asked /\ level[Std] >= ErrorLevel
      BY <3>1, <3>2 DEF LogInv, Settled, Level, ErrorLevel, DebugLevel
    <3>4. level[msg[g].to] >= msg[g].severity
      BY <1>6, <3>1, <3>2, <3>3 DEF Write, Undisturbed
    <3>5. msg'[g].state = "written" /\ msg'[g].asked >= msg'[g].severity
      BY <2>1, <3>2, <3>4 DEF LogInv, LogTypeOK
    <3>. QED
      BY <3>5 DEF Undisturbed
  <2>. QED
    BY <1>1, <1>2, <1>3, <2>2, <2>3, <2>4 DEF LogInv, Settled
<1>. QED
  BY <1>4, <1>5, <1>6 DEF Log

\* Main's other steps leave the loggers alone.
LEMMA LogStutter ==
  ASSUME LogInv, step \notin Initializing, step' \notin Initializing,
         UNCHANGED <<level, logger, asked, muted, msg>>
  PROVE  LogInv'
<1>1. LogTypeOK' /\ Settled'
  BY DEF LogInv, LogTypeOK, Settled, Initializing
<1>2. \A g \in Goroutines : Undisturbed(g) => Undisturbed(g)'
  BY DEF Undisturbed
<1>. QED
  BY <1>1, <1>2 DEF LogInv

----------------------------------------------------------------------------
(* Metrics: what a step of main or of a goroutine that logs does to them. *)

\* All four metrics are registered, and all four are reported.
LEMMA FourMetrics ==
  /\ Len(Registered) = 4 /\ Len(Reported) = 4
  /\ \A n \in 1..4 : Registered[n] \in Metric /\ Reported[n] \in Metric
  /\ \A m \in Metric : \E n \in 1..4 : Registered[n] = m
BY DEF Registered, Reported, Metric

\* The metrics the current, or last, call of Recorder has registered.
SoFar == {Registered[n] : n \in 1..at}

\* The Recorder a metric belongs to.
Current(m) == IF m \in SoFar THEN Len(recorders) ELSE Len(recorders) - 1

\* Every metric is registered one step after the other.
LEMMA SoFarGrows ==
  /\ at = 0 => SoFar = {}
  /\ at = 4 => SoFar = Metric
  /\ at \in 0..3 /\ at' = at + 1 =>
       SoFar' = SoFar \cup {Registered[at + 1]} /\ Registered[at + 1] \in Metric
  /\ at' = at => SoFar' = SoFar
  /\ at' = 0 => SoFar' = {}
<1>1. at = 0 => SoFar = {}
  BY DEF SoFar
<1>2. at = 4 => SoFar = Metric
  BY FourMetrics DEF SoFar
<1>3. ASSUME at \in 0..3, at' = at + 1
      PROVE  SoFar' = SoFar \cup {Registered[at + 1]} /\ Registered[at + 1] \in Metric
  <2>1. 1..at' = 1..at \cup {at + 1} /\ at + 1 \in 1..4
    BY <1>3
  <2>2. SoFar' = {Registered[n] : n \in 1..at'}
    BY DEF SoFar
  <2>. QED
    BY <2>1, <2>2, FourMetrics DEF SoFar
<1>4. at' = at => SoFar' = SoFar
  BY DEF SoFar
<1>5. at' = 0 => SoFar' = {}
  BY DEF SoFar
<1>. QED
  BY <1>1, <1>2, <1>3, <1>4, <1>5

Hidden(i) == muted /\ recorders[i] \in Invalid
First(i) == \A j \in 1..(i - 1) : recorders[j] # recorders[i]
Exposed(i, m) == IF <<i, m>> \in registry THEN First(i) ELSE Hidden(i)

RegistryInv ==
  /\ \A i \in DOMAIN recorders, m \in Metric :
       <<i, m>> \in registry => First(i) /\ recorders[i] \notin Invalid
  /\ step # "dead" => \A i \in DOMAIN recorders, m \in Metric :
       (i < Len(recorders) \/ m \in SoFar) /\ recorders[i] \notin Invalid =>
         Existing(recorders[i], m) # {}
  /\ step \in Initializing \cup {"idle"} => recorders = <<>> \/ at = 4
  /\ step = "registerMetrics" => Len(recorders) >= 1

Belongs(m) ==
  /\ collector[m] # None /\ Exposed(collector[m], m)
  /\ recorders[collector[m]] = recorders[Current(m)]

CollectorInv ==
  step # "dead" =>
    \A m \in Metric : IF Len(recorders) > 1 \/ m \in SoFar THEN Belongs(m)
                      ELSE collector[m] = None

RequestInv ==
  /\ req.sends # {} => req.by >= 1 /\ (req.by < Len(recorders) \/ at = 4)
  /\ \A m \in req.sends : Done(m) => req.to[m] # None
  /\ \A m \in Metric : req.to[m] # None =>
       /\ Exposed(req.to[m], m)
       /\ \E j \in 1..Len(recorders) : j >= req.by /\ recorders[j] = recorders[req.to[m]]
  /\ ~req.overlapped =>
       /\ step # "registerMetrics"
       /\ \A m \in Metric : req.to[m] # None =>
            recorders[req.to[m]] = recorders[Len(recorders)]

MetricsInv == TypeOK /\ LogInv /\ RegistryInv /\ CollectorInv /\ RequestInv

\* The invariant implies the two properties of the reports.
LEMMA InvImplies == MetricsInv => ReportsAreExposed /\ ReportsGoForward
<1> SUFFICES ASSUME MetricsInv PROVE ReportsAreExposed /\ ReportsGoForward
  OBVIOUS
<1>1. req.sends \subseteq Metric /\ req.to \in [Metric -> 0..Len(recorders)]
  BY DEF MetricsInv, TypeOK
<1>2. ReportsAreExposed
  BY <1>1 DEF MetricsInv, RequestInv, ReportsAreExposed, Exposed, First, Hidden
<1>3. ReportsGoForward
  BY <1>1 DEF MetricsInv, RequestInv, ReportsGoForward
<1>. QED
  BY <1>2, <1>3

\* Nothing has been registered or recorded.
LEMMA MetricsInitially == Init => MetricsInv
<1> SUFFICES ASSUME Init PROVE MetricsInv
  OBVIOUS
<1>1. LogInv
  BY LogInitially DEF Init
<1>2. NoRequest.sends = {} /\ NoRequest.to = [m \in Metric |-> None] /\ NoRequest.by = 0
         /\ NoRequest.next = 5 /\ NoRequest.overlapped = FALSE
  BY FourMetrics DEF NoRequest, None
<1>3. NoRequest \in [by : {0}, sends : SUBSET Metric, next : 1..5,
                     to : [Metric -> {0}], overlapped : BOOLEAN]
  BY FourMetrics DEF NoRequest, None
<1>4. recorders = <<>> /\ Len(recorders) = 0 /\ at = 0 /\ registry = {} /\ req = NoRequest
         /\ collector = [m \in Metric |-> None] /\ step = "idle" /\ recorders \in Seq(Services)
  BY DEF Init, LogInit
<1>5. TypeOK
  <2>1. req \in [by : 0..Len(recorders), sends : SUBSET Metric, next : 1..Len(Reported) + 1,
                 to : [Metric -> 0..Len(recorders)], overlapped : BOOLEAN]
    BY <1>3, <1>4, FourMetrics
  <2>. QED
    BY <1>1, <1>4, <2>1, MetricsAssumption, FourMetrics DEF TypeOK, LogInv, None
<1>6. RegistryInv
  BY <1>4 DEF RegistryInv
<1>7. CollectorInv
  BY <1>4, SoFarGrows DEF CollectorInv, None
<1>8. RequestInv
  BY <1>2, <1>4 DEF RequestInv, None
<1>. QED
  BY <1>1, <1>5, <1>6, <1>7, <1>8 DEF MetricsInv

\* Steps that touch no metric: levels and messages.
LEMMA OutsideStep ==
  ASSUME MetricsInv, Main \/ \E g \in Goroutines : Log(g), UNCHANGED metricVars
  PROVE  MetricsInv'
<1>1. LogInv'
  BY InitializeStep, LevelStep, MessageStep DEF MetricsInv, Main
<1>2. step' = step \/ {step, step'} \subseteq Initializing \cup {"idle"}
  BY DEF Main, InitializeLogger, SetStandardLevel, SetLoggerLevel, NewCustomizedLogger, Log,
         Initializing
<1>3. muted => muted'
  BY DEF Main, InitializeLogger, SetStandardLevel, SetLoggerLevel, NewCustomizedLogger, Log
<1>4. UNCHANGED <<recorders, at, collector, registry, req>>
  BY DEF metricVars
<1>5. TypeOK'
  BY <1>1, <1>2, <1>4 DEF MetricsInv, TypeOK, LogInv, Initializing
<1>6. \A i, m : Exposed(i, m) => Exposed(i, m)'
  BY <1>3, <1>4 DEF Exposed, Hidden, First
<1>7. SoFar' = SoFar /\ \A m : Current(m)' = Current(m)
  BY <1>4 DEF SoFar, Current
<1>8. RegistryInv'
  BY <1>2, <1>4, <1>7 DEF MetricsInv, RegistryInv, Existing, First, Initializing
<1>9. CollectorInv'
  BY <1>2, <1>4, <1>6, <1>7 DEF MetricsInv, CollectorInv, Belongs, Initializing
<1>10. RequestInv'
  BY <1>2, <1>4, <1>6 DEF MetricsInv, RequestInv, Done, Initializing
<1>. QED
  BY <1>1, <1>5, <1>8, <1>9, <1>10 DEF MetricsInv

----------------------------------------------------------------------------
(* Main makes a Recorder. *)

\* A new Recorder: the collectors now belong to the one before it.
LEMMA RecorderStep ==
  ASSUME MetricsInv, NEW service \in Services, Recorder(service) PROVE MetricsInv'
<1>0. /\ step = "idle" /\ step' = "registerMetrics" /\ at' = 0
      /\ recorders' = Append(recorders, service) /\ Len(recorders) < MaxRecorders
      /\ UNCHANGED <<level, logger, asked, muted, msg, collector, registry>>
      /\ req' = [req EXCEPT !.overlapped = TRUE]
  BY DEF Recorder
<1>1. LogInv'
  BY <1>0, LogStutter DEF MetricsInv, Initializing
<1>2. /\ recorders \in Seq(Services) /\ recorders' \in Seq(Services)
      /\ Len(recorders) \in Nat /\ Len(recorders') = Len(recorders) + 1
      /\ \A i \in 1..Len(recorders) : recorders'[i] = recorders[i]
  BY <1>0 DEF MetricsInv, TypeOK
<1>3. recorders = <<>> \/ at = 4
  BY <1>0 DEF MetricsInv, RegistryInv
<1>4. Len(recorders) = 0 \/ at = 4
  BY <1>3
<1>5. TypeOK'
  <2>1. req' \in [by : 0..Len(recorders'), sends : SUBSET Metric, next : 1..Len(Reported) + 1,
                  to : [Metric -> 0..Len(recorders')], overlapped : BOOLEAN]
    <3>1. req.by \in 0..Len(recorders') /\ req.to \in [Metric -> 0..Len(recorders')]
      BY <1>2 DEF MetricsInv, TypeOK
    <3>2. req.sends \in SUBSET Metric /\ req.next \in 1..Len(Reported) + 1
      BY DEF MetricsInv, TypeOK
    <3>3. req' = [by |-> req.by, sends |-> req.sends, next |-> req.next, to |-> req.to,
                  overlapped |-> TRUE]
      BY <1>0 DEF MetricsInv, TypeOK
    <3>. QED
      BY <3>1, <3>2, <3>3
  <2>2. collector' \in [Metric -> 0..Len(recorders')]
    BY <1>0, <1>2 DEF MetricsInv, TypeOK
  <2>3. registry' \subseteq (1..Len(recorders')) \X Metric
    BY <1>0, <1>2 DEF MetricsInv, TypeOK
  <2>4. Len(recorders') <= MaxRecorders /\ at' \in 0..Len(Registered)
    BY <1>0, <1>2, MetricsAssumption, FourMetrics
  <2>. QED
    BY <1>0, <1>1, <1>2, <2>1, <2>2, <2>3, <2>4 DEF TypeOK, LogInv
<1>6. SoFar' = {} /\ (at = 4 => SoFar = Metric)
  BY <1>0, SoFarGrows
<1>7. \A i \in 1..Len(recorders), m \in Metric : Exposed(i, m) => Exposed(i, m)'
  BY <1>0, <1>2 DEF Exposed, Hidden, First
<1>8. RegistryInv'
  <2>1. \A i, m : <<i, m>> \in registry => i \in 1..Len(recorders) /\ m \in Metric
    BY DEF MetricsInv, TypeOK
  <2>2. \A i \in 1..Len(recorders) : First(i) => First(i)'
    BY <1>2 DEF First
  <2>3. \A i \in DOMAIN recorders', m \in Metric :
          <<i, m>> \in registry' => First(i)' /\ recorders'[i] \notin Invalid
    BY <1>0, <1>2, <2>1, <2>2 DEF MetricsInv, RegistryInv
  <2>4. \A i \in DOMAIN recorders', m \in Metric :
          (i < Len(recorders') \/ m \in SoFar') /\ recorders'[i] \notin Invalid =>
            Existing(recorders[i], m) # {} /\ recorders'[i] = recorders[i]
    BY <1>0, <1>2, <1>4, <1>6 DEF MetricsInv, RegistryInv
  <2>5. \A s, m : Existing(s, m) \subseteq Existing(s, m)'
    BY <1>0, <1>2 DEF Existing
  <2>6. \A i \in DOMAIN recorders', m \in Metric :
          (i < Len(recorders') \/ m \in SoFar') /\ recorders'[i] \notin Invalid =>
            Existing(recorders[i], m)' # {}
    <3> SUFFICES ASSUME NEW i \in DOMAIN recorders', NEW m \in Metric,
                        i < Len(recorders') \/ m \in SoFar', recorders'[i] \notin Invalid
                 PROVE  Existing(recorders[i], m)' # {}
      OBVIOUS
    <3>1. Existing(recorders[i], m) # {} /\ recorders'[i] = recorders[i]
      BY <2>4
    <3>2. PICK s \in Services : s = recorders[i]
      BY <1>2, <1>6, <3>1
    <3>3. Existing(s, m)' # {}
      BY <2>5, <3>1, <3>2
    <3>. QED
      BY <3>1, <3>2, <3>3
  <2>. QED
    BY <1>0, <2>3, <2>6 DEF RegistryInv, Initializing
<1>9. CollectorInv'
  <2> SUFFICES ASSUME NEW m \in Metric
               PROVE  IF Len(recorders') > 1 THEN Belongs(m)' ELSE collector'[m] = None
    BY <1>6 DEF CollectorInv
  <2>1. CASE Len(recorders) = 0
    BY <1>0, <1>2, <2>1 DEF MetricsInv, TypeOK, None
  <2>2. CASE Len(recorders) > 0
    <3>1. Belongs(m) /\ Current(m) = Len(recorders)
      BY <1>0, <1>4, <1>6, <2>2 DEF MetricsInv, CollectorInv, Current
    <3>2. collector[m] \in 1..Len(recorders)
      BY <3>1 DEF Belongs, MetricsInv, TypeOK, None
    <3>3. Current(m)' = Len(recorders)
      BY <1>2, <1>6 DEF Current
    <3>4. PICK c \in 1..Len(recorders) : c = collector[m]
      BY <3>2
    <3>5. Exposed(c, m)'
      BY <1>7, <3>1, <3>4 DEF Belongs
    <3>. QED
      BY <1>0, <1>2, <2>2, <3>1, <3>3, <3>4, <3>5 DEF Belongs
  <2>. QED
    BY <1>2, <2>1, <2>2
<1>10. RequestInv'
  <2>1. /\ req'.by = req.by /\ req'.sends = req.sends /\ req'.to = req.to
        /\ req'.next = req.next /\ req'.overlapped
    BY <1>0 DEF MetricsInv, TypeOK
  <2>2. req.by \in 0..Len(recorders) /\ req.to \in [Metric -> 0..Len(recorders)]
    BY DEF MetricsInv, TypeOK
  <2>3. req'.sends # {} => req'.by >= 1 /\ req'.by < Len(recorders')
    BY <1>2, <2>1, <2>2 DEF MetricsInv, RequestInv
  <2>4. \A m \in req'.sends : Done(m)' => req'.to[m] # None
    BY <2>1 DEF MetricsInv, RequestInv, Done
  <2>5. ASSUME NEW m \in Metric, req'.to[m] # None
        PROVE  /\ Exposed(req.to[m], m)'
               /\ \E j \in 1..Len(recorders') :
                    j >= req'.by /\ recorders'[j] = recorders'[req'.to[m]]
    <3>1. PICK i \in 1..Len(recorders) : i = req.to[m]
      BY <2>1, <2>2, <2>5 DEF None
    <3>2. PICK j \in 1..Len(recorders) :
            j >= req.by /\ Exposed(i, m) /\ recorders[j] = recorders[i]
      BY <2>1, <2>5, <3>1 DEF MetricsInv, RequestInv
    <3>3. Exposed(i, m)'
      BY <1>7, <3>2
    <3>. QED
      BY <1>2, <2>1, <2>2, <3>1, <3>2, <3>3
  <2>. QED
    BY <2>1, <2>3, <2>4, <2>5 DEF RequestInv
<1>. QED
  BY <1>1, <1>5, <1>8, <1>9, <1>10 DEF MetricsInv

\* Register: the metric's collector is the new one or the registered one of the
\* name, and what is not exposed was refused without a panic.
LEMMA RegisterStep ==
  ASSUME MetricsInv, registerMetrics, step' # "dead", NEW m \in Metric, m = Registered[at + 1],
         NEW i \in DOMAIN recorders, i = Len(recorders), NEW s \in Services, s = recorders[i]
  PROVE  /\ registry \subseteq registry' /\ registry' \subseteq registry \cup {<<i, m>>}
         /\ \E c \in 1..Len(recorders) :
              /\ collector' = [collector EXCEPT ![m] = c]
              /\ recorders[c] = s
              /\ Exposed(c, m)'
         /\ <<i, m>> \in registry' /\ <<i, m>> \notin registry =>
              s \notin Invalid /\ First(i)
         /\ s \notin Invalid => Existing(s, m)' # {}
<1>0. /\ Register(i, m) /\ step = "registerMetrics"
      /\ UNCHANGED <<level, logger, asked, muted, msg, recorders, req>>
  BY DEF registerMetrics
<1>1. /\ recorders \in Seq(Services) /\ i \in 1..Len(recorders)
      /\ \A j \in 1..(i - 1) : j \in DOMAIN recorders /\ j < Len(recorders)
  BY DEF MetricsInv, TypeOK
<1>2. s = recorders[i]
  OBVIOUS
<1>3. \A c : First(c)' = First(c) /\ Hidden(c)' = Hidden(c)
  BY <1>0 DEF First, Hidden
<1>4. Existing(s, m) = {c \in DOMAIN recorders : recorders[c] = s /\ <<c, m>> \in registry}
  BY DEF Existing
<1>5. Existing(s, m)' = {c \in DOMAIN recorders : recorders[c] = s /\ <<c, m>> \in registry'}
  BY <1>0 DEF Existing
<1>6. Existing(s, m) = {} /\ s \notin Invalid => First(i)
  <2> SUFFICES ASSUME Existing(s, m) = {}, s \notin Invalid, NEW j \in 1..(i - 1),
                      recorders[j] = s
               PROVE  FALSE
    BY <1>2 DEF First
  <2>1. Existing(recorders[j], m) # {}
    BY <1>0, <1>1 DEF MetricsInv, RegistryInv
  <2>. QED
    BY <2>1
<1>7. ASSUME NEW c \in Existing(s, m), collector' = [collector EXCEPT ![m] = c],
             registry' = registry
      PROVE  c \in 1..Len(recorders) /\ recorders[c] = s /\ Exposed(c, m)'
  <2>1. c \in 1..Len(recorders) /\ recorders[c] = s /\ <<c, m>> \in registry
    BY <1>1, <1>4, <1>7
  <2>2. First(c)
    BY <1>1, <2>1 DEF MetricsInv, RegistryInv
  <2>3. First(c)'
    BY <1>3, <2>2
  <2>. QED
    BY <1>7, <2>1, <2>3 DEF Exposed
<1>8. CASE \E c \in Existing(s, m) :
             collector' = [collector EXCEPT ![m] = c] /\ UNCHANGED registry
  <2>1. PICK c \in Existing(s, m) :
          collector' = [collector EXCEPT ![m] = c] /\ registry' = registry
    BY <1>8
  <2>2. c \in 1..Len(recorders) /\ recorders[c] = s /\ Exposed(c, m)'
    BY <1>7, <2>1
  <2>3. c \in Existing(s, m)'
    BY <1>4, <1>5, <2>1
  <2>. QED
    BY <1>2, <2>1, <2>2, <2>3
<1>9. CASE /\ Existing(s, m) = {} /\ s \notin Invalid
           /\ registry' = registry \cup {<<i, m>>}
           /\ collector' = [collector EXCEPT ![m] = i]
  <2>1. First(i)'
    BY <1>3, <1>6, <1>9
  <2>2. <<i, m>> \in registry'
    BY <1>9
  <2>3. Exposed(i, m)'
    BY <2>1, <2>2 DEF Exposed
  <2>4. i \in Existing(s, m)'
    BY <1>1, <1>2, <1>5, <2>2
  <2>. QED
    BY <1>1, <1>2, <1>6, <1>9, <2>3, <2>4
<1>10. CASE /\ s \in Invalid /\ ~Panics
            /\ collector' = [collector EXCEPT ![m] = i] /\ UNCHANGED registry
  <2>1. level[logger] = asked /\ level[logger] < ErrorLevel
    BY <1>10, TwoLoggers
    DEF registerMetrics, MetricsInv, LogInv, LogTypeOK, Settled, Initializing, Panics,
        Level, ErrorLevel, DebugLevel
  <2>2. muted
    BY <2>1 DEF MetricsInv, LogInv
  <2>3. Hidden(i)'
    BY <1>2, <1>3, <1>10, <2>2 DEF Hidden
  <2>4. <<i, m>> \notin registry'
    BY <1>2, <1>10 DEF MetricsInv, RegistryInv
  <2>5. Exposed(i, m)'
    BY <2>3, <2>4 DEF Exposed
  <2>. QED
    BY <1>1, <1>2, <1>10, <2>4, <2>5
<1>. QED
  BY <1>0, <1>2, <1>8, <1>9, <1>10 DEF Register

\* Registering one metric.
LEMMA RegistrationStep == ASSUME MetricsInv, registerMetrics PROVE MetricsInv'
<1>0. /\ step = "registerMetrics" /\ step' \in {"registerMetrics", "dead"}
      /\ at \in 0..3 /\ at' = at + 1
      /\ UNCHANGED <<level, logger, asked, muted, msg, recorders, req>>
  <2>1. at \in 0..4 /\ Len(Registered) = 4
    BY FourMetrics DEF MetricsInv, TypeOK
  <2>2. /\ step = "registerMetrics" /\ at < Len(Registered) /\ at' = at + 1
        /\ UNCHANGED <<level, logger, asked, muted, msg, recorders, req>>
    BY Zenon DEF registerMetrics
  <2>3. step' = step \/ step' = "dead"
    BY Zenon DEF registerMetrics, Register
  <2>. QED
    BY <2>1, <2>2, <2>3
<1>1. LogInv'
  BY <1>0, LogStutter DEF MetricsInv, Initializing
<1>2. PICK i \in DOMAIN recorders : i = Len(recorders) /\ i \in 1..Len(recorders)
  BY <1>0 DEF MetricsInv, RegistryInv, TypeOK
<1>3. PICK s \in Services : s = recorders[i]
  BY <1>2 DEF MetricsInv, TypeOK
<1>4. PICK m \in Metric : m = Registered[at + 1]
  BY <1>0, SoFarGrows
<1>5. SoFar' = SoFar \cup {m}
  BY <1>0, <1>4, SoFarGrows
<1>6. /\ at' \in 0..Len(Registered)
      /\ step' \in {"idle", "SetLevel", "logger.Level", "registerMetrics", "dead"}
      /\ recorders' \in Seq(Services) /\ Len(recorders') <= MaxRecorders
  <2>1. at' \in 0..Len(Registered)
    BY <1>0, FourMetrics
  <2>. QED
    BY <1>0, <2>1 DEF MetricsInv, TypeOK
<1>7. req' \in [by : 0..Len(recorders'), sends : SUBSET Metric, next : 1..Len(Reported) + 1,
                to : [Metric -> 0..Len(recorders')], overlapped : BOOLEAN]
  <2>1. req \in [by : 0..Len(recorders), sends : SUBSET Metric, next : 1..Len(Reported) + 1,
                 to : [Metric -> 0..Len(recorders)], overlapped : BOOLEAN]
    BY DEF MetricsInv, TypeOK
  <2>2. req' = req /\ recorders' = recorders
    BY <1>0
  <2>. QED
    BY <2>1, <2>2, Zenon
<1>8. CASE step' = "dead"
  <2>1. UNCHANGED <<collector, registry>>
    BY <1>0, <1>8 DEF registerMetrics, Register
  <2>2. TypeOK'
    <3>1. /\ collector' \in [Metric -> 0..Len(recorders')]
          /\ registry' \subseteq (1..Len(recorders')) \X Metric
      BY <1>0, <2>1 DEF MetricsInv, TypeOK
    <3>. QED
      BY <1>1, <1>6, <1>7, <3>1 DEF TypeOK, LogInv
  <2>3. \A j, k : Exposed(j, k)' = Exposed(j, k)
    BY <1>0, <2>1 DEF Exposed, First, Hidden
  <2>4. RegistryInv'
    BY <1>0, <1>8, <2>1 DEF MetricsInv, RegistryInv, First, Initializing
  <2>5. CollectorInv'
    BY <1>8 DEF CollectorInv
  <2>6. RequestInv'
    BY <1>0, <1>8, <2>3 DEF MetricsInv, RequestInv, Done
  <2>. QED
    BY <1>1, <2>2, <2>4, <2>5, <2>6 DEF MetricsInv
<1>9. CASE step' # "dead"
  <2>1. /\ registry \subseteq registry' /\ registry' \subseteq registry \cup {<<i, m>>}
        /\ <<i, m>> \in registry' /\ <<i, m>> \notin registry => s \notin Invalid /\ First(i)
        /\ s \notin Invalid => Existing(s, m)' # {}
    BY <1>2, <1>3, <1>4, <1>9, RegisterStep
  <2>2. PICK c \in 1..Len(recorders) :
          collector' = [collector EXCEPT ![m] = c] /\ recorders[c] = s /\ Exposed(c, m)'
    BY <1>2, <1>3, <1>4, <1>9, RegisterStep
  <2>3. TypeOK'
    <3>1. collector' \in [Metric -> 0..Len(recorders')]
      BY <1>0, <2>2 DEF MetricsInv, TypeOK
    <3>2. registry' \subseteq (1..Len(recorders')) \X Metric
      BY <1>0, <1>2, <2>1 DEF MetricsInv, TypeOK
    <3>. QED
      BY <1>1, <1>6, <1>7, <3>1, <3>2 DEF TypeOK, LogInv
  <2>4. \A j \in 1..Len(recorders), k \in Metric : Exposed(j, k) => Exposed(j, k)'
    <3> SUFFICES ASSUME NEW j \in 1..Len(recorders), NEW k \in Metric, Exposed(j, k)
                 PROVE  Exposed(j, k)'
      OBVIOUS
    <3>1. First(j)' = First(j) /\ Hidden(j)' = Hidden(j)
      BY <1>0 DEF First, Hidden
    <3>2. <<j, k>> \in registry' /\ <<j, k>> \notin registry => First(j)
      BY <2>1
    <3>3. <<j, k>> \in registry => <<j, k>> \in registry'
      BY <2>1
    <3>. QED
      BY <3>1, <3>2, <3>3 DEF Exposed
  <2>5. RegistryInv'
    <3>1. \A j \in DOMAIN recorders, k \in Metric :
            <<j, k>> \in registry' => First(j) /\ recorders[j] \notin Invalid
      BY <1>3, <2>1 DEF MetricsInv, RegistryInv
    <3>2. \A j : First(j)' = First(j)
      BY <1>0 DEF First
    <3>3. \A t, k : Existing(t, k) \subseteq Existing(t, k)'
      BY <1>0, <2>1 DEF Existing
    <3>4. \A j \in DOMAIN recorders, k \in Metric :
            (j < Len(recorders) \/ k \in SoFar) /\ recorders[j] \notin Invalid =>
              Existing(recorders[j], k) # {}
      BY <1>0 DEF MetricsInv, RegistryInv
    <3>5. ASSUME NEW j \in DOMAIN recorders, NEW k \in Metric,
                 j < Len(recorders) \/ k \in SoFar', recorders[j] \notin Invalid,
                 NEW t \in Services, t = recorders[j]
          PROVE  Existing(t, k)' # {}
      <4>1. CASE j < Len(recorders) \/ k \in SoFar
        BY <3>3, <3>4, <3>5, <4>1
      <4>2. CASE ~(j < Len(recorders)) /\ k = m
        <5>1. j = i
          BY <1>2, <4>2 DEF MetricsInv, TypeOK
        <5>. QED
          BY <1>3, <2>1, <3>5, <4>2, <5>1
      <4>. QED
        BY <1>5, <3>5, <4>1, <4>2
    <3>6. ASSUME NEW j \in DOMAIN recorders, NEW k \in Metric,
                 j < Len(recorders) \/ k \in SoFar', recorders[j] \notin Invalid
          PROVE  Existing(recorders[j], k)' # {}
      <4>1. PICK t \in Services : t = recorders[j]
        BY DEF MetricsInv, TypeOK
      <4>2. Existing(t, k)' # {}
        BY <3>5, <3>6, <4>1
      <4>. QED
        BY <1>0, <4>1, <4>2
    <3>. QED
      BY <1>0, <3>1, <3>2, <3>6 DEF MetricsInv, RegistryInv, Initializing
  <2>6. CollectorInv'
    <3> SUFFICES ASSUME NEW k \in Metric
                 PROVE  IF Len(recorders) > 1 \/ k \in SoFar' THEN Belongs(k)'
                        ELSE collector'[k] = None
      BY <1>0 DEF CollectorInv
    <3>1. CASE k = m
      <4>1. collector'[k] = c
        BY <2>2, <3>1 DEF MetricsInv, TypeOK
      <4>2. k \in SoFar' /\ Current(k)' = Len(recorders)
        BY <1>0, <1>5, <3>1 DEF Current
      <4>. QED
        BY <1>0, <1>2, <1>3, <2>2, <3>1, <4>1, <4>2 DEF Belongs, None
    <3>2. CASE k # m
      <4>1. collector'[k] = collector[k] /\ collector[k] \in 0..Len(recorders)
        BY <2>2, <3>2 DEF MetricsInv, TypeOK
      <4>2. (k \in SoFar' <=> k \in SoFar) /\ Current(k)' = Current(k)
        BY <1>0, <1>5, <3>2 DEF Current
      <4>3. Belongs(k) => Belongs(k)'
        <5> SUFFICES ASSUME Belongs(k) PROVE Belongs(k)'
          OBVIOUS
        <5>1. PICK d \in 1..Len(recorders) : d = collector[k]
          BY <4>1 DEF Belongs, None
        <5>2. Exposed(d, k)'
          BY <2>4, <5>1 DEF Belongs
        <5>. QED
          BY <1>0, <4>1, <4>2, <5>1, <5>2 DEF Belongs
      <4>. QED
        BY <1>0, <4>1, <4>2, <4>3 DEF MetricsInv, CollectorInv
    <3>. QED
      BY <3>1, <3>2
  <2>7. RequestInv'
    <3>1. req.to \in [Metric -> 0..Len(recorders)]
      BY DEF MetricsInv, TypeOK
    <3>2. \A k \in Metric : req.to[k] # None => Exposed(req.to[k], k)'
      <4> SUFFICES ASSUME NEW k \in Metric, req.to[k] # None PROVE Exposed(req.to[k], k)'
        OBVIOUS
      <4>1. PICK d \in 1..Len(recorders) : d = req.to[k]
        BY <3>1 DEF None
      <4>2. Exposed(d, k)'
        BY <2>4, <4>1 DEF MetricsInv, RequestInv
      <4>. QED
        BY <1>0, <4>1, <4>2
    <3>. QED
      BY <1>0, <3>2 DEF MetricsInv, RequestInv, Done
  <2>. QED
    BY <1>1, <2>3, <2>5, <2>6, <2>7 DEF MetricsInv
<1>. QED
  BY <1>8, <1>9

\* Recorder returns: all metrics are its own.
LEMMA ReturnStep == ASSUME MetricsInv, RecorderReturns PROVE MetricsInv'
<1>0. /\ step = "registerMetrics" /\ step' = "idle" /\ at = 4
      /\ UNCHANGED <<level, logger, asked, muted, msg>>
      /\ UNCHANGED <<recorders, at, collector, registry, req>>
  BY FourMetrics DEF RecorderReturns, metricVars
<1>1. LogInv'
  BY <1>0, LogStutter DEF MetricsInv, Initializing
<1>2. TypeOK'
  BY <1>0, <1>1 DEF MetricsInv, TypeOK, LogInv
<1>3. SoFar' = SoFar /\ \A m : Current(m)' = Current(m)
  BY <1>0 DEF SoFar, Current
<1>4. \A i, m : Exposed(i, m)' = Exposed(i, m)
  BY <1>0 DEF Exposed, Hidden, First
<1>5. RegistryInv'
  BY <1>0, <1>3 DEF MetricsInv, RegistryInv, Existing, First
<1>6. CollectorInv'
  BY <1>0, <1>3, <1>4 DEF MetricsInv, CollectorInv, Belongs
<1>7. RequestInv'
  BY <1>0, <1>4 DEF MetricsInv, RequestInv, Done
<1>. QED
  BY <1>1, <1>2, <1>5, <1>6, <1>7 DEF MetricsInv

----------------------------------------------------------------------------
(* Requests. *)

\* What a step of the middleware leaves alone.
LEMMA ServeFrame ==
  ASSUME MetricsInv, Serve,
         req' \in [by : 0..Len(recorders), sends : SUBSET Metric, next : 1..Len(Reported) + 1,
                   to : [Metric -> 0..Len(recorders)], overlapped : BOOLEAN],
         RequestInv'
  PROVE  MetricsInv'
<1>0. UNCHANGED <<level, logger, step, asked, muted, msg, recorders, at, collector, registry>>
  BY DEF Serve, logVars
<1>1. LogInv'
  <2>1. LogTypeOK' /\ Settled'
    BY <1>0 DEF MetricsInv, LogInv, LogTypeOK, Settled
  <2>2. \A g \in Goroutines : Undisturbed(g) => Undisturbed(g)'
    BY <1>0 DEF Undisturbed
  <2>. QED
    BY <1>0, <2>1, <2>2 DEF MetricsInv, LogInv
<1>2. TypeOK'
  BY <1>0, <1>1 DEF MetricsInv, TypeOK, LogInv
<1>3. SoFar' = SoFar /\ \A m : Current(m)' = Current(m)
  BY <1>0 DEF SoFar, Current
<1>4. \A i, m : Exposed(i, m)' = Exposed(i, m)
  BY <1>0 DEF Exposed, Hidden, First
<1>5. RegistryInv'
  BY <1>0, <1>3 DEF MetricsInv, RegistryInv, Existing, First
<1>6. CollectorInv'
  BY <1>0, <1>3, <1>4 DEF MetricsInv, CollectorInv, Belongs
<1>. QED
  BY <1>1, <1>2, <1>5, <1>6 DEF MetricsInv

\* A request of a Recorder that has returned.
LEMMA RecordStep ==
  ASSUME MetricsInv, Serve, NEW i \in Returned, NEW entity \in BOOLEAN, NEW length \in 0..1,
         Record(i, entity, length)
  PROVE  MetricsInv'
<1>0. /\ UNCHANGED <<step, recorders, at>> /\ step # "dead"
      /\ i \in 1..Len(recorders) /\ (step # "registerMetrics" \/ i < Len(recorders))
  BY DEF Serve, logVars, Returned, MetricsInv, TypeOK
<1> DEFINE sends == IF ~entity THEN {}
                    ELSE IF length > 0 THEN Metric ELSE Metric \ {"responseSize"}
           now == step = "registerMetrics"
<1>1. req' = [NoRequest EXCEPT !.by = i, !.next = 1, !.overlapped = now, !.sends = sends]
  BY Zenon DEF Record
<1>2. sends \in SUBSET Metric
  OBVIOUS
<1>3. now \in BOOLEAN /\ (now = FALSE => step # "registerMetrics")
  BY SMT
<1> HIDE DEF sends, now
<1>4. /\ req'.by = i /\ req'.next = 1 /\ req'.sends = sends /\ req'.overlapped = now
      /\ req'.to = [m \in Metric |-> None]
  BY <1>1 DEF NoRequest
<1>5. req' = [by |-> i, sends |-> sends, next |-> 1, to |-> req'.to, overlapped |-> now]
  BY <1>1, <1>3 DEF NoRequest
<1>6. req' \in [by : 0..Len(recorders), sends : SUBSET Metric, next : 1..Len(Reported) + 1,
                to : [Metric -> 0..Len(recorders)], overlapped : BOOLEAN]
  <2>1. req'.to \in [Metric -> 0..Len(recorders)] /\ 1 \in 1..Len(Reported) + 1
    BY <1>0, <1>4, FourMetrics DEF None
  <2>. QED
    BY <1>0, <1>2, <1>3, <1>5, <2>1
<1>7. i < Len(recorders) \/ at = 4
  <2>1. CASE step # "registerMetrics"
    <3>1. step \in Initializing \cup {"idle"}
      BY <1>0, <2>1 DEF MetricsInv, TypeOK, Initializing
    <3>2. recorders # <<>>
      BY <1>0
    <3>. QED
      BY <3>1, <3>2 DEF MetricsInv, RegistryInv
  <2>. QED
    BY <1>0, <2>1
<1>8. RequestInv'
  <2>1. ~req'.overlapped => step' # "registerMetrics"
    BY <1>0, <1>3, <1>4
  <2>2. \A m : ~Done(m)'
    BY <1>4 DEF Done
  <2>. QED
    BY <1>0, <1>4, <1>7, <2>1, <2>2 DEF RequestInv
<1>. QED
  BY <1>6, <1>8, ServeFrame

\* One of the four reports of a request.
LEMMA ReportStep == ASSUME MetricsInv, Serve, Report PROVE MetricsInv'
<1>a. Len(Reported) = 4
  BY FourMetrics
<1>0. /\ UNCHANGED <<step, recorders, at, muted, registry>> /\ step # "dead"
      /\ req.by \in 0..Len(recorders) /\ req.sends \subseteq Metric
      /\ req.next \in 1..4 /\ req.to \in [Metric -> 0..Len(recorders)]
      /\ collector \in [Metric -> 0..Len(recorders)]
  <2>1. req.next \in 1..Len(Reported) + 1 /\ req.next <= Len(Reported)
    BY DEF MetricsInv, TypeOK, Report
  <2>2. UNCHANGED <<step, recorders, at, muted, registry>> /\ step # "dead"
    BY DEF Serve, logVars
  <2>3. /\ req.by \in 0..Len(recorders) /\ req.sends \subseteq Metric
        /\ req.to \in [Metric -> 0..Len(recorders)]
        /\ collector \in [Metric -> 0..Len(recorders)]
    BY DEF MetricsInv, TypeOK
  <2>4. req.next \in 1..4
    BY <1>a, <2>1
  <2>. QED
    BY <2>2, <2>3, <2>4
<1>1. PICK m \in Metric : m = Reported[req.next]
  BY <1>0, FourMetrics
<1>2. PICK c \in 0..Len(recorders) : c = IF m \in req.sends THEN collector[m] ELSE None
  BY <1>0 DEF None
<1>3. req' = [req EXCEPT !.next = @ + 1, !.to[m] = c]
  <2>1. req' = [req EXCEPT !.next = @ + 1, !.to[Reported[req.next]] =
                  IF Reported[req.next] \in req.sends THEN collector[Reported[req.next]]
                  ELSE None]
    BY Zenon DEF Report
  <2>. QED
    BY <1>1, <1>2, <2>1, Zenon
<1>4. /\ req'.by = req.by /\ req'.sends = req.sends /\ req'.next = req.next + 1
      /\ req'.to = [req.to EXCEPT ![m] = c]
  BY <1>3 DEF MetricsInv, TypeOK
<1>5. req'.overlapped = req.overlapped /\ req.overlapped \in BOOLEAN
  BY <1>3 DEF MetricsInv, TypeOK
<1>6. req' \in [by : 0..Len(recorders), sends : SUBSET Metric, next : 1..Len(Reported) + 1,
                to : [Metric -> 0..Len(recorders)], overlapped : BOOLEAN]
  <2>1. req' = [by |-> req.by, sends |-> req.sends, next |-> req.next + 1, to |-> req'.to,
                overlapped |-> req.overlapped]
    BY <1>3 DEF MetricsInv, TypeOK
  <2>2. req.next + 1 \in 1..Len(Reported) + 1
    BY <1>0, <1>a
  <2>3. req'.to \in [Metric -> 0..Len(recorders)]
    BY <1>0, <1>4
  <2>. QED
    BY <1>0, <1>5, <2>1, <2>2, <2>3
<1>7. c # None => /\ m \in req.sends /\ c = collector[m]
                  /\ req.by >= 1 /\ (req.by < Len(recorders) \/ at = 4)
  BY <1>2 DEF MetricsInv, RequestInv
<1>8. m \in req.sends => Belongs(m)
  <2> SUFFICES ASSUME m \in req.sends PROVE Belongs(m)
    OBVIOUS
  <2>1. req.by >= 1 /\ (req.by < Len(recorders) \/ at = 4)
    BY DEF MetricsInv, RequestInv
  <2>2. Len(recorders) > 1 \/ m \in SoFar
    BY <1>0, <2>1, SoFarGrows
  <2>. QED
    BY <1>0, <2>2 DEF MetricsInv, CollectorInv
<1>9. c # None => /\ Exposed(c, m)
                  /\ \E j \in 1..Len(recorders) : j >= req.by /\ recorders[j] = recorders[c]
                  /\ step # "registerMetrics" => recorders[c] = recorders[Len(recorders)]
  <2> SUFFICES ASSUME c # None
               PROVE  /\ Exposed(c, m)
                      /\ \E j \in 1..Len(recorders) :
                           j >= req.by /\ recorders[j] = recorders[c]
                      /\ step # "registerMetrics" => recorders[c] = recorders[Len(recorders)]
    OBVIOUS
  <2>1. Exposed(c, m) /\ recorders[c] = recorders[Current(m)]
    BY <1>7, <1>8 DEF Belongs
  <2>2. Current(m) \in 1..Len(recorders) /\ Current(m) >= req.by
    BY <1>0, <1>7, SoFarGrows DEF Current
  <2>3. step # "registerMetrics" => Current(m) = Len(recorders)
    <3> SUFFICES ASSUME step # "registerMetrics" PROVE Current(m) = Len(recorders)
      OBVIOUS
    <3>1. recorders = <<>> \/ at = 4
      BY <1>0 DEF MetricsInv, RegistryInv, TypeOK, Initializing
    <3>2. recorders # <<>>
      BY <2>2
    <3>. QED
      BY <3>1, <3>2, SoFarGrows DEF Current
  <2>. QED
    BY <2>1, <2>2, <2>3
<1>10. \A k, i : Exposed(k, i)' = Exposed(k, i)
  BY <1>0 DEF Exposed, First, Hidden
<1>11. RequestInv'
  <2>1. \A k \in req.sends : Done(k)' => req'.to[k] # None
    <3> SUFFICES ASSUME NEW k \in req.sends, Done(k)' PROVE req'.to[k] # None
      OBVIOUS
    <3>1. k = m \/ Done(k)
      BY <1>0, <1>1, <1>4 DEF Done
    <3>2. CASE k = m
      BY <1>0, <1>2, <1>4, <1>8, <3>2 DEF Belongs
    <3>3. CASE k # m
      BY <1>0, <1>4, <3>1, <3>3 DEF MetricsInv, RequestInv
    <3>. QED
      BY <3>2, <3>3
  <2>2. ASSUME NEW k \in Metric, req'.to[k] # None
        PROVE  /\ Exposed(req'.to[k], k)
               /\ \E j \in 1..Len(recorders) :
                    j >= req.by /\ recorders[j] = recorders[req'.to[k]]
    <3>1. CASE k = m
      BY <1>0, <1>4, <1>9, <2>2, <3>1
    <3>2. CASE k # m
      BY <1>0, <1>4, <2>2, <3>2 DEF MetricsInv, RequestInv
    <3>. QED
      BY <3>1, <3>2
  <2>3. ASSUME ~req.overlapped
        PROVE  /\ step # "registerMetrics"
               /\ \A k \in Metric : req'.to[k] # None =>
                    recorders[req'.to[k]] = recorders[Len(recorders)]
    <3>1. /\ step # "registerMetrics"
          /\ \A k \in Metric : req.to[k] # None =>
               recorders[req.to[k]] = recorders[Len(recorders)]
      BY <2>3 DEF MetricsInv, RequestInv
    <3>. QED
      BY <1>0, <1>4, <1>9, <3>1
  <2>4. req.sends # {} => req.by >= 1 /\ (req.by < Len(recorders) \/ at = 4)
    BY DEF MetricsInv, RequestInv
  <2>5. \A k \in Metric : Exposed(req.to[k], k)' = Exposed(req'.to[k], k)
    BY <1>10
  <2>. QED
    BY <1>0, <1>4, <1>5, <1>10, <2>1, <2>2, <2>3, <2>4 DEF RequestInv
<1>. QED
  BY <1>6, <1>11, ServeFrame

----------------------------------------------------------------------------
\* Every step preserves the invariant.
LEMMA MetricsStep == MetricsInv /\ [Next]_vars => MetricsInv'
<1> SUFFICES ASSUME MetricsInv, [Next]_vars PROVE MetricsInv'
  OBVIOUS
<1>1. CASE (Main \/ \E g \in Goroutines : Log(g)) /\ UNCHANGED metricVars
  BY <1>1, OutsideStep
<1>2. ASSUME NEW service \in Services, Recorder(service) PROVE MetricsInv'
  BY <1>2, RecorderStep
<1>3. CASE registerMetrics
  BY <1>3, RegistrationStep
<1>4. CASE RecorderReturns
  BY <1>4, ReturnStep
<1>5. CASE Serve
  BY <1>5, RecordStep, ReportStep DEF Serve
<1>6. CASE UNCHANGED vars
  <2>1. UNCHANGED <<level, logger, step, asked, muted, msg, recorders, at, collector,
                    registry, req>>
    BY <1>6 DEF vars, logVars, metricVars
  <2>2. LogInv'
    BY <2>1 DEF MetricsInv, LogInv, LogTypeOK, Settled, Undisturbed
  <2>3. TypeOK'
    BY <2>1, <2>2 DEF MetricsInv, TypeOK, LogInv
  <2>4. /\ SoFar' = SoFar /\ \A m : Current(m)' = Current(m)
        /\ \A i, m : Exposed(i, m)' = Exposed(i, m)
    BY <2>1 DEF SoFar, Current, Exposed, Hidden, First
  <2>5. RegistryInv'
    BY <2>1, <2>4 DEF MetricsInv, RegistryInv, Existing, First
  <2>6. CollectorInv'
    BY <2>1, <2>4 DEF MetricsInv, CollectorInv, Belongs
  <2>7. RequestInv'
    BY <2>1, <2>4 DEF MetricsInv, RequestInv, Done
  <2>. QED
    BY <2>2, <2>3, <2>5, <2>6, <2>7 DEF MetricsInv
<1>. QED
  BY <1>1, <1>2, <1>3, <1>4, <1>5, <1>6 DEF Next

\* The inductive invariant of loggers, collectors and requests.
THEOREM Invariance == Spec => []MetricsInv
BY MetricsInitially, MetricsStep, PTL DEF Spec

\* Type correctness.
THEOREM TypeCorrect == Spec => []TypeOK
<1>1. MetricsInv => TypeOK
  BY DEF MetricsInv
<1>. QED
  BY <1>1, Invariance, PTL

\* A message no InitializeLogger overlaps is written exactly if the level asked
\* for includes it.
THEOREM Levels == Spec => []MessagesFollowTheLevel
<1>1. MetricsInv => MessagesFollowTheLevel
  BY DEF MetricsInv, LogInv, Undisturbed, MessagesFollowTheLevel
<1>. QED
  BY <1>1, Invariance, PTL

\* Reports reach collectors Prometheus exposes, unless errors were muted.
THEOREM Exposure == Spec => []ReportsAreExposed
BY InvImplies, Invariance, PTL

\* Reports go to the request's own service or to a later one, all to the same.
THEOREM Forward == Spec => []ReportsGoForward
BY InvImplies, Invariance, PTL
=============================================================================
