------------------------------ MODULE Logging ------------------------------
(***************************************************************************)
(* log/log.go: the library's own logger, the standard logger of logrus,    *)
(* and the messages that goroutines write while main (re)initializes them. *)
(*                                                                         *)
(* Error and Panic ask the library's logger whether to log and then write  *)
(* through the standard logger; Warn, Info and Debug read the library's    *)
(* logger twice, once to ask and once to write.  Main assigns the three    *)
(* pieces of state one after the other, with no lock.  Formats, outputs    *)
(* and the fields of a message are left out.                               *)
(***************************************************************************)
EXTENDS Integers

CONSTANTS Goroutines,  \* goroutines that log
          Given,       \* what the environment and main give as a log level
          Severities,  \* of their messages: Error, Warn, Info or Debug
          MaxInits     \* bound: calls of InitializeLogger

ErrorLevel == 2
InfoLevel == 4
DebugLevel == 5
Level == 0 .. DebugLevel        \* Panic, Fatal, Error, Warn, Info, Debug

Std == -1                       \* logrus's standard logger
Loggers == {Std} \cup 0..MaxInits

ASSUME LoggingAssumption == Severities \subseteq ErrorLevel .. DebugLevel /\ MaxInits \in Nat

VARIABLES
  level,   \* the level of each logger object
  logger,  \* the package variable: which object is the library's logger
  step,    \* what main is doing; "idle" between calls, "dead" after a panic
  asked,   \* the level the last InitializeLogger, or the environment, asked for
  muted,   \* history: a level below Error has been asked for
  msg      \* the message each goroutine is logging

logVars == <<level, logger, step, asked, muted, msg>>

\* logrus.ParseLevel with the fallback its caller has for anything else.
Parsed(given, fallback) == IF given \in Level THEN given ELSE fallback

Quiet == [state |-> "none", severity |-> ErrorLevel, asked |-> InfoLevel,
          to |-> Std, overlapped |-> FALSE]

getDefaultLogLevel(given) == Parsed(given, InfoLevel)

LogInit ==
  /\ asked \in {getDefaultLogLevel(g) : g \in Given}
  /\ level = [o \in Loggers |-> IF o = 0 THEN asked ELSE InfoLevel]
  /\ logger = 0
  /\ step = "idle"
  /\ muted = (asked < ErrorLevel)
  /\ msg = [g \in Goroutines |-> Quiet]

----------------------------------------------------------------------------
(* Main. *)

\* logger = log.New(): a logger at level Info, whatever level is asked for.
InitializeLogger(given) ==
  /\ step = "idle" /\ logger < MaxInits
  /\ logger' = logger + 1
  /\ asked' = Parsed(given, ErrorLevel)
  /\ muted' = (muted \/ asked' < ErrorLevel)
  /\ step' = "SetLevel"
  /\ msg' = [g \in Goroutines |-> [msg[g] EXCEPT !.overlapped = TRUE]]
  /\ UNCHANGED level

\* log.SetLevel(logLevel)
SetStandardLevel ==
  /\ step = "SetLevel"
  /\ level' = [level EXCEPT ![Std] = asked]
  /\ step' = "logger.Level"
  /\ UNCHANGED <<logger, asked, muted, msg>>

\* logger.Level = logLevel
SetLoggerLevel ==
  /\ step = "logger.Level"
  /\ level' = [level EXCEPT ![logger] = asked]
  /\ step' = "idle"
  /\ UNCHANGED <<logger, asked, muted, msg>>

\* Mutant: both levels are the one asked for.
CustomizeBoth(given, logJSON) ==
  /\ step = "idle" /\ given \in Level
  /\ level' = [level EXCEPT ![Std] = given]
  /\ UNCHANGED <<logger, step, asked, muted, msg>>

\* A logger of the caller's own; but it also sets the standard logger's level,
\* to one that depends on the format.  An error returns before.
NewCustomizedLogger(given, logJSON) ==
  /\ step = "idle" /\ given \in Level
  /\ level' = [level EXCEPT ![Std] = IF logJSON THEN InfoLevel ELSE DebugLevel]
  /\ UNCHANGED <<logger, step, asked, muted, msg>>

Main ==
  \/ \E given \in Given : \/ InitializeLogger(given)
                          \/ \E json \in BOOLEAN : NewCustomizedLogger(given, json)
  \/ SetStandardLevel
  \/ SetLoggerLevel

\* log.Panic asks the same question as log.Error: below Error it returns.
Panics == level[logger] >= ErrorLevel

----------------------------------------------------------------------------
(* Goroutines: one message at a time. *)

\* The first line of Error, Warn, Info and Debug.
Ask(g, severity) ==
  /\ msg[g].state \notin {"asked", "entry"}
  /\ msg' = [msg EXCEPT ![g] =
       [Quiet EXCEPT !.state = IF level[logger] >= severity THEN "asked" ELSE "dropped",
                     !.severity = severity, !.asked = asked,
                     !.overlapped = step \in {"SetLevel", "logger.Level"}]]

\* log.WithField (Error) or log.NewEntry(logger) (the others).
Entry(g) ==
  /\ msg[g].state = "asked"
  /\ msg' = [msg EXCEPT ![g].state = "entry",
                        ![g].to = IF msg[g].severity = ErrorLevel THEN Std ELSE logger]

\* Errorf, Warnf, ...: logrus compares with the entry's logger again.
Write(g) ==
  /\ msg[g].state = "entry"
  /\ msg' = [msg EXCEPT ![g].state =
               IF level[msg[g].to] >= msg[g].severity THEN "written" ELSE "dropped"]

Log(g) ==
  /\ step # "dead"
  /\ (\E severity \in Severities : Ask(g, severity)) \/ Entry(g) \/ Write(g)
  /\ UNCHANGED <<level, logger, step, asked, muted>>

----------------------------------------------------------------------------
\* Type invariant.
LogTypeOK ==
  /\ level \in [Loggers -> Level]
  /\ logger \in 0..MaxInits
  /\ asked \in Level /\ muted \in BOOLEAN
  /\ msg \in [Goroutines ->
       [state : {"none", "asked", "entry", "written", "dropped"}, severity : Level,
        asked : Level, to : Loggers, overlapped : BOOLEAN]]

\* A message is written exactly if the level asked for includes it, unless an
\* InitializeLogger overlaps it: although errors pass two loggers of which main
\* sets only one at a time, and a customized logger changes the level of one
\* of the two behind the other's back (log.go:114-115, 76, 85).
MessagesFollowTheLevel ==
  \A g \in Goroutines :
    msg[g].state \in {"written", "dropped"} /\ ~msg[g].overlapped =>
      (msg[g].state = "written" <=> msg[g].asked >= msg[g].severity)
============================================================================
