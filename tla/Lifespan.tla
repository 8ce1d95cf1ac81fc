------------------------------ MODULE Lifespan ------------------------------
(***************************************************************************)
(* One API process from its start to its end (app.main.lifespan): what it  *)
(* opens, in which order and under which settings, the work it runs in the *)
(* background while it serves, and the order in which it stops that work   *)
(* and closes what the work uses.  A step of the start may fail and end    *)
(* the process there; a close may fail and skip every close after it.      *)
(*                                                                         *)
(* The settings are the switches that are on.  What a background run, the  *)
(* sweeper or a refresh does is the matter of other modules: here each one *)
(* only works, with what it works on, until it ends or is stopped.         *)
(***************************************************************************)
EXTENDS Naturals, FiniteSets

CONSTANTS
  LifespanSettings,  \* the settings a process may be started with
  LifespanRuns,      \* runs the process may be given to execute
  LifespanBreaks     \* bound: background loops that die while it serves

VARIABLES
  settings,    \* the switches that are on
  lifeStage,       \* the step of the start or of the end the process is at
  open,        \* what the process holds open
  working,     \* the background loops and refreshes at work
  executions,  \* what became of every run given to this process
  services,    \* what the process offers to its tools and pages
  deaths,      \* how many background loops have died
  outcome      \* "clean", "failed" start, or a "skipped" close

lifespanVars == <<settings, lifeStage, open, working, executions, services, deaths, outcome>>

Switches == {"data_dir", "redis", "redis_sessions", "recording",
             "pandascore_token", "stratz", "opendota", "game_resolution", "tavily"}

(* Settings that the process refuses before it starts never get here       *)
ValidSettings(on) == on \subseteq Switches /\ ("redis_sessions" \in on => "redis" \in on)

ASSUME LifespanAssumption ==
  /\ \A on \in LifespanSettings : ValidSettings(on)
  /\ LifespanBreaks \in Nat

-----------------------------------------------------------------------------
(* What the settings compose.                                              *)

ProvidedAlways == {"league_search", "series_search", "series_teams", "tournament_search",
                   "match_search", "team_search", "player_search", "catalog_lookup"}

GameResolutionMisset(on) ==
  "game_resolution" \in on /\ ~({"pandascore_token", "opendota"} \subseteq on)

BuiltServices(on) ==
  ProvidedAlways
  \cup (IF "redis" \in on THEN {"homepage_recent_series"} ELSE {})
  \cup (IF "stratz" \in on THEN {"player_profile", "player_recent_games"} ELSE {})
  \cup (IF "opendota" \in on THEN {"game_detail"} ELSE {})
  \cup (IF "game_resolution" \in on THEN {"game_resolution"} ELSE {})
  \cup (IF "data_dir" \in on THEN {"hero_guide"} ELSE {})

RegistryRefuses(on, offered) ==
  /\ "game_resolution" \in on
  /\ GameResolutionMisset(on) \/ ~({"match_search", "game_resolution", "game_detail"} \subseteq offered)

BuiltinTools == {"artifact_read", "artifact_grep", "artifact_query", "calculate",
                 "task_plan", "task_checkpoint"}

RegisteredTools(on, offered) ==
  BuiltinTools
  \cup (offered \ {"homepage_recent_series", "game_detail", "game_resolution"})
  \cup (IF "opendota" \in on THEN {"game_detail"} \cap offered ELSE {})
  \cup (IF "game_resolution" \in on THEN {"game_resolution"} ELSE {})

-----------------------------------------------------------------------------
LifespanInit ==
  /\ settings \in LifespanSettings /\ lifeStage = "require_recording"
  /\ open = {} /\ working = {} /\ services = {}
  /\ executions = [r \in LifespanRuns |-> "none"]
  /\ deaths = 0 /\ outcome = "clean"

Reach(from, to) == lifeStage = from /\ lifeStage' = to /\ outcome' = outcome

(* A start that fails goes straight to the clean-up of the outer try       *)
FailStart(from) == lifeStage = from /\ lifeStage' = "cleanup" /\ outcome' = "failed"

Opened(c) == open' = open \cup {c}
Closed(c) == open' = open \ {c}
Quietly == UNCHANGED <<settings, executions, services, deaths>>

RequireRecording ==
  /\ UNCHANGED <<open, working>> /\ Quietly
  /\ IF "recording" \in settings /\ "redis" \notin settings
     THEN FailStart("require_recording")
     ELSE Reach("require_recording", "catalog")

(* Its stop is registered before it is started                             *)
StartCatalog ==
  /\ Quietly /\ UNCHANGED open
  /\ \/ "data_dir" \notin settings /\ Reach("catalog", "database") /\ UNCHANGED working
     \/ "data_dir" \in settings /\ Reach("catalog", "database")
        /\ working' = working \cup {"poller"}
     \/ "data_dir" \in settings /\ FailStart("catalog") /\ UNCHANGED working

OpenDatabase ==
  /\ Quietly /\ UNCHANGED working /\ Opened("database")
  /\ Reach("database", "sessions") \/ FailStart("database")

OpenSessions ==
  /\ Quietly /\ UNCHANGED working /\ Opened("sessions")
  /\ \/ Reach("sessions", "redis")
     \/ "redis_sessions" \in settings /\ FailStart("sessions")

OpenRedis ==
  /\ Quietly /\ UNCHANGED working
  /\ \/ "redis" \notin settings /\ Reach("redis", "services") /\ UNCHANGED open
     \/ "redis" \in settings /\ Opened("redis")
        /\ (Reach("redis", "services") \/ FailStart("redis"))

(* An address or a time-out of a provider may be malformed, too            *)
BuildServices ==
  /\ UNCHANGED <<settings, executions, deaths, open, working>>
  /\ \/ FailStart("services") /\ UNCHANGED services
     \/ /\ ~GameResolutionMisset(settings)
        /\ Reach("services", "discovery") /\ services' = BuiltServices(settings)

(* A remote search that cannot be discovered is left out, whatever failed  *)
DiscoverTools ==
  /\ UNCHANGED <<settings, executions, deaths, open, working>>
  /\ Reach("discovery", "runtime")
  /\ \/ UNCHANGED services
     \/ "tavily" \in settings /\ services' = services \cup {"tavily_web_search"}

ComposeRuntime ==
  /\ UNCHANGED <<open, working>> /\ Quietly
  /\ IF RegistryRefuses(settings, services) THEN FailStart("runtime") ELSE Reach("runtime", "bus")

(* Without Redis there is no run API and nothing in the background         *)
OpenBus ==
  /\ Quietly /\ UNCHANGED working
  /\ \/ "redis" \notin settings /\ Reach("bus", "serving") /\ UNCHANGED open
     \/ "redis" \in settings /\ Opened("bus") /\ (Reach("bus", "manager") \/ FailStart("bus"))

StartManager ==
  Reach("manager", "sweeper") /\ working' = working \cup {"listener"} /\ UNCHANGED open /\ Quietly

StartSweeper ==
  Reach("sweeper", "serving") /\ working' = working \cup {"sweeper"} /\ UNCHANGED open /\ Quietly

-----------------------------------------------------------------------------
(* The background work of a process, until what it needs to stop is told.  *)

SubmitRun(r) ==
  /\ lifeStage = "serving" /\ "bus" \in open /\ executions[r] = "none"
  /\ executions' = [executions EXCEPT ![r] = "running"]
  /\ UNCHANGED <<settings, lifeStage, open, working, services, deaths, outcome>>

RunEnds(r) ==
  /\ executions[r] \in {"running", "cut"}
  /\ executions' = [executions EXCEPT ![r] = IF @ = "cut" THEN "stopped" ELSE "ended"]
  /\ UNCHANGED <<settings, lifeStage, open, working, services, deaths, outcome>>

BeginRefresh ==
  /\ lifeStage = "serving" /\ "homepage_recent_series" \in services
  /\ "refresh" \notin working /\ working' = working \cup {"refresh"}
  /\ UNCHANGED <<settings, lifeStage, open, executions, services, deaths, outcome>>

EndRefresh ==
  /\ "refresh" \in working /\ working' = working \ {"refresh"}
  /\ UNCHANGED <<settings, lifeStage, open, executions, services, deaths, outcome>>

LoopDies(c) ==
  /\ c \in working \cap {"poller", "listener", "sweeper"} /\ deaths < LifespanBreaks
  /\ working' = working \ {c} /\ deaths' = deaths + 1
  /\ UNCHANGED <<settings, lifeStage, open, executions, services, outcome>>

-----------------------------------------------------------------------------
(* The end: requests have been answered or dropped by the server.          *)

StopServing ==
  /\ Reach("serving", IF "bus" \in open THEN "stop_sweeper" ELSE "close_services")
  /\ UNCHANGED <<open, working>> /\ Quietly

StopSweeper ==
  Reach("stop_sweeper", "stop_manager") /\ working' = working \ {"sweeper"}
  /\ UNCHANGED open /\ Quietly

(* Every task is cancelled at once, then waited for                        *)
CancelRuns ==
  /\ Reach("stop_manager", "await_runs")
  /\ executions' = [r \in LifespanRuns |->
                      IF executions[r] = "running" THEN "cut" ELSE executions[r]]
  /\ UNCHANGED <<settings, open, working, services, deaths>>

AwaitRuns ==
  /\ Reach("await_runs", "mark_runs")
  /\ \A r \in LifespanRuns : executions[r] # "cut"
  /\ working' = working \ {"listener"} /\ UNCHANGED open /\ Quietly

(* A mark the database refuses is dropped                                  *)
MarkRun(r) ==
  /\ lifeStage = "mark_runs" /\ executions[r] = "stopped"
  /\ \E mark \in {"marked", "unmarked"} : executions' = [executions EXCEPT ![r] = mark]
  /\ UNCHANGED <<settings, lifeStage, open, working, services, deaths, outcome>>

ManagerStopped ==
  /\ Reach("mark_runs", "close_bus")
  /\ \A r \in LifespanRuns : executions[r] # "stopped"
  /\ UNCHANGED <<open, working>> /\ Quietly

CloseConnection(c, from, to) ==
  /\ Quietly /\ UNCHANGED working
  /\ \/ Closed(c) /\ Reach(from, to)
     \/ lifeStage = from /\ lifeStage' = "cleanup" /\ outcome' = "skipped" /\ UNCHANGED open

CloseBus == CloseConnection("bus", "close_bus", "close_services")

(* A refresh under way is cancelled and waited for                         *)
CloseServices ==
  /\ Reach("close_services", IF "redis" \in open THEN "close_redis" ELSE "close_sessions")
  /\ working' = working \ {"refresh"} /\ UNCHANGED open /\ Quietly

CloseRedis == CloseConnection("redis", "close_redis", "close_sessions")

CloseSessions ==
  IF "redis_sessions" \in settings
  THEN CloseConnection("sessions", "close_sessions", "close_database")
  ELSE Reach("close_sessions", "close_database") /\ Closed("sessions")
       /\ UNCHANGED working /\ Quietly

CloseDatabase == CloseConnection("database", "close_database", "cleanup")

StopCatalog ==
  Reach("cleanup", "ended") /\ working' = working \ {"poller"} /\ UNCHANGED open /\ Quietly

-----------------------------------------------------------------------------
StartStep ==
  \/ RequireRecording \/ StartCatalog \/ OpenDatabase \/ OpenSessions \/ OpenRedis
  \/ BuildServices \/ DiscoverTools \/ ComposeRuntime \/ OpenBus \/ StartManager \/ StartSweeper

StopStep ==
  \/ StopServing \/ StopSweeper \/ CancelRuns \/ AwaitRuns \/ ManagerStopped
  \/ CloseBus \/ CloseServices \/ CloseRedis \/ CloseSessions \/ CloseDatabase \/ StopCatalog

LifespanNext ==
  \/ StartStep \/ StopStep \/ BeginRefresh \/ EndRefresh
  \/ \E r \in LifespanRuns : SubmitRun(r) \/ RunEnds(r) \/ MarkRun(r)
  \/ \E c \in {"poller", "listener", "sweeper"} : LoopDies(c)

LifespanSpec == LifespanInit /\ [][LifespanNext]_lifespanVars

-----------------------------------------------------------------------------
(* Work in the background always finds open what it works on: the sweeper  *)
(* the database, the listener the bus, a run the database, the sessions    *)
(* and the bus, the mark of a run that was cut the database, a refresh of  *)
(* the homepage its cache.                                                 *)
WorkFindsWhatItUses ==
  /\ "sweeper" \in working => "database" \in open
  /\ "listener" \in working => "bus" \in open
  /\ "refresh" \in working => "redis" \in open
  /\ \A r \in LifespanRuns :
       /\ executions[r] \in {"running", "cut"} => {"database", "sessions", "bus"} \subseteq open
       /\ executions[r] = "stopped" => "database" \in open

(* A process that ended, however it ended, executes no run and has asked   *)
(* for every run it cut to be marked; nothing it started is still at work, *)
(* except a refresh whose stop was skipped when the bus would not close;   *)
(* and if its start and its closes succeeded it holds nothing open.        *)
EndsQuietly ==
  lifeStage = "ended" =>
    /\ \A r \in LifespanRuns : executions[r] \notin {"running", "cut", "stopped"}
    /\ working \subseteq (IF outcome = "skipped" THEN {"refresh"} ELSE {})
    /\ outcome = "clean" => open = {}
    /\ outcome = "failed" => \A r \in LifespanRuns : executions[r] = "none"

(* A process that serves can compose the runtime of every request it gets, *)
(* each of its tools is backed by a service it has, and the tool that      *)
(* resolves games comes with the two whose results it reads.               *)
RequestsCanBeComposed ==
  lifeStage = "serving" =>
    LET tools == RegisteredTools(settings, services) IN
    /\ ~RegistryRefuses(settings, services)
    /\ tools \subseteq BuiltinTools \cup services
    /\ "game_resolution" \in tools => {"match_search", "game_detail"} \subseteq tools

(* What the process promises while it runs and when it has ended           *)
ProcessIsSound == WorkFindsWhatItUses /\ EndsQuietly /\ RequestsCanBeComposed
=============================================================================
