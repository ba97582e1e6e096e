--------------------------- MODULE ReaderProcess ----------------------------
(***************************************************************************)
(* The reader's main: the configuration is loaded, the gRPC server, the    *)
(* metrics server and the syncer are started, and the process ends in two  *)
(* phases, first the server and then the syncer.                           *)
(*                                                                         *)
(* What the server does for its customers and the syncer for the catalog   *)
(* are Customer's and Syncer's subjects.                                   *)
(***************************************************************************)
EXTENDS Settings

CONSTANTS
  Files,   \* configuration files; one without keys stands for none
  Envs,    \* SILLAGE_* variables
  NoExit   \* the process is running

ASSUME NoExitAssumption == NoExit \notin {0, 1}

VARIABLES
  file, env,     \* what the process is started with
  identityOk,    \* do the TLS files exist and hold a certificate and its key
  portFree,      \* can the gRPC address be bound
  metricsFree,   \* can the metrics address be bound
  settings,      \* as loaded, or LoadError
  main,          \* "load", "server", "metrics", "syncer", "await", "drain", "gone"
  exit,          \* the exit code
  serverStop,    \* server_shutdown
  syncStop,      \* sync_shutdown
  handler,       \* the signal handler: "none", "waiting", "done"
  server,        \* "none", "starting", "tls", "plain", "ok", "failed"
  metrics,       \* the metrics server: "none", "starting", "up", "over"
  syncer,        \* "none", "running", "over"
  localOnly,     \* is the syncer without an R2 client
  ready,         \* what /health answers
  served         \* history: has the gRPC listener been up

world == <<file, env, identityOk, portFree, metricsFree>>
vars == <<world, settings, main, exit, serverStop, syncStop, handler, server, metrics,
          syncer, localOnly, ready, served>>

Running == exit = NoExit

Init ==
  /\ file \in Files /\ env \in Envs
  /\ identityOk \in BOOLEAN /\ portFree \in BOOLEAN /\ metricsFree \in BOOLEAN
  /\ settings = LoadError
  /\ main = "load" /\ exit = NoExit
  /\ serverStop = FALSE /\ syncStop = FALSE
  /\ handler = "none" /\ server = "none" /\ metrics = "none" /\ syncer = "none"
  /\ localOnly = FALSE /\ ready = FALSE /\ served = FALSE

ExitWith(code) == main' = "gone" /\ exit' = code

-----------------------------------------------------------------------------
(* main.                                                                   *)

\* Settings::load succeeded and server.listen_addr is an address.
Loaded(s) == s # LoadError /\ IsAddr(s.server.listen_addr)

LoadFailed ==
  /\ Running /\ main = "load"
  /\ settings' = Load(file, env)
  /\ ~Loaded(settings')
  /\ ExitWith(1)
  /\ UNCHANGED <<world, serverStop, syncStop, handler, server, metrics, syncer, localOnly, ready, served>>

\* The handler is spawned, R2, catalog, caches and service are made, and the
\* process is ready.
Prepare ==
  /\ Running /\ main = "load"
  /\ settings' = Load(file, env)
  /\ Loaded(settings')
  /\ main' = "server"
  /\ handler' = "waiting"
  /\ localOnly' = ~HasR2(settings')
  /\ ready' = TRUE
  /\ UNCHANGED <<world, exit, serverStop, syncStop, server, metrics, syncer, served>>

SpawnServer ==
  /\ Running /\ main = "server"
  /\ main' = "metrics"
  /\ server' = "starting"
  /\ UNCHANGED <<world, settings, exit, serverStop, syncStop, handler, metrics, syncer,
                 localOnly, ready, served>>

\* The address has been validated: its error exit cannot be taken.
SpawnMetrics ==
  /\ Running /\ main = "metrics"
  /\ settings.metrics.enabled => IsAddr(settings.metrics.listen_addr)
  /\ main' = "syncer"
  /\ metrics' = IF settings.metrics.enabled THEN "starting" ELSE "none"
  /\ UNCHANGED <<world, settings, exit, serverStop, syncStop, handler, server, syncer,
                 localOnly, ready, served>>

SpawnSyncer ==
  /\ Running /\ main = "syncer"
  /\ main' = "await"
  /\ syncer' = "running"
  /\ UNCHANGED <<world, settings, exit, serverStop, syncStop, handler, server, metrics,
                 localOnly, ready, served>>

ServerOver_Signalled == server \in {"ok", "failed"} \/ serverStop

ServerOver_Ok == server = "ok"

\* server_handle.await.
ServerOver == server \in {"ok", "failed"}

JoinServer ==
  /\ Running /\ main = "await" /\ ServerOver
  /\ main' = "drain"
  /\ syncStop' = TRUE
  /\ UNCHANGED <<world, settings, exit, serverStop, handler, server, metrics, syncer,
                 localOnly, ready, served>>

ExitCode_Zero == 0

\* A listener that failed is reported, after the syncer has drained.
ExitCode == IF server = "ok" THEN 0 ELSE 1

JoinSyncer ==
  /\ Running /\ main = "drain" /\ syncer = "over"
  /\ ExitWith(ExitCode)
  /\ UNCHANGED <<world, settings, serverStop, syncStop, handler, server, metrics, syncer,
                 localOnly, ready, served>>

-----------------------------------------------------------------------------
(* The tasks.                                                              *)

\* SIGTERM or SIGINT, or a handler that cannot be installed.
Signal ==
  /\ Running /\ handler = "waiting"
  /\ handler' = "done"
  /\ serverStop' = TRUE
  /\ UNCHANGED <<world, settings, main, exit, syncStop, server, metrics, syncer,
                 localOnly, ready, served>>

\* start_server: the identity is loaded before the address is bound.
Listens == portFree /\ (settings.server.tls_enabled => identityOk)

ServerUp ==
  /\ Running /\ server = "starting" /\ Listens
  /\ server' = IF settings.server.tls_enabled /\ identityOk THEN "tls" ELSE "plain"
  /\ served' = TRUE
  /\ UNCHANGED <<world, settings, main, exit, serverStop, syncStop, handler, metrics, syncer,
                 localOnly, ready>>

ServerFailed ==
  /\ Running /\ server = "starting" /\ ~Listens
  /\ server' = "failed"
  /\ UNCHANGED <<world, settings, main, exit, serverStop, syncStop, handler, metrics, syncer,
                 localOnly, ready, served>>

\* serve_with_shutdown returns once its signal has come and the calls have drained.
ServerDrains ==
  /\ Running /\ server \in {"tls", "plain"} /\ serverStop
  /\ server' = "ok"
  /\ UNCHANGED <<world, settings, main, exit, serverStop, syncStop, handler, metrics, syncer,
                 localOnly, ready, served>>

\* serve_with_shutdown returns an error, whenever the transport has one.
ServerBreaks ==
  /\ Running /\ server \in {"tls", "plain"}
  /\ server' = "failed"
  /\ UNCHANGED <<world, settings, main, exit, serverStop, syncStop, handler, metrics, syncer,
                 localOnly, ready, served>>

\* start_metrics_server: an address that cannot be bound is only logged.
MetricsStarts ==
  /\ Running /\ metrics = "starting"
  /\ metrics' = IF metricsFree THEN "up" ELSE "over"
  /\ UNCHANGED <<world, settings, main, exit, serverStop, syncStop, handler, server, syncer,
                 localOnly, ready, served>>

MetricsEnds ==
  /\ Running /\ metrics = "up" /\ serverStop
  /\ metrics' = "over"
  /\ UNCHANGED <<world, settings, main, exit, serverStop, syncStop, handler, server, syncer,
                 localOnly, ready, served>>

\* Syncer::run returns after its signal.
SyncerEnds ==
  /\ Running /\ syncer = "running" /\ syncStop
  /\ syncer' = "over"
  /\ UNCHANGED <<world, settings, main, exit, serverStop, syncStop, handler, server, metrics,
                 localOnly, ready, served>>

-----------------------------------------------------------------------------
MainStep ==
  LoadFailed \/ Prepare \/ SpawnServer \/ SpawnMetrics \/ SpawnSyncer \/ JoinServer \/ JoinSyncer

Next ==
  \/ MainStep \/ Signal
  \/ ServerUp \/ ServerFailed \/ ServerDrains \/ ServerBreaks
  \/ MetricsStarts \/ MetricsEnds \/ SyncerEnds

Spec == Init /\ [][Next]_vars

\* The tasks are scheduled.  Nothing makes the server's calls drain, and
\* nothing makes its transport fail: see ProcessEnds.
FairSpec ==
  Spec /\ WF_vars(MainStep) /\ WF_vars(ServerUp \/ ServerFailed) /\ WF_vars(SyncerEnds)

-----------------------------------------------------------------------------
TypeOK ==
  /\ settings # LoadError =>
       \A s \in Sections : settings[s] # Absent =>
         \A f \in DOMAIN FieldDefaults[s] : settings[s][f] # Required
  /\ main \in {"load", "server", "metrics", "syncer", "await", "drain", "gone"}
  /\ exit \in {NoExit, 0, 1}
  /\ serverStop \in BOOLEAN /\ syncStop \in BOOLEAN
  /\ handler \in {"none", "waiting", "done"}
  /\ server \in {"none", "starting", "tls", "plain", "ok", "failed"}
  /\ metrics \in {"none", "starting", "up", "over"}
  /\ syncer \in {"none", "running", "over"}
  /\ localOnly \in BOOLEAN /\ ready \in BOOLEAN /\ served \in BOOLEAN
  /\ (main # "gone" /\ main # "load") => settings # LoadError

\* config/default.toml without [r2], whose struct has no Default: the file
\* leaves the credentials blank, and without it the section is absent.
DefaultToml ==
  [server |-> [listen_addr |-> "0.0.0.0:10000", tls_enabled |-> FALSE, cert_path |-> "", key_path |-> ""],
   storage |-> [nvme_path |-> "/data"],
   log |-> [level |-> "info", format |-> "json"],
   writer |-> [slots_per_chunk |-> 1000, out_of_order_tolerance_slots |-> 100,
               max_open_chunks |-> 4, channel_capacity |-> 8192],
   uploader |-> [scan_interval_secs |-> 5, max_concurrent_uploads |-> 4, retry_attempts |-> 3,
                 retry_initial_delay_ms |-> 1000, local_retention_hours |-> 24,
                 disk_pressure_warn_pct |-> 80],
   reader |-> [scan_interval_secs |-> 30, max_concurrent_downloads |-> 4,
               local_retention_hours |-> 24, retry_attempts |-> 3, retry_initial_delay_ms |-> 1000,
               decoded_cache_bytes |-> 805306368, index_cache_bytes |-> 134217728,
               follow_idle_timeout_secs |-> 900, max_connections_total |-> 256,
               max_connections_per_token |-> 16],
   pacing |-> [enabled |-> TRUE, speed_multiplier |-> 10, lag_warn_ms |-> 5000, lag_drop_ms |-> 30000],
   metrics |-> [enabled |-> TRUE, listen_addr |-> "0.0.0.0:10001"]]

(***************************************************************************)
(* README: "Defaults live in config/default.toml; every field is           *)
(* overridable by environment variable".  A process that got past loading  *)
(* runs with the variable's value where there is one, else the file's,     *)
(* else the one of default.toml, with or without that file and whichever   *)
(* sections are written.                                                   *)
(***************************************************************************)
RunsAsConfigured ==
  main \notin {"load", "gone"} =>
    \A s \in DOMAIN DefaultToml : \A f \in DOMAIN DefaultToml[s] :
      settings[s][f] = IF <<s, f>> \in DOMAIN env THEN env[<<s, f>>]
                       ELSE IF <<s, f>> \in DOMAIN file THEN file[<<s, f>>]
                       ELSE DefaultToml[s][f]

TlsKey == <<"server", "tls_enabled">>

(***************************************************************************)
(* "A listener that never came up [...] must not look like a clean exit":  *)
(* exit code 0 only after a listener that served, with TLS where either    *)
(* layer asks for it, and was told to stop.                                *)
(***************************************************************************)
CleanExitServed ==
  /\ exit = 0 => served /\ serverStop
  /\ server = "plain" => ~(TlsKey \in DOMAIN env /\ env[TlsKey])
                         /\ ~(TlsKey \in DOMAIN file \ DOMAIN env /\ file[TlsKey])

(***************************************************************************)
(* The shutdown has two phases: the syncer is told to stop, and the        *)
(* process exits, only when nothing is served any more and, once a syncer  *)
(* was started, after it has drained.                                      *)
(***************************************************************************)
TwoPhases ==
  /\ syncStop => server \in {"ok", "failed"}
  /\ (~Running /\ server # "none") => server \in {"ok", "failed"} /\ syncer = "over"

(***************************************************************************)
(* No address, certificate or credential and no order of signal and        *)
(* failure makes the process hang: a server that failed takes the process  *)
(* with it, and one that is told to stop does if its calls drain.  They    *)
(* need not: a client that stays connected and does not read holds its     *)
(* call, and the shutdown with it (Customer's DrainEnds).                  *)
(***************************************************************************)
ProcessEnds ==
  /\ server = "failed" ~> ~Running
  /\ WF_vars(ServerDrains) => (serverStop ~> ~Running)
-----------------------------------------------------------------------------
(* The inductive invariant behind the properties.                          *)

\* What main loaded it keeps, and a process with a server has loaded it.
LoadedOnce ==
  /\ main # "load" => settings = Load(file, env)
  /\ main \notin {"load", "gone"} => Loaded(settings)
  /\ server # "none" => main # "load" /\ Loaded(settings)

\* How far main has come is how much has been started and stopped.
InPhase ==
  /\ main = "gone" <=> ~Running
  /\ main \in {"load", "server"} => server = "none"
  /\ main \in {"metrics", "syncer", "await"} => server # "none"
  /\ main \in {"load", "server", "metrics", "syncer"} => syncer = "none"
  /\ main \in {"load", "server", "metrics", "syncer", "await"} => ~syncStop
  /\ main = "drain" => ServerOver
  /\ syncStop => ServerOver
  /\ syncer = "over" => syncStop

\* A process is gone because it could not load, or once both tasks have ended.
GoneInOrder ==
  main = "gone" =>
    \/ server = "none" /\ exit = 1
    \/ ServerOver /\ syncer = "over" /\ exit = ExitCode

\* A server ends well only after it has served and been told to stop, and
\* one that serves in the clear was not configured with TLS.
ServedAsAsked ==
  /\ server \in {"tls", "plain"} => served
  /\ server = "ok" => served /\ serverStop
  /\ server = "plain" => ~settings.server.tls_enabled

IndInv == TypeOK /\ LoadedOnce /\ InPhase /\ GoneInOrder /\ ServedAsAsked
=============================================================================
