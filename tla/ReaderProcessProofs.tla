------------------------ MODULE ReaderProcessProofs ------------------------
(***************************************************************************)
(* The reader's main, for any configuration files and environments: it     *)
(* runs with what was configured, and it ends in two phases with an exit   *)
(* code that tells whether it served.                                      *)
(***************************************************************************)
EXTENDS ReaderProcess, TLAPS

-----------------------------------------------------------------------------
(* Loading.                                                                *)

\* The sections that have a Default of their own.
Defaulted == {"server", "storage", "log", "writer", "uploader", "reader", "pacing", "metrics"}

(***************************************************************************)
(* A section's Default is what its fields' own defaults make: whether the  *)
(* section is written or left out changes nothing.                         *)
(***************************************************************************)
LEMMA DefaultsAgree ==
  ASSUME NEW s \in Defaulted
  PROVE  s \in Sections /\ SectionDefaults[s] = FieldDefaults[s]
  BY DEF Defaulted, Sections, SectionDefaults, FieldDefaults, ServerDefault, StorageDefault,
         LogDefault, WriterDefault, UploaderDefault, ReaderDefault, PacingDefault, MetricsDefault

\* A field is the layer's value where it has one, else the field's default.
LEMMA FieldOf ==
  ASSUME NEW layer, NEW s \in Defaulted, NEW f \in DOMAIN FieldDefaults[s]
  PROVE  Deserialized(layer)[s][f] =
           IF <<s, f>> \in DOMAIN layer THEN layer[<<s, f>>] ELSE FieldDefaults[s][f]
<1>1. Deserialized(layer)[s] = Section(s, layer)
  BY DefaultsAgree DEF Deserialized
<1>2. CASE s \in Present(layer)
  BY <1>1, <1>2 DEF Section
<1>3. CASE s \notin Present(layer)
  <2>1. <<s, f>> \notin DOMAIN layer
    BY <1>3 DEF Present
  <2>2. Section(s, layer) = FieldDefaults[s]
    BY <1>3, DefaultsAgree DEF Section
  <2> QED BY <1>1, <2>1, <2>2
<1> QED BY <1>2, <1>3

\* Apart from [r2], config/default.toml has the sections that have a Default.
LEMMA TomlSections == DOMAIN DefaultToml = Defaulted
  BY SMT DEF DefaultToml, Defaulted

(***************************************************************************)
(* config/default.toml says what the fields' own defaults say.             *)
(***************************************************************************)
LEMMA TomlAgrees ==
  ASSUME NEW s \in DOMAIN DefaultToml, NEW f \in DOMAIN DefaultToml[s]
  PROVE  /\ s \in Defaulted /\ f \in DOMAIN FieldDefaults[s]
         /\ DefaultToml[s][f] = FieldDefaults[s][f]
         /\ <<s, f>> # <<"reader", "auth_tokens">>
<1>1. s \in Defaulted
  BY TomlSections
<1>2. CASE s = "server"
  BY <1>1, <1>2, SMT DEF DefaultToml, FieldDefaults, ServerFields
<1>3. CASE s = "storage"
  BY <1>1, <1>3, SMT DEF DefaultToml, FieldDefaults, StorageFields
<1>4. CASE s = "log"
  BY <1>1, <1>4, SMT DEF DefaultToml, FieldDefaults, LogFields
<1>5. CASE s = "writer"
  BY <1>1, <1>5, SMT DEF DefaultToml, FieldDefaults, WriterFields
<1>6. CASE s = "uploader"
  BY <1>1, <1>6, SMT DEF DefaultToml, FieldDefaults, UploaderFields
<1>7. CASE s = "reader"
  BY <1>1, <1>7, SMT DEF DefaultToml, FieldDefaults, ReaderFields
<1>8. CASE s = "pacing"
  BY <1>1, <1>8, SMT DEF DefaultToml, FieldDefaults, PacingFields
<1>9. CASE s = "metrics"
  BY <1>1, <1>9, SMT DEF DefaultToml, FieldDefaults, MetricsFields
<1> QED BY <1>1, <1>2, <1>3, <1>4, <1>5, <1>6, <1>7, <1>8, <1>9 DEF Defaulted

\* Of the two layers the environment wins, key by key.
LEMMA MergeOf ==
  ASSUME NEW k, k # <<"reader", "auth_tokens">>
  PROVE  /\ k \in DOMAIN Merge(file, env) <=> k \in DOMAIN env \/ k \in DOMAIN file
         /\ k \in DOMAIN env => Merge(file, env)[k] = env[k]
         /\ k \in DOMAIN file \ DOMAIN env => Merge(file, env)[k] = file[k]
  BY DEF Merge, FromEnv

\* What a load that succeeds returns has passed both of its checks.
LEMMA LoadedIs ==
  ASSUME Load(file, env) # LoadError
  PROVE  /\ Load(file, env) = Deserialized(Merge(file, env))
         /\ Complete(Load(file, env)) /\ Validate(Load(file, env))
  BY DEF Load

\* The fields of a section that was loaded are those of its struct.
LEMMA SectionFields ==
  ASSUME NEW layer, NEW s \in Sections, Section(s, layer) \notin {Required, Absent}
  PROVE  DOMAIN Section(s, layer) = DOMAIN FieldDefaults[s]
<1>1. CASE s \in Present(layer)
  BY <1>1 DEF Section
<1>2. CASE s \notin Present(layer) /\ s \in Defaulted
  BY <1>2, DefaultsAgree DEF Section
<1>3. CASE s \notin Present(layer) /\ s \in {"r2", "geyser"}
  BY <1>3 DEF Section, SectionDefaults
<1> QED BY <1>1, <1>2, <1>3 DEF Sections, Defaulted

\* A load that succeeds leaves no required field without a value.
LEMMA LoadTyped ==
  ASSUME Load(file, env) # LoadError
  PROVE  \A s \in Sections : Load(file, env)[s] # Absent =>
           \A f \in DOMAIN FieldDefaults[s] : Load(file, env)[s][f] # Required
<1> DEFINE L == Load(file, env)
<1> SUFFICES ASSUME NEW s \in Sections, L[s] # Absent, NEW f \in DOMAIN FieldDefaults[s]
             PROVE  L[s][f] # Required
  OBVIOUS
<1>1. L[s] = Section(s, Merge(file, env))
  BY LoadedIs DEF Deserialized
<1>2. L[s] # Required /\ \A g \in DOMAIN L[s] : L[s][g] # Required
  BY LoadedIs DEF Complete
<1>3. DOMAIN L[s] = DOMAIN FieldDefaults[s]
  BY <1>1, <1>2, SectionFields
<1> QED BY <1>2, <1>3

-----------------------------------------------------------------------------
(* The invariant.                                                          *)

\* A process that is starting satisfies the invariant.
LEMMA InitInd == Init => IndInv
<1> SUFFICES ASSUME Init PROVE IndInv
  OBVIOUS
<1> USE NoExitAssumption DEF Init
<1>1. TypeOK
  BY DEF TypeOK
<1>2. LoadedOnce /\ InPhase /\ GoneInOrder /\ ServedAsAsked
  BY DEF LoadedOnce, InPhase, GoneInOrder, ServedAsAsked, Running, Loaded
<1> QED BY <1>1, <1>2 DEF IndInv

\* The settings TypeOK describes are loaded in one step and never replaced.
LEMMA LoadStepInd ==
  ASSUME IndInv, LoadFailed \/ Prepare
  PROVE  IndInv'
<1> USE NoExitAssumption DEF IndInv, LoadFailed, Prepare, ExitWith, Running, world
<1>1. main = "load" /\ settings' = Load(file, env) /\ UNCHANGED <<file, env>>
      /\ server = "none" /\ server' = "none" /\ syncer' = "none" /\ ~syncStop /\ ~syncStop'
  BY DEF InPhase, TypeOK
<1>2. TypeOK'
  <2>1. settings' # LoadError =>
          \A s \in Sections : settings'[s] # Absent =>
            \A f \in DOMAIN FieldDefaults[s] : settings'[s][f] # Required
    BY <1>1, LoadTyped
  <2> HIDE DEF IndInv
  <2>2. TypeOK
    BY DEF IndInv
  <2>3. main' # "gone" => settings' # LoadError
    BY DEF Loaded
  <2>4. localOnly' \in BOOLEAN /\ ready' \in BOOLEAN
    BY <2>2, Zenon DEF TypeOK
  <2>5. CASE LoadFailed
    BY <2>1, <2>2, <2>4, <2>5 DEF TypeOK
  <2>6. CASE Prepare
    BY <2>1, <2>2, <2>3, <2>4, <2>6 DEF TypeOK
  <2> QED BY <2>5, <2>6
<1>3. LoadedOnce' /\ InPhase' /\ GoneInOrder' /\ ServedAsAsked'
  <2>1. CASE LoadFailed
    BY <2>1, <1>1 DEF LoadedOnce, InPhase, GoneInOrder, ServedAsAsked, ServerOver, Loaded
  <2>2. CASE Prepare
    BY <2>2, <1>1 DEF LoadedOnce, InPhase, GoneInOrder, ServedAsAsked, ServerOver, Loaded
  <2> QED BY <2>1, <2>2
<1> QED BY <1>2, <1>3

\* Every other step leaves the settings as they were loaded.
LEMMA OtherStepInd ==
  ASSUME IndInv, [Next]_vars, ~LoadFailed, ~Prepare
  PROVE  IndInv'
<1> USE NoExitAssumption DEF IndInv, Running, ExitWith, world
<1>0. UNCHANGED <<file, env, settings>>
  BY DEF Next, MainStep, vars, SpawnServer, SpawnMetrics, SpawnSyncer, JoinServer, JoinSyncer,
         Signal, ServerUp, ServerFailed, ServerDrains, ServerBreaks, MetricsStarts, MetricsEnds,
         SyncerEnds
<1> DEFINE Typed == settings # LoadError =>
             \A s \in Sections : settings[s] # Absent =>
               \A f \in DOMAIN FieldDefaults[s] : settings[s][f] # Required
<1>t. Typed'
  BY <1>0 DEF TypeOK
<1> HIDE DEF Typed
<1>u. ASSUME main' \in {"server", "metrics", "syncer", "await", "drain", "gone", main},
             main = "load" => main' = "load", main' = "gone" \/ main # "gone",
             exit' \in {NoExit, 0, 1}, serverStop' \in BOOLEAN, syncStop' \in BOOLEAN,
             handler' \in {"none", "waiting", "done"},
             server' \in {"none", "starting", "tls", "plain", "ok", "failed"},
             metrics' \in {"none", "starting", "up", "over"},
             syncer' \in {"none", "running", "over"},
             localOnly' \in BOOLEAN, ready' \in BOOLEAN, served' \in BOOLEAN
      PROVE  TypeOK'
  BY <1>0, <1>t, <1>u DEF TypeOK, Typed
<1>1. CASE SpawnServer
  <2>1. TypeOK'
    BY <1>1, <1>u DEF SpawnServer, TypeOK
  <2> QED BY <1>1, <2>1
      DEF SpawnServer, LoadedOnce, InPhase, GoneInOrder, ServedAsAsked, ServerOver
<1>2. CASE SpawnMetrics
  <2>1. TypeOK'
    BY <1>2, <1>u DEF SpawnMetrics, TypeOK
  <2> QED BY <1>2, <2>1
      DEF SpawnMetrics, LoadedOnce, InPhase, GoneInOrder, ServedAsAsked, ServerOver
<1>3. CASE SpawnSyncer
  <2>1. TypeOK'
    BY <1>3, <1>u DEF SpawnSyncer, TypeOK
  <2> QED BY <1>3, <2>1
      DEF SpawnSyncer, LoadedOnce, InPhase, GoneInOrder, ServedAsAsked, ServerOver
<1>4. CASE JoinServer
  <2>1. TypeOK'
    BY <1>4, <1>u DEF JoinServer, TypeOK
  <2> QED BY <1>4, <2>1
      DEF JoinServer, LoadedOnce, InPhase, GoneInOrder, ServedAsAsked, ServerOver
<1>5. CASE JoinSyncer
  <2>1. TypeOK'
    BY <1>5, <1>u DEF JoinSyncer, TypeOK, ExitCode
  <2> QED BY <1>5, <2>1
      DEF JoinSyncer, LoadedOnce, InPhase, GoneInOrder, ServedAsAsked, ServerOver, ExitCode
<1>6. CASE Signal \/ MetricsStarts \/ MetricsEnds \/ UNCHANGED vars
  <2>1. UNCHANGED <<main, exit, syncStop, server, syncer, localOnly, ready, served>>
        /\ (serverStop => serverStop')
    BY <1>6 DEF Signal, MetricsStarts, MetricsEnds, vars
  <2>2. TypeOK'
    <3>1. serverStop' \in BOOLEAN /\ handler' \in {"none", "waiting", "done"}
          /\ metrics' \in {"none", "starting", "up", "over"}
      BY <1>6 DEF Signal, MetricsStarts, MetricsEnds, vars, TypeOK
    <3> QED BY <1>u, <2>1, <3>1 DEF TypeOK
  <2> QED BY <1>0, <2>1, <2>2
      DEF LoadedOnce, InPhase, GoneInOrder, ServedAsAsked, ServerOver, ExitCode
<1>7. CASE ServerUp
  <2>1. TypeOK'
    BY <1>7, <1>u DEF ServerUp, TypeOK
  <2>2. server' = "plain" => ~settings.server.tls_enabled
    BY <1>7 DEF ServerUp, Listens
  <2>3. ServedAsAsked'
    BY <1>0, <1>7, <2>2 DEF ServerUp, ServedAsAsked
  <2> QED BY <1>7, <2>1, <2>3 DEF ServerUp, LoadedOnce, InPhase, GoneInOrder, ServerOver
<1>8. CASE ServerFailed
  <2>1. TypeOK'
    BY <1>8, <1>u DEF ServerFailed, TypeOK
  <2> QED BY <1>8, <2>1
      DEF ServerFailed, LoadedOnce, InPhase, GoneInOrder, ServedAsAsked, ServerOver
<1>9. CASE ServerDrains \/ ServerBreaks
  <2>1. TypeOK'
    BY <1>9, <1>u DEF ServerDrains, ServerBreaks, TypeOK
  <2> QED BY <1>9, <2>1
      DEF ServerDrains, ServerBreaks, LoadedOnce, InPhase, GoneInOrder, ServedAsAsked, ServerOver
<1>10. CASE SyncerEnds
  <2>1. TypeOK'
    BY <1>10, <1>u DEF SyncerEnds, TypeOK
  <2> QED BY <1>10, <2>1
      DEF SyncerEnds, LoadedOnce, InPhase, GoneInOrder, ServedAsAsked, ServerOver
<1> QED
  BY <1>1, <1>2, <1>3, <1>4, <1>5, <1>6, <1>7, <1>8, <1>9, <1>10 DEF Next, MainStep

(***************************************************************************)
(* The order of main's steps is the order in which tasks start and end, in *)
(* every reachable state and for any files and environments.               *)
(***************************************************************************)
THEOREM ReaderProcessInvariant == Spec => []IndInv
<1>1. IndInv /\ [Next]_vars => IndInv'
  BY LoadStepInd, OtherStepInd
<1> QED BY InitInd, <1>1, PTL DEF Spec

\* The variables of main stay within their types, and what is loaded has
\* every required field.
THEOREM TypeCorrect == Spec => []TypeOK
<1>1. IndInv => TypeOK
  BY DEF IndInv
<1> QED BY ReaderProcessInvariant, <1>1, PTL

-----------------------------------------------------------------------------
(* The properties.                                                         *)

(***************************************************************************)
(* A process that got past loading runs with the variable's value where    *)
(* there is one, else the file's, else the one of default.toml, for any    *)
(* files and environments.                                                 *)
(***************************************************************************)
THEOREM RunsAsConfiguredHolds == Spec => []RunsAsConfigured
<1>1. ASSUME IndInv PROVE RunsAsConfigured
  <2> SUFFICES ASSUME main \notin {"load", "gone"},
                      NEW s \in DOMAIN DefaultToml, NEW f \in DOMAIN DefaultToml[s]
               PROVE  settings[s][f] = IF <<s, f>> \in DOMAIN env THEN env[<<s, f>>]
                                       ELSE IF <<s, f>> \in DOMAIN file THEN file[<<s, f>>]
                                       ELSE DefaultToml[s][f]
    BY DEF RunsAsConfigured
  <2>1. settings = Deserialized(Merge(file, env))
    BY <1>1, LoadedIs DEF IndInv, LoadedOnce, Loaded
  <2>2. s \in Defaulted
    BY TomlAgrees
  <2>3. f \in DOMAIN FieldDefaults[s] /\ DefaultToml[s][f] = FieldDefaults[s][f]
        /\ <<s, f>> # <<"reader", "auth_tokens">>
    BY TomlAgrees
  <2>4. settings[s][f] = IF <<s, f>> \in DOMAIN Merge(file, env) THEN Merge(file, env)[<<s, f>>]
                         ELSE FieldDefaults[s][f]
    BY <2>1, <2>2, <2>3, FieldOf
  <2> QED BY <2>3, <2>4, MergeOf
<1> QED BY ReaderProcessInvariant, <1>1, PTL

(***************************************************************************)
(* Exit code 0 only after a listener that served and was told to stop, and *)
(* no listener in the clear where either layer asks for TLS.               *)
(***************************************************************************)
THEOREM CleanExitServedHolds == Spec => []CleanExitServed
<1>1. ASSUME IndInv PROVE CleanExitServed
  <2>1. exit = 0 => served /\ serverStop
    BY <1>1, NoExitAssumption
    DEF IndInv, InPhase, Running, GoneInOrder, ServedAsAsked, ExitCode, TypeOK
  <2>2. ASSUME server = "plain"
        PROVE  /\ ~(TlsKey \in DOMAIN env /\ env[TlsKey])
               /\ ~(TlsKey \in DOMAIN file \ DOMAIN env /\ file[TlsKey])
    <3>1. settings = Deserialized(Merge(file, env)) /\ ~settings["server"]["tls_enabled"]
      BY <1>1, <2>2, LoadedIs DEF IndInv, LoadedOnce, Loaded, ServedAsAsked
    <3>2. "tls_enabled" \in DOMAIN FieldDefaults["server"] /\ "server" \in Defaulted
      BY DEF FieldDefaults, ServerFields, Defaulted
    <3>3. TlsKey \in DOMAIN Merge(file, env) =>
            settings["server"]["tls_enabled"] = Merge(file, env)[TlsKey]
      BY <3>1, <3>2, FieldOf DEF TlsKey
    <3>4. TlsKey # <<"reader", "auth_tokens">>
      BY DEF TlsKey
    <3> QED BY <3>1, <3>3, <3>4, MergeOf
  <2> QED BY <2>1, <2>2 DEF CleanExitServed
<1> QED BY ReaderProcessInvariant, <1>1, PTL

(***************************************************************************)
(* The syncer is told to stop only when nothing is served any more, and a  *)
(* process that had a server exits only after both have ended.             *)
(***************************************************************************)
THEOREM TwoPhasesHolds == Spec => []TwoPhases
<1>1. IndInv => TwoPhases
  BY DEF IndInv, InPhase, GoneInOrder, TwoPhases, ServerOver, Running
<1> QED BY ReaderProcessInvariant, <1>1, PTL
=============================================================================
