------------------------------ MODULE Settings ------------------------------
(***************************************************************************)
(* The configuration both processes load: a file, overridden key by key by *)
(* SILLAGE_* variables, with defaults for what neither sets.  serde takes  *)
(* a default from one of two places: the field's own when its section is   *)
(* there, the struct's Default when the whole section is missing.          *)
(*                                                                         *)
(* A layer is a function from some of the keys to values; a section is     *)
(* present when a layer names it.  Speeds are in tenths.                   *)
(***************************************************************************)
EXTENDS Integers, Sequences, TLC

CONSTANTS
  Required,  \* a key, or a section, that has no default
  Absent,    \* a section that may be left out
  LoadError  \* load has failed

\* The fields of each section, with what their default_* functions return.
ServerFields ==
  [listen_addr |-> "0.0.0.0:10000", tls_enabled |-> FALSE, cert_path |-> "", key_path |-> ""]

R2Fields ==
  [bucket |-> Required, region |-> "auto",
   endpoint_url |-> "https://example.r2.cloudflarestorage.com",
   access_key_id |-> Required, secret_access_key |-> Required]

StorageFields == [nvme_path |-> "/data"]

LogFields == [level |-> "info", format |-> "json"]

GeyserFields ==
  [endpoint |-> Required, x_token |-> "", commitment |-> "confirmed",
   max_message_size_bytes |-> 64 * 1024 * 1024]

WriterFields ==
  [slots_per_chunk |-> 1000, out_of_order_tolerance_slots |-> 100,
   max_open_chunks |-> 4, channel_capacity |-> 8192]

UploaderFields ==
  [scan_interval_secs |-> 5, max_concurrent_uploads |-> 4, retry_attempts |-> 3,
   retry_initial_delay_ms |-> 1000, local_retention_hours |-> 24, disk_pressure_warn_pct |-> 80]

PacingFields ==
  [enabled |-> TRUE, speed_multiplier |-> 10, lag_warn_ms |-> 5000, lag_drop_ms |-> 30000]

MetricsFields == [enabled |-> TRUE, listen_addr |-> "0.0.0.0:10001"]

ReaderFields ==
  [scan_interval_secs |-> 30, max_concurrent_downloads |-> 4, local_retention_hours |-> 24,
   retry_attempts |-> 3, retry_initial_delay_ms |-> 1000,
   decoded_cache_bytes |-> 768 * 1024 * 1024, index_cache_bytes |-> 134217728,
   auth_tokens |-> << >>, subscription_channel_capacity |-> 1024,
   follow_idle_timeout_secs |-> 900, max_connections_total |-> 256,
   max_connections_per_token |-> 16]

\* Settings: its sections, with the two of [reader] beside it.
Sections == {"server", "r2", "storage", "log", "geyser", "writer", "uploader",
             "reader", "pacing", "metrics"}

FieldDefaults ==
  [server |-> ServerFields, r2 |-> R2Fields, storage |-> StorageFields, log |-> LogFields,
   geyser |-> GeyserFields, writer |-> WriterFields, uploader |-> UploaderFields,
   reader |-> ReaderFields, pacing |-> PacingFields, metrics |-> MetricsFields]

\* The impls of Default, written with the same functions.
PacingDefault == PacingFields
MetricsDefault == MetricsFields
ServerDefault == ServerFields
StorageDefault == StorageFields
LogDefault == LogFields
WriterDefault == WriterFields
UploaderDefault == UploaderFields
ReaderDefault == ReaderFields

\* What a missing section stands for: its Default, None, or an error.
SectionDefaults ==
  [server |-> ServerDefault, r2 |-> Required, storage |-> StorageDefault, log |-> LogDefault,
   geyser |-> Absent, writer |-> WriterDefault, uploader |-> UploaderDefault,
   reader |-> ReaderDefault, pacing |-> PacingDefault, metrics |-> MetricsDefault]

-----------------------------------------------------------------------------
(* Settings::load.                                                         *)

Keys == UNION {{<<s, f>> : f \in DOMAIN FieldDefaults[s]} : s \in Sections}

Present(layer) == {k[1] : k \in DOMAIN layer}

\* deserialize_comma_separated_vec: a list stays as it is, and a string is
\* split and its blank items dropped.
CommaSeparated(items) == SelectSeq(items, LAMBDA t : t # "")

FromEnv(env) ==
  [k \in DOMAIN env |-> IF k = <<"reader", "auth_tokens">> THEN CommaSeparated(env[k]) ELSE env[k]]

Merge_FileWins(file, env) ==
  [k \in DOMAIN file \cup DOMAIN env |-> IF k \in DOMAIN file THEN file[k] ELSE FromEnv(env)[k]]

\* The sources in their order: a later one wins, key by key.
Merge(file, env) ==
  [k \in DOMAIN file \cup DOMAIN env |-> IF k \in DOMAIN env THEN FromEnv(env)[k] ELSE file[k]]

Section(s, layer) ==
  IF s \notin Present(layer) THEN SectionDefaults[s]
  ELSE [f \in DOMAIN FieldDefaults[s] |->
          IF <<s, f>> \in DOMAIN layer THEN layer[<<s, f>>] ELSE FieldDefaults[s][f]]

Deserialized(layer) == [s \in Sections |-> Section(s, layer)]

Complete_SectionsOnly(settings) == \A s \in Sections : settings[s] # Required

\* try_deserialize fails for a required key nobody sets.
Complete(settings) ==
  \A s \in Sections :
    /\ settings[s] # Required
    /\ settings[s] # Absent => \A f \in DOMAIN settings[s] : settings[s][f] # Required

\* An address that parses, for the values in use here.
IsAddr(addr) == addr # "not an address"

\* validate.  A speed that is not finite counts as negative.
Validate(settings) ==
  /\ settings.pacing.speed_multiplier > 0
  /\ settings.server.tls_enabled => settings.server.cert_path # "" /\ settings.server.key_path # ""
  /\ settings.metrics.enabled => IsAddr(settings.metrics.listen_addr)

Load(file, env) ==
  LET settings == Deserialized(Merge(file, env))
  IN  IF Complete(settings) /\ Validate(settings) THEN settings ELSE LoadError

\* R2Client::new: without a bucket and both keys there is no client.
HasR2(settings) ==
  settings.r2.bucket # "" /\ settings.r2.access_key_id # "" /\ settings.r2.secret_access_key # ""
=============================================================================
