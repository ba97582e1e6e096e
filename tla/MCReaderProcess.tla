-------------------------- MODULE MCReaderProcess ---------------------------
(***************************************************************************)
(* ReaderProcess with a few files and environments: none and the default   *)
(* file, and single and paired overrides.                                  *)
(***************************************************************************)
EXTENDS ReaderProcess, FiniteSetsExt

NoKeys == [k \in {} |-> ""]

Credentials ==
  <<"r2", "bucket">> :> "b" @@ <<"r2", "access_key_id">> :> "id" @@ <<"r2", "secret_access_key">> :> "s"

\* config/default.toml names the credentials and leaves them blank.
Blank == [k \in DOMAIN Credentials |-> ""]

Tls == <<"server", "tls_enabled">> :> TRUE @@ <<"server", "cert_path">> :> "c"
       @@ <<"server", "key_path">> :> "k"

SmallFiles == {NoKeys, Blank, Blank @@ Tls,
               Blank @@ <<"pacing", "lag_drop_ms">> :> 60000 @@ <<"reader", "auth_tokens">> :> <<"a">>}

\* Values a variable may hold, some of them refused by load or by main.
Overrides ==
  { Credentials, NoKeys, <<"r2", "bucket">> :> "b",
    <<"server", "tls_enabled">> :> TRUE, <<"server", "tls_enabled">> :> FALSE,
    <<"server", "key_path">> :> "",
    <<"server", "listen_addr">> :> "not an address",
    <<"metrics", "listen_addr">> :> "not an address", <<"metrics", "enabled">> :> FALSE,
    <<"pacing", "speed_multiplier">> :> -1, <<"pacing", "speed_multiplier">> :> 20,
    <<"reader", "auth_tokens">> :> <<"", "b">>,
    <<"writer", "max_open_chunks">> :> 2 }

SmallEnvs == {a @@ b : a, b \in Overrides}
=============================================================================
