------------------------------- MODULE Config -------------------------------
(***************************************************************************)
(* internal/config/config.go and cmd/main.go: from the command line and    *)
(* the configuration file to the configuration of the server.  The flags   *)
(* and the file are partial functions from settings to values.             *)
(***************************************************************************)
EXTENDS Integers

CONSTANTS
  Default,      \* the value of every setting
  Flags         \* the settings that have a flag: port, wal, requirepass, maxclients

ASSUME ConfigConstants == Flags \subseteq DOMAIN Default

\* The settings g, those of f written over them.
Over(f, g) == [s \in DOMAIN f \cup DOMAIN g |-> IF s \in DOMAIN f THEN f[s] ELSE g[s]]

\* cfg := Default(), then flag.Parse writes the flags that are given.
ParseFlags(given) == Over(given, Default)

\* A file that is missing (or not named) is no error; one that cannot be read or
\* decoded is.
Load(file) ==
  CASE file.state = "missing" -> [ok |-> "yes", cfg |-> Default]
    [] file.state = "broken" -> [ok |-> "no", cfg |-> Default]
    [] file.state = "read" -> [ok |-> "yes", cfg |-> Over(file.settings, Default)]

\* Faulty variant: every flag is copied, given or not.
MergeAll(cli, file, visited) ==
  [s \in DOMAIN file |-> IF s \in Flags THEN cli[s] ELSE file[s]]

\* flag.Visit visits the flags that are given.
Merge(cli, file, visited) ==
  [s \in DOMAIN file |-> IF s \in visited \cap Flags THEN cli[s] ELSE file[s]]

Exit == << >>

\* main: a configuration, or the exit of the program.
Configured(given, file) ==
  LET loaded == Load(file)
  IN IF loaded.ok = "no" THEN Exit
     ELSE Merge(ParseFlags(given), loaded.cfg, DOMAIN given)

\* Every setting is that of its flag if the flag is given, else that of the file,
\* else the default; a file that cannot be decoded gives no configuration.
InOrder(given, file, cfg) ==
  LET settings == IF file.state = "read" THEN file.settings ELSE << >>
  IN IF file.state = "broken" THEN cfg = Exit
     ELSE /\ DOMAIN cfg = DOMAIN Default
          /\ \A s \in DOMAIN Default :
               cfg[s] = IF s \in DOMAIN given THEN given[s]
                        ELSE IF s \in DOMAIN settings THEN settings[s] ELSE Default[s]
=============================================================================
