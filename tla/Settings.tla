------------------------------ MODULE Settings ------------------------------
(***************************************************************************)
(* What cmdRun settles before it takes the lock: the declared environment  *)
(* (cli/env.go, cli/dotenv.go) and where results go (cli/output.go).       *)
(*                                                                         *)
(* env: declares names, each with <<default>> or <<>>.  The process's      *)
(* environment and a .env file are functions; a .env file is               *)
(* [exists, parses, values].                                               *)
(***************************************************************************)
EXTENDS Sequences, TLC

(* dotenvOverlay: the default file may be absent, a named one may not.     *)
OverlayRefused(file, explicit) == IF file.exists THEN ~file.parses ELSE explicit

OverlayOf(file) == IF file.exists THEN file.values ELSE <<>>

(* layeredLookup: the process's environment wins.                          *)
Layered(process, overlay) == process @@ overlay

MissingEnv(decls, process, overlay) ==
  {n \in DOMAIN decls : n \notin DOMAIN Layered(process, overlay) /\ decls[n] = <<>>}

ResolveEnv(decls, process, overlay) ==
  [n \in DOMAIN decls |-> IF n \in DOMAIN Layered(process, overlay)
                          THEN Layered(process, overlay)[n] ELSE decls[n][1]]

(* An exporter's block is [enabled, endpoint, protocol], enabled <<>> when *)
(* it is not said; flags are [out, otlp], "" when not given.               *)
Exporter(cfg, key) ==
  IF key \in DOMAIN cfg.exporters THEN cfg.exporters[key]
  ELSE [enabled |-> <<>>, endpoint |-> "", protocol |-> ""]

OtlpEnabled(cfg, flags) == flags.otlp # "" \/ Exporter(cfg, "otlp").enabled = <<TRUE>>

OtlpEndpoint(cfg, flags) == IF flags.otlp # "" THEN flags.otlp ELSE Exporter(cfg, "otlp").endpoint

(* Mutant of OutputRefused: a block that is not enabled is checked too.    *)
OutputRefusedAnyway(cfg, flags) ==
  Exporter(cfg, "otlp").protocol \notin {"", "grpc"} \/ OtlpEndpoint(cfg, flags) = ""

(* A disabled exporter's block cannot stop a run.                          *)
OutputRefused(cfg, flags) ==
  /\ OtlpEnabled(cfg, flags)
  /\ Exporter(cfg, "otlp").protocol \notin {"", "grpc"} \/ OtlpEndpoint(cfg, flags) = ""
=============================================================================
