--------------------------- MODULE Configuration ---------------------------
(***************************************************************************)
(* load_config (src/src/core/config.cpp): the file that --config names is  *)
(* read key by key over the built-in values until an entry cannot be       *)
(* converted, and the environment is read over that.  A configuration is a *)
(* function from keys to texts; a file and an environment are functions on *)
(* some of the keys.                                                       *)
(***************************************************************************)
EXTENDS Naturals, Sequences, SequencesExt

CONSTANTS
    Unreadable      \* a text that is no value of its key's type

ServerKeys == <<"rest_addr", "grpc_addr", "ws_addr", "web_root", "openapi_path">>

AnalyzerKeys == <<"frame_ms", "window_ms", "stt_ready_threshold", "min_snr_db",
                  "max_clipping_ratio", "max_silence_ratio">>

SttKeys == <<"enabled", "language", "target_sample_rate", "default_model", "num_threads",
             "models_dir", "parakeet_dir", "whisper_dir", "whisper_callcenter_dir">>

\* the keys in the order in which load_yaml_file reads them
YamlKeys == ServerKeys \o AnalyzerKeys \o SttKeys

Keys == {YamlKeys[i] : i \in 1 .. Len(YamlKeys)}

\* the keys that have an environment variable, and those it converts
EnvironmentKeys ==
    Keys \ {"frame_ms", "window_ms", "min_snr_db", "max_clipping_ratio",
            "max_silence_ratio", "target_sample_rate"}

NumericEnvironmentKeys == {"stt_ready_threshold", "num_threads"}

\* the member initialisers of ServerConfig, AnalyzerConfig and SttConfig
BuiltIn ==
    [rest_addr |-> "0.0.0.0:8080", grpc_addr |-> "0.0.0.0:50051", ws_addr |-> "0.0.0.0:8081",
     web_root |-> "web", openapi_path |-> "openapi/voiceqas.yaml",
     frame_ms |-> "20", window_ms |-> "500", stt_ready_threshold |-> "65",
     min_snr_db |-> "12", max_clipping_ratio |-> "0.02", max_silence_ratio |-> "0.60",
     enabled |-> "true", language |-> "pt", target_sample_rate |-> "16000",
     default_model |-> "auto", num_threads |-> "2", models_dir |-> "/models/stt",
     parakeet_dir |-> "", whisper_dir |-> "", whisper_callcenter_dir |-> ""]

ASSUME UnreadableAssumption == \A key \in Keys : BuiltIn[key] # Unreadable

DefaultPath == "config/voiceqas.example.yaml"

\* the arguments after the program's name: the word after a "--config" is the
\* path, whatever it is, and the last one counts
ConfigPath(argv) ==
    FoldLeft(LAMBDA reading, arg :
                 IF reading.value_next THEN [path |-> arg, value_next |-> FALSE]
                 ELSE [reading EXCEPT !.value_next = (arg = "--config")],
             [path |-> DefaultPath, value_next |-> FALSE], argv).path

\* load_yaml_file gets to the entry of this key and can convert it: an entry
\* that throws leaves the ones before it applied and the others unread
Reads(file, key) ==
    /\ key \in DOMAIN file /\ file[key] # Unreadable
    /\ \E n \in 1 .. Len(YamlKeys) :
           /\ YamlKeys[n] = key
           /\ \A i \in 1 .. n - 1 :
                  YamlKeys[i] \in DOMAIN file => file[YamlKeys[i]] # Unreadable

FromFile(file, config) ==
    [key \in Keys |-> IF Reads(file, key) THEN file[key] ELSE config[key]]

\* what the environment's text is taken for: recognition is off for two
\* spellings and on for every other
EnvironmentValue(key, text) ==
    IF key = "enabled" THEN (IF text \in {"0", "false"} THEN "false" ELSE "true") ELSE text

FromEnvironment(env, config) ==
    [key \in Keys |-> IF key \in DOMAIN env THEN EnvironmentValue(key, env[key]) ELSE config[key]]

\* the conversion of a number in the environment throws, and nobody catches it
EnvironmentThrows(env) ==
    \E key \in NumericEnvironmentKeys : key \in DOMAIN env /\ env[key] = Unreadable

NoFile == [key \in {} |-> ""]

\* Seeded fault: the environment is read first and the file over it
LoadFileLast(argv, files, env) ==
    LET path == ConfigPath(argv)
    IN  FromFile(IF path \in DOMAIN files THEN files[path] ELSE NoFile,
                 FromEnvironment(env, BuiltIn))

\* load_config: files are those that can be opened, by path
LoadConfig(argv, files, env) ==
    LET path == ConfigPath(argv)
    IN  FromEnvironment(env, FromFile(IF path \in DOMAIN files THEN files[path] ELSE NoFile,
                                      BuiltIn))
=============================================================================
