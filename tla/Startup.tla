------------------------------- MODULE Startup -------------------------------
(***************************************************************************)
(* Start-up, from main to the first Accept: config.Load reads the file,    *)
(* applies the environment over it and validates, Run and NewServer each   *)
(* validate a copy of their own, and the listener is opened before the     *)
(* upstream of the environment is probed.                                  *)
(*                                                                         *)
(* A text is a word and its form: "plain", "capital" (letters in another   *)
(* case) or "padded" (surrounded by spaces).  A number is itself, with     *)
(* MaxPort for 65535; a duration is a number.  Wrong types, unknown keys,  *)
(* syntax errors, an empty file and a second document are one outcome.     *)
(***************************************************************************)
EXTENDS Integers, Sequences, FiniteSets

CONSTANTS
    Settable,    \* the fields a configuration file or the environment sets
    InFile,      \* bound: fields set by the file
    InEnv,       \* bound: variables set in the environment
    MaxNumber    \* bound: numbers in the file and in the environment

\* The fields of Config by the way they are treated.
Texts == {"proxy_addr", "username", "password", "proto", "cert_path", "key_path",
          "upstream_proxy", "network"}
Switches == {"log_sensitive_data", "privacy_mode", "allow_private_destinations"}
PositiveLimits == {"max_connections", "max_connections_per_ip", "max_tunnels",
                   "max_tunnels_per_ip", "max_idle_conns", "max_idle_conns_per_host",
                   "max_header_bytes", "auth_max_failures"}
PositiveDurations == {"dial_timeout", "tls_handshake_timeout", "tls_reload_interval",
                      "response_header_timeout", "idle_conn_timeout", "read_header_timeout",
                      "idle_timeout", "tunnel_idle_timeout", "auth_failure_window",
                      "auth_block_duration", "shutdown_timeout"}
HTTP2Durations == {"http2_send_ping_timeout", "http2_ping_timeout", "http2_write_byte_timeout"}
Numbers == PositiveLimits \cup PositiveDurations \cup HTTP2Durations
             \cup {"http2_max_concurrent_streams"}
Fields == Texts \cup Switches \cup Numbers \cup {"blocked_destination_ports"}

MaxPort == 2
Plain(word) == [word |-> word, form |-> "plain"]
Empty == Plain("")

ASSUME SettableAssumption == Settable \subseteq Fields

VARIABLES
    stage,      \* how far the start has come
    file,       \* the fields the file sets
    env,        \* the variables set in the environment, other than to nothing
    unparsable, \* those set to something that does not parse
    cfg,        \* the configuration of main and, once validated, of Run
    server,     \* NewServer's copy of it
    upstream,   \* what its proxyFunc selects from
    listener    \* "none", "tcp", "tls" or "closed"

vars == <<stage, file, env, unparsable, cfg, server, upstream, listener>>

defaultConfig ==
    [f \in Fields |->
        CASE f = "proxy_addr" -> Plain("host:port")
          [] f = "proto" -> Plain("http")
          [] f = "network" -> Plain("auto")
          [] f \in Texts \ {"proxy_addr", "proto", "network"} -> Empty
          [] f \in Switches -> FALSE
          [] f \in {"max_connections", "max_tunnels"} -> 2
          [] f = "http2_max_concurrent_streams" -> 0
          [] f = "blocked_destination_ports" -> <<1, 2>>
          [] OTHER -> 1]

\* Settings given so far, with one more, and settings over others.
NoSettings == [f \in {} |-> {}]
With(settings, f, v) == [g \in DOMAIN settings \cup {f} |-> IF g = f THEN v ELSE settings[g]]
Over(settings, c) == [f \in Fields |-> IF f \in DOMAIN settings THEN settings[f] ELSE c[f]]

Init ==
    /\ stage = "write"
    /\ file = NoSettings /\ env = NoSettings /\ unparsable = {}
    /\ cfg = defaultConfig /\ server = NoSettings
    /\ upstream = "none" /\ listener = "none"
------------------------------------------------------------------------------
(* The operator writes the file and sets the environment.                  *)
Words(f) ==
    CASE f = "proto" -> {"http", "https", "ftp"}
      [] f = "network" -> {"auto", "tcp4", "udp"}
      [] f = "proxy_addr" -> {"host:port", " host:port", "host:0", "host"}
      [] f = "upstream_proxy" -> {"direct", "http://host", "http://host/path"}
      [] OTHER -> {"text"}

Forms == {"plain", "capital", "padded"}

Values(f) ==
    IF f \in {"proto", "network", "upstream_proxy"}
    THEN {Empty} \cup [word : Words(f), form : Forms]
    ELSE IF f \in Texts THEN {Empty} \cup {Plain(word) : word \in Words(f)}
    ELSE IF f \in Switches THEN BOOLEAN
    ELSE IF f \in Numbers THEN -1 .. MaxNumber
    ELSE {<<>>, <<1>>, <<1, 2>>, <<1, 1>>, <<1, MaxPort + 1>>, <<0>>}

Settings(s) == /\ DOMAIN s \subseteq Settable
               /\ \A f \in DOMAIN s : s[f] \in Values(f)

TextsFor(f) == [word : Words(f) \cup {""}, form : Forms]

Config(c) ==
    /\ c = [f \in Fields |-> c[f]]
    /\ \A f \in Texts : c[f] \in TextsFor(f)
    /\ \A f \in Switches : c[f] \in BOOLEAN
    /\ \A f \in Numbers : c[f] \in Int
    /\ c["blocked_destination_ports"] \in Seq(Int)

TypeOK ==
    /\ stage \in {"write", "env", "load", "run", "new_server", "listen", "probe", "serving",
                  "failed", "contradicted"}
    /\ Settings(file) /\ Settings(env) /\ unparsable \in SUBSET Settable
    /\ Config(cfg) /\ (server = NoSettings \/ Config(server))
    /\ upstream \in {"none", "direct", "environment", "explicit"}
    /\ listener \in {"none", "tcp", "tls", "closed"}

WriteFile ==
    /\ stage = "write"
    /\ Cardinality(DOMAIN file) < InFile
    /\ \E f \in Settable \ DOMAIN file : \E v \in Values(f) : file' = With(file, f, v)
    /\ UNCHANGED <<stage, env, unparsable, cfg, server, upstream, listener>>

SetEnv ==
    /\ stage = "write"
    /\ Cardinality(DOMAIN env \cup unparsable) < InEnv
    /\ \E f \in Settable \ (DOMAIN env \cup unparsable) :
         \/ /\ \E v \in Values(f) : (f \in Texts => v # Empty) /\ env' = With(env, f, v)
            /\ UNCHANGED unparsable
         \/ f \notin Texts /\ unparsable' = unparsable \cup {f} /\ UNCHANGED env
    /\ UNCHANGED <<stage, file, cfg, server, upstream, listener>>
------------------------------------------------------------------------------
(* config.Load.                                                            *)
Refuse == stage' = "failed" /\ UNCHANGED <<cfg, server, upstream, listener>>

\* decodeConfig over the defaults, or no file, or one that does not decode.
Decode ==
    /\ stage = "write"
    /\ \/ /\ cfg' = Over(file, defaultConfig)
          /\ stage' = "env"
          /\ UNCHANGED <<server, upstream, listener>>
       \/ Refuse
    /\ UNCHANGED <<file, env, unparsable>>

\* applyEnvOverrides and parsePortList.
ApplyEnv ==
    /\ stage = "env"
    /\ IF unparsable = {}
       THEN cfg' = Over(env, cfg) /\ stage' = "load" /\ UNCHANGED <<server, upstream, listener>>
       ELSE Refuse
    /\ UNCHANGED <<file, env, unparsable>>

\* ParseProxyURL and ProxyAddress: the scheme's case does not matter.
ParseProxyURL(t) == t.word = "http://host" /\ t.form # "padded"

Normalized(c) ==
    [c EXCEPT !["proto"] = Plain(@.word),
              !["network"] = Plain(@.word),
              !["upstream_proxy"] = IF @.word = "direct" THEN Plain("direct") ELSE @]

\* Mutant: the stream limit is compared with the total only.
LimitsOrdered_StreamsByTotal(c) ==
    /\ c["max_connections_per_ip"] <= c["max_connections"]
    /\ c["max_tunnels_per_ip"] <= c["max_tunnels"]
    /\ c["http2_max_concurrent_streams"] \in 0 .. c["max_tunnels"]

LimitsOrdered(c) ==
    /\ c["max_connections_per_ip"] <= c["max_connections"]
    /\ c["max_tunnels_per_ip"] <= c["max_tunnels"]
    /\ c["http2_max_concurrent_streams"] \in 0 .. c["max_tunnels"]
    /\ c["http2_max_concurrent_streams"] <= c["max_tunnels_per_ip"]

DialNetwork(t) == t \in {Plain("auto"), Plain("tcp4"), Plain("tcp6")}
validateListenAddress(t) == t.word \in {"host:port", " host:port"}   \* looks at the port only

Valid(c) ==
    /\ c["proto"] \in {Plain("http"), Plain("https")}
    /\ DialNetwork(c["network"]) /\ validateListenAddress(c["proxy_addr"])
    /\ c["proto"] = Plain("https") => c["cert_path"] # Empty /\ c["key_path"] # Empty
    /\ \A f \in PositiveLimits \cup PositiveDurations : c[f] > 0
    /\ LimitsOrdered(c)
    /\ \A f \in HTTP2Durations : c[f] >= 0
    /\ LET ports == c["blocked_destination_ports"]
       IN  \A i \in DOMAIN ports : /\ ports[i] \in 1 .. MaxPort
                                   /\ \A j \in 1 .. i - 1 : ports[j] # ports[i]
    /\ \/ c["upstream_proxy"] \in {Empty, Plain("direct")}
       \/ ParseProxyURL(c["upstream_proxy"])

\* Mutants: only the comparisons ignore case and spaces.
validateConfig_KeepsProto(c) ==
    [ok |-> Valid(Normalized(c)), config |-> [Normalized(c) EXCEPT !["proto"] = c["proto"]]]
validateConfig_KeepsUpstream(c) ==
    [ok |-> Valid(Normalized(c)), config |-> [Normalized(c) EXCEPT !["upstream_proxy"] = c["upstream_proxy"]]]

validateConfig(c) == [ok |-> Valid(Normalized(c)), config |-> Normalized(c)]

\* Validation on the way from stage to stage: Load's own, and Run's.
Validate ==
    /\ stage \in {"load", "run"}
    /\ IF validateConfig(cfg).ok
       THEN /\ cfg' = validateConfig(cfg).config
            /\ stage' = IF stage = "load" THEN "run" ELSE "new_server"
            /\ UNCHANGED <<server, upstream, listener>>
       ELSE IF stage = "load" THEN Refuse
       ELSE stage' = "contradicted" /\ UNCHANGED <<cfg, server, upstream, listener>>
    /\ UNCHANGED <<file, env, unparsable>>
------------------------------------------------------------------------------
(* Run.                                                                    *)

buildProxyFunc(t) ==
    IF t = Plain("direct") THEN "direct"
    ELSE IF t = Empty THEN "environment"
    ELSE IF ParseProxyURL(t) THEN "explicit"
    ELSE "error"

NewServer ==
    /\ stage = "new_server"
    /\ LET validated == validateConfig(cfg)
           proxyFunc == buildProxyFunc(validated.config["upstream_proxy"])
       IN  IF validated.ok /\ proxyFunc # "error"
           THEN /\ server' = validated.config
                /\ upstream' = proxyFunc
                /\ stage' = "listen"
                /\ UNCHANGED <<cfg, listener>>
           ELSE stage' = "contradicted" /\ UNCHANGED <<cfg, server, upstream, listener>>
    /\ UNCHANGED <<file, env, unparsable>>

\* The certificate may not load, the host not be one, the address be taken.
makeListener ==
    /\ stage = "listen"
    /\ \/ /\ cfg["proxy_addr"] = Plain("host:port")
          /\ listener' = IF cfg["proto"] = Plain("https") THEN "tls" ELSE "tcp"
          /\ stage' = "probe"
          /\ UNCHANGED <<cfg, server, upstream>>
       \/ Refuse
    /\ UNCHANGED <<file, env, unparsable>>

\* Only what comes from the environment can still be wrong.
Probe ==
    /\ stage = "probe"
    /\ \/ stage' = "serving" /\ UNCHANGED listener
       \/ upstream = "environment" /\ stage' = "failed" /\ listener' = "closed"
    /\ UNCHANGED <<file, env, unparsable, cfg, server, upstream>>

Next ==
    \/ WriteFile \/ SetEnv
    \/ Decode \/ ApplyEnv \/ Validate
    \/ NewServer \/ makeListener \/ Probe

Spec == Init /\ [][Next]_vars
------------------------------------------------------------------------------
\* effectiveHTTP2MaxConcurrentStreams
effectiveHTTP2MaxConcurrentStreams(c) ==
    IF c["http2_max_concurrent_streams"] > 0 THEN c["http2_max_concurrent_streams"]
    ELSE IF c["max_tunnels"] < c["max_tunnels_per_ip"] THEN c["max_tunnels"]
    ELSE c["max_tunnels_per_ip"]

\* The last value the operator gave for a field: the environment's, else the
\* file's, else the default.
Given(f) == IF f \in DOMAIN env THEN env[f]
            ELSE IF f \in DOMAIN file THEN file[f]
            ELSE defaultConfig[f]

\* Each field of both copies is the environment's value, else the file's, else
\* the default, apart from case and spaces where these do not matter.
FieldsAsGiven ==
    stage = "serving" => /\ server = cfg
                         /\ cfg = Normalized([f \in Fields |-> Given(f)])

\* A running server meets what the limiters, the failure limiter, the
\* certificate reloader, the idle timer and the HTTP/2 server take for granted:
\* limits and times of at least one, a client's share within the total, and no
\* more streams on a connection than the tunnels one client may have.
LimitsFit ==
    stage = "serving" =>
        /\ server["max_connections_per_ip"] \in 1 .. server["max_connections"]
        /\ server["max_tunnels_per_ip"] \in 1 .. server["max_tunnels"]
        /\ effectiveHTTP2MaxConcurrentStreams(cfg) \in 1 .. server["max_tunnels_per_ip"]
        /\ \A f \in {"auth_max_failures", "auth_failure_window", "auth_block_duration",
                    "tls_reload_interval", "tunnel_idle_timeout"} : server[f] >= 1

\* Load, Run and NewServer agree: a configuration that Load has accepted is
\* not refused by a later validation of what the earlier one normalised.
NeverContradicted == stage # "contradicted"

\* An upstream that was asked for, in whatever form, is used: an explicit URL
\* never becomes a direct connection or the environment's proxy.
UpstreamAsAsked ==
    stage = "serving" =>
        LET asked == Given("upstream_proxy").word
        IN  upstream = CASE asked = "direct" -> "direct"
                         [] asked = "" -> "environment"
                         [] OTHER -> "explicit"

\* A proxy that was asked for https, in whatever form, serves TLS: makeListener
\* and the validation read the protocol the same way.
NeverInTheClear ==
    stage = "serving" => (listener = "tls" <=> Given("proto").word = "https")

\* What serves is what was asked for, whatever Load, Run and NewServer and
\* their copies of the configuration made of it on the way: the fields, the
\* upstream and the protocol of the listener.
ServesWhatWasGiven == FieldsAsGiven /\ UpstreamAsAsked /\ NeverInTheClear
==============================================================================
