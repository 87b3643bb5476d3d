----------------------- MODULE StartupForwardingProofs -----------------------
(***************************************************************************)
(* For every configuration file and environment: what serves is what was   *)
(* asked for, within the limits the other components assume, and no        *)
(* validation contradicts an earlier one.  For all headers and trailers:   *)
(* the rules of forwarding hold.  Both together: privacy mode, however it  *)
(* was asked for, is what the forwarded requests obey.                     *)
(***************************************************************************)
EXTENDS Startup, Forwarding, FiniteSetTheorems, TLAPS

(*--------------------------------  Startup  ------------------------------*)

(* The configuration as the operator gave it.                              *)
Raw == [f \in Fields |-> Given(f)]

(* Which configuration each stage has, and what is known of it.            *)
StageInv ==
    /\ stage = "write" => cfg = defaultConfig
    /\ stage = "env" => cfg = Over(file, defaultConfig)
    /\ stage = "load" => cfg = Raw
    /\ stage \in {"run", "new_server", "listen", "probe", "serving"} =>
         cfg = Normalized(Raw) /\ Valid(cfg)
    /\ stage \in {"listen", "probe", "serving"} =>
         /\ server = cfg
         /\ upstream = buildProxyFunc(cfg["upstream_proxy"]) /\ upstream # "error"
    /\ stage \in {"probe", "serving"} =>
         listener = IF cfg["proto"] = Plain("https") THEN "tls" ELSE "tcp"
    /\ stage # "contradicted"

Inv == TypeOK /\ StageInv

(* The kinds of fields exclude each other. *)
LEMMA Kinds ==
  /\ Texts \cap Switches = {} /\ Texts \cap Numbers = {} /\ Switches \cap Numbers = {}
  /\ "blocked_destination_ports" \notin Texts \cup Switches \cup Numbers
  /\ {"proto", "network", "upstream_proxy", "proxy_addr"} \subseteq Texts
  /\ {"max_connections", "max_tunnels", "http2_max_concurrent_streams"} \subseteq Numbers
  /\ Fields = Texts \cup Switches \cup Numbers \cup {"blocked_destination_ports"}
<1>1. Texts \cap Switches = {} /\ Texts \cap Numbers = {}
  BY DEF Texts, Switches, Numbers, PositiveLimits, PositiveDurations, HTTP2Durations
<1>2. Switches \cap Numbers = {}
  BY DEF Switches, Numbers, PositiveLimits, PositiveDurations, HTTP2Durations
<1>3. "blocked_destination_ports" \notin Texts \cup Switches \cup Numbers
  BY DEF Texts, Switches, Numbers, PositiveLimits, PositiveDurations, HTTP2Durations
<1>4. {"proto", "network", "upstream_proxy", "proxy_addr"} \subseteq Texts
  BY DEF Texts
<1>5. {"max_connections", "max_tunnels", "http2_max_concurrent_streams"} \subseteq Numbers
  BY DEF Numbers, PositiveLimits
<1>6. QED BY <1>1, <1>2, <1>3, <1>4, <1>5 DEF Fields

(* A word of a field in plain form is a text for the field. *)
LEMMA PlainTyped ==
  ASSUME NEW f, NEW w \in Words(f) \cup {""}
  PROVE  Plain(w) \in TextsFor(f)
BY DEF TextsFor, Forms, Plain

(* So is the empty one. *)
LEMMA EmptyTyped ==
  ASSUME NEW f
  PROVE  Empty \in TextsFor(f)
BY PlainTyped DEF Empty

(* What a file or a variable may set a field to has the field's type. *)
LEMMA ValuesTyped ==
  ASSUME NEW f \in Fields, NEW v \in Values(f)
  PROVE  /\ f \in Texts => v \in TextsFor(f)
         /\ f \in Switches => v \in BOOLEAN
         /\ f \in Numbers => v \in Int
         /\ f = "blocked_destination_ports" => v \in Seq(Int)
<1> USE DEF Values
<1>1. CASE f \in Texts
  <2>1. \/ v = Empty
        \/ v \in [word : Words(f), form : Forms]
        \/ \E word \in Words(f) : v = Plain(word)
    BY <1>1
  <2>2. [word : Words(f), form : Forms] \subseteq TextsFor(f)
    BY DEF TextsFor
  <2>3. v \in TextsFor(f)
    BY <2>1, <2>2, EmptyTyped, PlainTyped
  <2>4. QED BY <1>1, <2>3, Kinds
<1>2. CASE f \in Switches
  BY <1>2, Kinds
<1>3. CASE f \in Numbers
  <2>1. f \notin Texts /\ f \notin Switches /\ f \notin {"proto", "network", "upstream_proxy"}
    BY <1>3, Kinds
  <2>2. v \in -1 .. MaxNumber
    BY <1>3, <2>1
  <2>3. QED BY <1>3, <2>1, <2>2, Kinds
<1>4. CASE f = "blocked_destination_ports"
  <2>1. v = <<>> \/ v = <<1>> \/ v = <<1, 2>> \/ v = <<1, 1>> \/ v = <<1, 3>> \/ v = <<0>>
    BY <1>4, Kinds DEF MaxPort
  <2>2. v \in Seq(Int)
    <3>1. CASE v = <<>>
      BY <3>1
    <3>2. CASE v = <<1>>
      BY <3>2
    <3>6. CASE v = <<0>>
      BY <3>6
    <3>3. CASE v = <<1, 2>>
      BY <3>3
    <3>4. CASE v = <<1, 1>>
      BY <3>4
    <3>5. CASE v = <<1, 3>>
      BY <3>5
    <3>7. QED BY <2>1, <3>1, <3>2, <3>3, <3>4, <3>5, <3>6
  <2>3. QED BY <1>4, <2>2, Kinds
<1>5. QED BY <1>1, <1>2, <1>3, <1>4, Kinds

(* The defaults have the types of their fields. *)
LEMMA DefaultsTyped == Config(defaultConfig)
<1>1. defaultConfig = [f \in Fields |-> defaultConfig[f]]
  BY DEF defaultConfig
<1>2. ASSUME NEW f \in Texts
      PROVE  defaultConfig[f] \in TextsFor(f)
  <2>1. CASE f \in {"proxy_addr", "proto", "network"}
    <3>1. defaultConfig[f] = Plain(CASE f = "proxy_addr" -> "host:port"
                                     [] f = "proto" -> "http"
                                     [] f = "network" -> "auto")
      BY <2>1, Kinds DEF defaultConfig
    <3>2. QED BY <2>1, <3>1, PlainTyped DEF Words
  <2>2. CASE f \notin {"proxy_addr", "proto", "network"}
    <3>1. /\ f \in Fields /\ f \notin Switches /\ f # "blocked_destination_ports"
          /\ f \notin {"max_connections", "max_tunnels", "http2_max_concurrent_streams"}
      BY Kinds
    <3>2. defaultConfig[f] = Empty
      BY <2>2, <3>1 DEF defaultConfig
    <3>3. QED BY <3>2, EmptyTyped
  <2>3. QED BY <2>1, <2>2
<1>3. ASSUME NEW f \in Switches PROVE defaultConfig[f] \in BOOLEAN
  <2>1. /\ f \in Fields /\ f \notin Texts /\ f \notin {"proxy_addr", "proto", "network"}
        /\ f \notin {"max_connections", "max_tunnels", "http2_max_concurrent_streams"}
        /\ f # "blocked_destination_ports"
    BY Kinds
  <2>2. defaultConfig[f] = FALSE
    BY <2>1 DEF defaultConfig
  <2>3. QED BY <2>2
<1>4. ASSUME NEW f \in Numbers PROVE defaultConfig[f] \in Int
  <2>1. /\ f \in Fields /\ f \notin Texts /\ f \notin Switches
        /\ f \notin {"proxy_addr", "proto", "network", "blocked_destination_ports"}
    BY Kinds
  <2>2. defaultConfig[f] = 2 \/ defaultConfig[f] = 0 \/ defaultConfig[f] = 1
    BY <2>1 DEF defaultConfig
  <2>3. QED BY <2>2
<1>5. defaultConfig["blocked_destination_ports"] \in Seq(Int)
  BY Kinds DEF defaultConfig
<1>6. QED BY <1>1, <1>2, <1>3, <1>4, <1>5 DEF Config

(* Setting one more field keeps the type of the settings (the decoder and  *)
(* applyEnvOverrides).                                                     *)
LEMMA WithTyped ==
  ASSUME NEW s, Settings(s), NEW f \in Settable, NEW v \in Values(f)
  PROVE  Settings(With(s, f, v))
BY DEF Settings, With

(* Settings over a configuration make a configuration. *)
LEMMA OverTyped ==
  ASSUME NEW s, Settings(s), NEW c, Config(c)
  PROVE  Config(Over(s, c))
<1> DEFINE o == Over(s, c)
<1>1. o = [f \in Fields |-> o[f]]
  BY DEF Over
<1>2. ASSUME NEW f \in Fields
      PROVE  IF f \in DOMAIN s THEN o[f] \in Values(f) ELSE o[f] = c[f]
  BY DEF Over, Settings
<1> HIDE DEF o
<1>3. ASSUME NEW f \in Texts
      PROVE  o[f] \in TextsFor(f)
  BY <1>2, Kinds, ValuesTyped DEF Config
<1>4. ASSUME NEW f \in Switches PROVE o[f] \in BOOLEAN
  BY <1>2, Kinds, ValuesTyped DEF Config
<1>5. ASSUME NEW f \in Numbers PROVE o[f] \in Int
  BY <1>2, Kinds, ValuesTyped DEF Config
<1>6. o["blocked_destination_ports"] \in Seq(Int)
  BY <1>2, Kinds, ValuesTyped DEF Config
<1>7. Config(o)
  BY <1>1, <1>3, <1>4, <1>5, <1>6 DEF Config
<1>8. QED BY <1>7 DEF o

(* What normalising a configuration changes. *)
LEMMA NormalizedFields ==
  ASSUME NEW c, c = [f \in Fields |-> c[f]]
  PROVE  /\ Normalized(c) = [f \in Fields |-> Normalized(c)[f]]
         /\ Normalized(c)["proto"] = Plain(c["proto"].word)
         /\ Normalized(c)["network"] = Plain(c["network"].word)
         /\ Normalized(c)["upstream_proxy"] = IF c["upstream_proxy"].word = "direct"
                                              THEN Plain("direct") ELSE c["upstream_proxy"]
         /\ \A f \in Fields \ {"proto", "network", "upstream_proxy"} : Normalized(c)[f] = c[f]
BY Kinds DEF Normalized

(* Normalising keeps the types. *)
LEMMA NormalizedTyped ==
  ASSUME NEW c, Config(c)
  PROVE  Config(Normalized(c))
<1> DEFINE n == Normalized(c)
<1>1. /\ n = [f \in Fields |-> n[f]]
      /\ n["proto"] = Plain(c["proto"].word) /\ n["network"] = Plain(c["network"].word)
      /\ n["upstream_proxy"] = Plain("direct") \/ n["upstream_proxy"] = c["upstream_proxy"]
      /\ \A f \in Fields \ {"proto", "network", "upstream_proxy"} : n[f] = c[f]
  BY NormalizedFields DEF Config
<1> HIDE DEF n
<1>2. ASSUME NEW f \in Texts
      PROVE  n[f] \in TextsFor(f)
  <2>1. c[f] \in TextsFor(f)
    BY DEF Config
  <2>2. CASE f \in {"proto", "network"}
    <3>1. n[f] = Plain(c[f].word) /\ c[f].word \in Words(f) \cup {""}
      BY <1>1, <2>1, <2>2 DEF TextsFor
    <3>2. QED BY <3>1, PlainTyped
  <2>3. CASE f = "upstream_proxy"
    <3>1. Plain("direct") \in TextsFor(f)
      BY <2>3, PlainTyped DEF Words
    <3>2. QED BY <1>1, <2>1, <2>3, <3>1
  <2>4. CASE f \notin {"proto", "network", "upstream_proxy"}
    BY <1>1, <2>1, <2>4, Kinds
  <2>5. QED BY <2>2, <2>3, <2>4
<1>3. \A f \in Switches : n[f] \in BOOLEAN
  BY <1>1, Kinds DEF Config
<1>4. \A f \in Numbers : n[f] \in Int
  BY <1>1, Kinds DEF Config
<1>5. n["blocked_destination_ports"] \in Seq(Int)
  BY <1>1, Kinds DEF Config
<1>6. Config(n)
  BY <1>1, <1>2, <1>3, <1>4, <1>5 DEF Config
<1>7. QED BY <1>6 DEF n

(* Validating twice is validating once: what validateConfig normalised it  *)
(* leaves alone the next time.                                             *)
LEMMA NormalizedOnce ==
  ASSUME NEW c, c = [f \in Fields |-> c[f]]
  PROVE  Normalized(Normalized(c)) = Normalized(c)
BY Kinds DEF Normalized, Plain

(* An upstream that validation accepts is one buildProxyFunc understands.  *)
LEMMA ValidUpstream ==
  ASSUME NEW c, Valid(c)
  PROVE  buildProxyFunc(c["upstream_proxy"]) \in {"direct", "environment", "explicit"}
BY DEF Valid, buildProxyFunc

(* The first state satisfies the invariant. *)
LEMMA InitInv == Init => Inv
<1> SUFFICES ASSUME Init PROVE Inv
  OBVIOUS
<1>1. Settings(NoSettings)
  BY DEF Settings, NoSettings
<1>2. TypeOK
  BY <1>1, DefaultsTyped DEF Init, TypeOK
<1>3. QED BY <1>2 DEF Init, Inv, StageInv

(* Every step keeps the invariant, one case per action. *)
LEMMA StepInv ==
  ASSUME Inv, [Next]_vars
  PROVE  Inv'
<1> USE DEF Inv
<1>1. CASE WriteFile
  <2>1. stage = "write" /\ stage' = "write" /\ UNCHANGED <<env, unparsable, cfg, server, upstream, listener>>
    BY <1>1 DEF WriteFile
  <2>2. Settings(file')
    BY <1>1, WithTyped DEF WriteFile, TypeOK
  <2>3. TypeOK'
    BY <2>1, <2>2 DEF TypeOK, Settings
  <2>4. QED BY <2>1, <2>3 DEF StageInv
<1>2. CASE SetEnv
  <2>1. stage = "write" /\ stage' = "write" /\ UNCHANGED <<file, cfg, server, upstream, listener>>
    BY <1>2 DEF SetEnv
  <2>2. Settings(env') /\ unparsable' \in SUBSET Settable
    BY <1>2, WithTyped DEF SetEnv, TypeOK
  <2>3. TypeOK'
    BY <2>1, <2>2 DEF TypeOK, Settings
  <2>4. QED BY <2>1, <2>3 DEF StageInv
<1>3. CASE Decode
  <2>1. Config(Over(file, defaultConfig))
    BY DefaultsTyped, OverTyped DEF TypeOK
  <2>2. TypeOK'
    BY <1>3, <2>1 DEF Decode, Refuse, TypeOK, Settings
  <2>3. QED BY <1>3, <2>2 DEF Decode, Refuse, StageInv
<1>4. CASE ApplyEnv
  <2>1. Config(Over(env, cfg))
    BY OverTyped DEF TypeOK
  <2>2. TypeOK'
    BY <1>4, <2>1 DEF ApplyEnv, Refuse, TypeOK, Settings
  <2>3. cfg' = Over(env, cfg) => cfg' = Raw'
    BY <1>4 DEF ApplyEnv, Over, StageInv, Raw, Given
  <2>4. QED BY <1>4, <2>2, <2>3 DEF ApplyEnv, Refuse, StageInv
<1>5. CASE Validate
  <2>1. Config(Normalized(cfg)) /\ Normalized(Normalized(cfg)) = Normalized(cfg)
    BY NormalizedTyped, NormalizedOnce DEF TypeOK, Config
  <2>2. TypeOK'
    BY <1>5, <2>1 DEF Validate, validateConfig, Refuse, TypeOK, Settings
  <2>3. Raw' = Raw
    BY <1>5 DEF Validate, Raw, Given
  <2>4. CASE stage = "load"
    BY <1>5, <2>2, <2>3, <2>4 DEF Validate, validateConfig, Refuse, StageInv
  <2>5. CASE stage = "run"
    <3>1. Normalized(cfg) = cfg /\ Valid(cfg)
      BY <2>5, NormalizedOnce DEF StageInv, Raw
    <3>2. QED BY <1>5, <2>2, <2>3, <2>5, <3>1 DEF Validate, validateConfig, StageInv
  <2>6. QED BY <1>5, <2>4, <2>5 DEF Validate
<1>6. CASE NewServer
  <2>1. cfg = Normalized(Raw) /\ Valid(cfg)
    BY <1>6 DEF NewServer, StageInv
  <2>2. Normalized(cfg) = cfg
    BY <2>1, NormalizedOnce DEF Raw
  <2>3. buildProxyFunc(cfg["upstream_proxy"]) \in {"direct", "environment", "explicit"}
    BY <2>1, ValidUpstream
  <2>4. /\ server' = cfg /\ upstream' = buildProxyFunc(cfg["upstream_proxy"])
        /\ stage' = "listen" /\ UNCHANGED <<cfg, listener, file, env, unparsable>>
    BY <1>6, <2>1, <2>2, <2>3 DEF NewServer, validateConfig
  <2>5. Raw' = Raw
    BY <2>4 DEF Raw, Given
  <2>6. TypeOK'
    BY <2>3, <2>4 DEF TypeOK, Settings
  <2>7. QED BY <2>1, <2>3, <2>4, <2>5, <2>6 DEF StageInv
<1>7. CASE makeListener
  <2>1. TypeOK'
    BY <1>7 DEF makeListener, Refuse, TypeOK, Settings
  <2>2. Raw' = Raw
    BY <1>7 DEF makeListener, Raw, Given
  <2>3. QED BY <1>7, <2>1, <2>2 DEF makeListener, Refuse, StageInv
<1>8. CASE Probe
  <2>1. TypeOK'
    BY <1>8 DEF Probe, TypeOK, Settings
  <2>2. Raw' = Raw
    BY <1>8 DEF Probe, Raw, Given
  <2>3. QED BY <1>8, <2>1, <2>2 DEF Probe, StageInv
<1>9. CASE UNCHANGED vars
  <2>1. TypeOK'
    BY <1>9 DEF vars, TypeOK, Settings
  <2>2. Raw' = Raw
    BY <1>9 DEF vars, Raw, Given
  <2>3. QED BY <1>9, <2>1, <2>2 DEF vars, StageInv
<1>10. QED
  BY <1>1, <1>2, <1>3, <1>4, <1>5, <1>6, <1>7, <1>8, <1>9 DEF Next

(* The invariant holds in every state. *)
LEMMA Invariance == Spec => []Inv
<1>1. Inv /\ [Next]_vars => Inv'
  BY StepInv
<1>2. QED BY InitInv, <1>1, PTL DEF Spec

(* Every field keeps its type on its way through decodeConfig,             *)
(* applyEnvOverrides and the three validations.                            *)
THEOREM Types == Spec => []TypeOK
<1>1. Inv => TypeOK
  BY DEF Inv
<1>2. QED BY <1>1, Invariance, PTL

(* What serves is what was asked for: validateConfig normalises a value    *)
(* once and its second and third run, in Run and NewServer, change nothing.*)
THEOREM ServesAsGiven == Spec => []ServesWhatWasGiven
<1>1. Inv => ServesWhatWasGiven
  <2> SUFFICES ASSUME Inv, stage = "serving" PROVE ServesWhatWasGiven
    BY DEF ServesWhatWasGiven, FieldsAsGiven, UpstreamAsAsked, NeverInTheClear
  <2>1. /\ server = cfg /\ cfg = Normalized(Raw) /\ Valid(cfg)
        /\ upstream = buildProxyFunc(cfg["upstream_proxy"])
        /\ listener = IF cfg["proto"] = Plain("https") THEN "tls" ELSE "tcp"
    BY DEF Inv, StageInv
  <2>2. FieldsAsGiven
    BY <2>1 DEF FieldsAsGiven, Raw
  <2>3. /\ cfg["proto"] = Plain(Given("proto").word)
        /\ cfg["upstream_proxy"] = IF Given("upstream_proxy").word = "direct"
                                   THEN Plain("direct") ELSE Given("upstream_proxy")
    <3>1. /\ cfg["proto"] = Plain(Raw["proto"].word)
          /\ cfg["upstream_proxy"] = IF Raw["upstream_proxy"].word = "direct"
                                     THEN Plain("direct") ELSE Raw["upstream_proxy"]
      BY <2>1, NormalizedFields DEF Raw
    <3>2. Raw["proto"] = Given("proto") /\ Raw["upstream_proxy"] = Given("upstream_proxy")
      BY Kinds DEF Raw
    <3>3. QED BY <3>1, <3>2
  <2>4. NeverInTheClear
    BY <2>1, <2>3 DEF NeverInTheClear, Plain
  <2>5. UpstreamAsAsked
    <3> DEFINE asked == Given("upstream_proxy").word
    <3>1. CASE asked = "direct"
      <4>1. upstream = "direct"
        BY <2>1, <2>3, <3>1 DEF buildProxyFunc
      <4>2. QED BY <3>1, <4>1 DEF UpstreamAsAsked
    <3>2. CASE asked # "direct" /\ cfg["upstream_proxy"] = Empty
      <4>1. cfg["upstream_proxy"] = Given("upstream_proxy")
        BY <2>3, <3>2
      <4>2. Empty.word = "" /\ Empty # Plain("direct")
        BY DEF Empty, Plain
      <4>3. asked = ""
        BY <3>2, <4>1, <4>2
      <4>4. upstream = "environment"
        BY <2>1, <3>2, <4>2 DEF buildProxyFunc
      <4>5. QED BY <4>3, <4>4 DEF UpstreamAsAsked
    <3>3. CASE asked # "direct" /\ cfg["upstream_proxy"] # Empty
      <4>1. cfg["upstream_proxy"] = Given("upstream_proxy")
        BY <2>3, <3>3
      <4>2. cfg["upstream_proxy"] # Plain("direct")
        BY <3>3, <4>1 DEF Plain
      <4>3. ParseProxyURL(cfg["upstream_proxy"])
        BY <2>1, <3>3, <4>2 DEF Valid
      <4>4. asked = "http://host"
        BY <4>1, <4>3 DEF ParseProxyURL
      <4>5. upstream = "explicit"
        BY <2>1, <3>3, <4>2, <4>3 DEF buildProxyFunc
      <4>6. QED BY <4>4, <4>5 DEF UpstreamAsAsked
    <3>4. QED BY <3>1, <3>2, <3>3
  <2>6. QED BY <2>2, <2>4, <2>5 DEF ServesWhatWasGiven
<1>2. QED BY <1>1, Invariance, PTL

(* The limits and times of a running server are what its parts assume      *)
(* (validateConfig and effectiveHTTP2MaxConcurrentStreams): the assumptions *)
(* of ConcurrentLimiter, FailureLimiter, CertificateReloader and Relay.    *)
THEOREM LimitsAlwaysFit == Spec => []LimitsFit
<1>1. Inv => LimitsFit
  <2> SUFFICES ASSUME Inv, stage = "serving" PROVE LimitsFit
    BY DEF LimitsFit
  <2>1. server = cfg /\ Valid(cfg) /\ \A f \in Numbers : cfg[f] \in Int
    BY DEF Inv, StageInv, TypeOK, Config
  <2>2. {"auth_max_failures", "auth_failure_window", "auth_block_duration",
         "tls_reload_interval", "tunnel_idle_timeout", "max_connections",
         "max_connections_per_ip", "max_tunnels", "max_tunnels_per_ip"}
           \subseteq PositiveLimits \cup PositiveDurations
    BY DEF PositiveLimits, PositiveDurations
  <2>3. \A f \in PositiveLimits \cup PositiveDurations : cfg[f] \in Int /\ cfg[f] > 0
    BY <2>1 DEF Valid, Numbers
  <2>4. LimitsOrdered(cfg) /\ cfg["http2_max_concurrent_streams"] \in Int
    BY <2>1, Kinds DEF Valid
  <2>5. QED BY <2>1, <2>2, <2>3, <2>4
            DEF LimitsFit, LimitsOrdered, effectiveHTTP2MaxConcurrentStreams
<1>2. QED BY <1>1, Invariance, PTL

(* A configuration that Load accepted is accepted by Run and by NewServer, *)
(* whose buildProxyFunc understands its upstream.                          *)
THEOREM ValidationsAgree == Spec => []NeverContradicted
<1>1. Inv => NeverContradicted
  BY DEF Inv, StageInv, NeverContradicted
<1>2. QED BY <1>1, Invariance, PTL

(*------------------------------  Forwarding  -----------------------------*)

(* The response's header before trailers are announced, and the request's  *)
(* but for TE: nothing private is in it, and a Content-Length passes that  *)
(* its Connection field does not list.                                     *)
LEMMA NamesClean ==
  ASSUME NEW h \in Headers
  PROVE  /\ backHeader(h) \in SUBSET FieldNames
         /\ privacyMode => backHeader(h) \cap Private = {}
         /\ "Content-Length" \in h.names \ Listed(h) => "Content-Length" \in backHeader(h)
<1> DEFINE kept == removeHopByHopHeaders(h)
<1>1. /\ kept \in SUBSET FieldNames
      /\ "Content-Length" \in h.names \ Listed(h) => "Content-Length" \in kept
  BY ForwardingAssumption DEF removeHopByHopHeaders, FieldNames
<1>2. CASE privacyMode
  <2>1. backHeader(h) = kept \ Private
    BY <1>2 DEF backHeader, appendVia, removePrivacyHeaders
  <2> HIDE DEF kept
  <2>2. QED BY <1>1, <2>1, ForwardingAssumption
<1>3. CASE ~privacyMode
  <2>1. backHeader(h) = kept \cup {"Via"}
    BY <1>3 DEF backHeader, appendVia, removePrivacyHeaders
  <2>2. "Via" \in FieldNames
    BY DEF FieldNames
  <2> HIDE DEF kept
  <2>3. QED BY <1>1, <1>3, <2>1, <2>2
<1>4. QED BY <1>2, <1>3

(* The header of the request may have "TE: trailers" besides.              *)
LEMMA OutHeaderClean ==
  ASSUME NEW h \in Headers
  PROVE  /\ outHeader(h) \in SUBSET FieldNames
         /\ privacyMode => outHeader(h) \cap Private = {}
<1>1. outHeader(h) = backHeader(h) \cup IF "Te" \in h.names /\ h.trailers THEN {"Te"} ELSE {}
  BY DEF outHeader, backHeader
<1>2. "Te" \in FieldNames /\ "Te" \notin Private
  BY ForwardingAssumption DEF FieldNames
<1>3. QED BY <1>1, <1>2, NamesClean

(* copyTrailers compares numbers of names only.  That is enough: the map   *)
(* never loses an announced name, so as many names as were announced are   *)
(* the announced ones.                                                     *)
LEMMA SameCountSameNames ==
  ASSUME NEW K \in SUBSET TrailerNames, NEW A \in SUBSET K,
         Cardinality(K) = Cardinality(A)
  PROVE  K = A
<1>1. IsFiniteSet(K)
  BY ForwardingAssumption, FS_Subset
<1>2. QED BY <1>1, FS_Subset

(* The trailers of the request: those announced wait in the map the two    *)
(* requests share until EOF, and what the map then holds is filtered.      *)
RequestInv ==
    /\ body \in {"none", "failed"} => sentTrailers = {}
    /\ body = "open" =>
         /\ sentTrailers = {} /\ trailer.filled = {}
         /\ trailer.keys = removePrivacyHeaders(said.announced)
         /\ trailer.nil => said.announced = {}
    /\ body = "eof" =>
         /\ sentTrailers = {}
         /\ removePrivacyHeaders(said.announced \cap said.sent) \subseteq trailer.filled
         /\ privacyMode => trailer.filled \cap Private = {}
    /\ body = "written" =>
         /\ framing = "chunked" =>
              removePrivacyHeaders(said.announced \cap said.sent) \subseteq sentTrailers
         /\ privacyMode => sentTrailers \cap Private = {}

(* The header of the request, for either kind of request, and its Trailer  *)
(* field.                                                                  *)
SentInv ==
    /\ response = "start" => body = "none" /\ sentHeader = {} /\ sentNames = {}
    /\ privacyMode => (sentHeader \cup sentNames) \cap Private = {}

(* The response: the announced names are filtered ones, counted, and every *)
(* trailer of the origin is in the map until it is filtered.               *)
ResponseInv ==
    /\ response \in {"start", "waiting"} =>
         clientHeader = {} /\ clientTrailers = {} /\ origin = {} /\ announced.names = {}
    /\ response \in {"start", "waiting", "copying"} => clientEnd = "none"
    /\ response \in {"copying", "copied"} =>
         /\ clientTrailers = {}
         /\ announced.count = Cardinality(announced.names)
         /\ announced.names = removePrivacyHeaders(announced.names)
    /\ response = "copying" =>
         respTrailer.keys = announced.names /\ respTrailer.filled = {} /\ origin = {}
    /\ response = "copied" =>
         respTrailer.keys = announced.names \cup origin /\ respTrailer.filled = origin
    /\ response = "failed" => clientTrailers = {}
    /\ response = "done" =>
         /\ proto # "HTTP/1.0" => removePrivacyHeaders(origin) \subseteq clientTrailers
         /\ clientTrailers \ origin \subseteq clientHeader
    /\ "Content-Length" \in originHeader.names \ Listed(originHeader) =>
         /\ response = "copying" => "Content-Length" \in clientHeader
         /\ response = "failed" => clientEnd # "complete"
    /\ privacyMode => (clientHeader \cup clientTrailers \cup announced.names) \cap Private = {}

ForwardInv == ForwardTypeOK /\ RequestInv /\ SentInv /\ ResponseInv

(* A request that has not been looked at yet satisfies the invariant. *)
LEMMA ForwardInitInv == ForwardInit => ForwardInv
<1> SUFFICES ASSUME ForwardInit PROVE ForwardInv
  OBVIOUS
<1> USE DEF ForwardInit
<1>1. ForwardTypeOK
  BY DEF ForwardTypeOK, TrailerMaps, Nil
<1>2. RequestInv /\ SentInv
  BY DEF RequestInv, SentInv
<1>3. ResponseInv
  BY DEF ResponseInv
<1>4. QED BY <1>1, <1>2, <1>3 DEF ForwardInv

(* The filter of privacy mode on the maps of trailers.                     *)
LEMMA FilterMapFields ==
  ASSUME NEW m \in TrailerMaps
  PROVE  /\ FilterMap(m) \in TrailerMaps
         /\ FilterMap(m).keys = removePrivacyHeaders(m.keys)
         /\ FilterMap(m).filled = removePrivacyHeaders(m.filled)
         /\ FilterMap(m).nil = m.nil
<1>1. removePrivacyHeaders(m.keys) \in SUBSET TrailerNames
  BY DEF removePrivacyHeaders, TrailerMaps
<1>2. removePrivacyHeaders(m.filled) \in SUBSET TrailerNames
  BY DEF removePrivacyHeaders, TrailerMaps
<1>3. QED BY <1>1, <1>2 DEF FilterMap, TrailerMaps

(* A header that announces trailers has no values for them yet.            *)
LEMMA AnnouncementFields ==
  ASSUME NEW m \in Announcements
  PROVE  m \in TrailerMaps /\ m.filled = {} /\ (m.nil => m.keys = {})
<1>1. CASE m = Nil
  BY <1>1 DEF Nil, TrailerMaps
<1>2. ASSUME NEW T \in SUBSET TrailerNames, m = Map(T, {})
      PROVE  m \in TrailerMaps /\ m.filled = {} /\ ~m.nil
  BY <1>2 DEF Map, TrailerMaps
<1>3. QED BY <1>1, <1>2 DEF Announcements

(* At EOF the announced trailers that were sent have their values, if      *)
(* there is a map at all.                                                  *)
LEMMA FilledFields ==
  ASSUME NEW m \in TrailerMaps, NEW sent \in SUBSET TrailerNames, proto \in Protocols
  PROVE  /\ Filled(m, sent) \in TrailerMaps
         /\ ~m.nil => m.keys \cap sent \subseteq Filled(m, sent).filled
<1>1. CASE m.nil
  BY <1>1 DEF Filled
<1>2. CASE ~m.nil /\ proto = "HTTP/1.1"
  BY <1>2 DEF Filled, Map, TrailerMaps
<1>3. CASE ~m.nil /\ proto # "HTTP/1.1"
  BY <1>3 DEF Filled, Map, TrailerMaps
<1>4. QED BY <1>1, <1>2, <1>3

(* Every step keeps the invariant, one case per action.                    *)
LEMMA ForwardStepInv ==
  ASSUME ForwardInv, [ForwardNext]_forwardVars
  PROVE  ForwardInv'
<1> USE DEF ForwardInv
<1>1. CASE ForwardConnect
  <2> USE <1>1 DEF ForwardConnect
  <2>1. sentHeader' \subseteq {"Via"} /\ (privacyMode => sentHeader' = {})
    BY DEF appendVia
  <2>2. ForwardTypeOK'
    BY <2>1 DEF ForwardTypeOK, FieldNames
  <2>3. RequestInv'
    BY DEF RequestInv, removePrivacyHeaders
  <2>4. SentInv'
    BY <2>1, ForwardingAssumption DEF SentInv
  <2>5. ResponseInv'
    BY DEF ResponseInv, removePrivacyHeaders
  <2>6. QED BY <2>2, <2>3, <2>4, <2>5
<1>2. ASSUME NEW m \in Announcements, NEW f \in {"none", "length", "chunked"}, Forward(m, f)
      PROVE  ForwardInv'
  <2> USE <1>2 DEF Forward
  <2>1. /\ trailer' \in TrailerMaps /\ trailer'.filled = {}
        /\ trailer'.keys = removePrivacyHeaders(m.keys)
        /\ trailer'.nil => m.keys = {}
    BY AnnouncementFields, FilterMapFields DEF removePrivacyHeaders
  <2>2. said' \in [announced : SUBSET TrailerNames, sent : SUBSET TrailerNames]
        /\ said'.announced = m.keys
    BY AnnouncementFields DEF ForwardTypeOK, TrailerMaps
  <2>3. ForwardTypeOK'
    <3>1. sentHeader' \in SUBSET FieldNames
      BY OutHeaderClean DEF ForwardTypeOK
    <3>2. sentNames' \in SUBSET TrailerNames
      BY <2>1 DEF TrailerMaps
    <3>3. QED BY <2>1, <2>2, <3>1, <3>2 DEF ForwardTypeOK
  <2>4. RequestInv'
    BY <2>1, <2>2 DEF RequestInv, SentInv, removePrivacyHeaders
  <2>5. SentInv'
    <3>1. privacyMode => sentHeader' \cap Private = {}
      BY OutHeaderClean DEF ForwardTypeOK
    <3>2. privacyMode => sentNames' \cap Private = {}
      BY <2>1 DEF removePrivacyHeaders
    <3>3. QED BY <3>1, <3>2 DEF SentInv
  <2>6. ResponseInv'
    BY DEF ResponseInv, removePrivacyHeaders
  <2>7. QED BY <2>3, <2>4, <2>5, <2>6
<1>3. ASSUME NEW sent \in SUBSET TrailerNames, RequestEOF(sent) PROVE ForwardInv'
  <2> USE <1>3 DEF RequestEOF, sentVars
  <2>1. Filled(trailer, sent) \in TrailerMaps
        /\ (~trailer.nil => trailer.keys \cap sent \subseteq Filled(trailer, sent).filled)
    BY FilledFields DEF ForwardTypeOK
  <2>2. trailer' \in TrailerMaps
        /\ trailer'.filled = removePrivacyHeaders(Filled(trailer, sent).filled)
    BY <2>1, FilterMapFields
  <2>3. said' \in [announced : SUBSET TrailerNames, sent : SUBSET TrailerNames]
        /\ said'.announced = said.announced /\ said'.sent = sent
    BY DEF ForwardTypeOK
  <2>4. ForwardTypeOK'
    BY <2>2, <2>3 DEF ForwardTypeOK, responseVars
  <2>5. RequestInv'
    BY <2>1, <2>2, <2>3 DEF RequestInv, removePrivacyHeaders
  <2>6. SentInv'
    BY DEF SentInv, responseVars
  <2>7. ResponseInv'
    BY DEF ResponseInv, responseVars, removePrivacyHeaders
  <2>8. QED BY <2>4, <2>5, <2>6, <2>7
<1>4. CASE RequestWritten \/ RequestBodyFails
  <2> USE <1>4 DEF RequestWritten, RequestBodyFails, sentVars, responseVars
  <2>1. ForwardTypeOK'
    BY DEF ForwardTypeOK, TrailerMaps
  <2>2. RequestInv'
    BY DEF RequestInv, removePrivacyHeaders
  <2>3. SentInv'
    BY DEF SentInv
  <2>4. ResponseInv'
    BY DEF ResponseInv, removePrivacyHeaders
  <2>5. QED BY <2>1, <2>2, <2>3, <2>4
<1>5. CASE RoundTripFails \/ ResponseBodyFails
  <2> USE <1>5 DEF RoundTripFails, ResponseBodyFails, requestVars, sentVars
  <2>1. ForwardTypeOK'
    BY DEF ForwardTypeOK
  <2>2. RequestInv' /\ SentInv'
    BY DEF RequestInv, SentInv, removePrivacyHeaders
  <2>3. ResponseInv'
    BY DEF ResponseInv, removePrivacyHeaders
  <2>4. QED BY <2>1, <2>2, <2>3
<1>6. ASSUME NEW h \in Headers, NEW m \in Announcements, ResponseArrives(h, m)
      PROVE  ForwardInv'
  <2> USE <1>6 DEF ResponseArrives, announceTrailers, requestVars, sentVars
  <2>1. /\ clientHeader' = backHeader(h) \/ clientHeader' = backHeader(h) \cup {"Trailer"}
        /\ "Trailer" \in FieldNames /\ "Trailer" \notin Private
    BY ForwardingAssumption DEF FieldNames
  <2>2. /\ clientHeader' \in SUBSET FieldNames
        /\ privacyMode => clientHeader' \cap Private = {}
        /\ "Content-Length" \in h.names \ Listed(h) => "Content-Length" \in clientHeader'
    BY <2>1, NamesClean
  <2>3. /\ respTrailer' \in TrailerMaps /\ respTrailer'.filled = {}
        /\ respTrailer'.keys = removePrivacyHeaders(m.keys)
    BY AnnouncementFields, FilterMapFields DEF removePrivacyHeaders
  <2>4. /\ announced'.names = respTrailer'.keys
        /\ announced'.count = Cardinality(respTrailer'.keys)
        /\ announced' \in [count : Nat, names : SUBSET TrailerNames]
    <3>1. Cardinality(respTrailer'.keys) \in Nat
      BY <2>3, ForwardingAssumption, FS_Subset, FS_CardinalityType DEF TrailerMaps
    <3>2. QED BY <2>3, <3>1 DEF TrailerMaps
  <2>5. ForwardTypeOK'
    BY <2>2, <2>3, <2>4 DEF ForwardTypeOK
  <2>6. RequestInv' /\ SentInv'
    BY DEF RequestInv, SentInv, removePrivacyHeaders
  <2>7. ResponseInv'
    BY <2>2, <2>3, <2>4 DEF ResponseInv, removePrivacyHeaders
  <2>8. QED BY <2>5, <2>6, <2>7
<1>7. ASSUME NEW sent \in SUBSET TrailerNames, ResponseEOF(sent) PROVE ForwardInv'
  <2> USE <1>7 DEF ResponseEOF, requestVars, sentVars
  <2>1. /\ respTrailer' \in TrailerMaps
        /\ respTrailer'.keys = respTrailer.keys \cup sent
        /\ respTrailer'.filled = respTrailer.filled \cup sent
    BY DEF ForwardTypeOK, TrailerMaps, Map
  <2>2. ForwardTypeOK'
    BY <2>1 DEF ForwardTypeOK
  <2>3. RequestInv' /\ SentInv'
    BY DEF RequestInv, SentInv, removePrivacyHeaders
  <2>4. ResponseInv'
    BY <2>1 DEF ResponseInv, removePrivacyHeaders
  <2>5. QED BY <2>2, <2>3, <2>4
<1>8. CASE Finish
  <2> USE <1>8 DEF Finish, requestVars, sentVars
  <2>1. /\ respTrailer' \in TrailerMaps
        /\ respTrailer'.keys = removePrivacyHeaders(announced.names \cup origin)
        /\ respTrailer'.filled = removePrivacyHeaders(origin)
    BY FilterMapFields DEF ForwardTypeOK, ResponseInv
  <2>2. /\ proto # "HTTP/1.0" => removePrivacyHeaders(origin) \subseteq clientTrailers'
        /\ clientTrailers' \subseteq (clientHeader \cap announced.names) \cup removePrivacyHeaders(origin)
    <3>1. announced.names \in SUBSET respTrailer'.keys
      BY <2>1 DEF ResponseInv, removePrivacyHeaders
    <3>2. CASE Cardinality(respTrailer'.keys) = announced.count
      <4>1. respTrailer'.keys = announced.names
        <5>1. respTrailer'.keys \in SUBSET TrailerNames
          BY <2>1 DEF TrailerMaps
        <5>2. Cardinality(respTrailer'.keys) = Cardinality(announced.names)
          BY <3>2 DEF ResponseInv
        <5>3. QED BY <3>1, <5>1, <5>2, SameCountSameNames
      <4>2. removePrivacyHeaders(origin) \subseteq announced.names
        BY <2>1, <4>1 DEF removePrivacyHeaders
      <4>3. clientTrailers' = FinalTrailers(removePrivacyHeaders(origin), {})
        BY <2>1, <3>2
      <4>4. QED BY <4>2, <4>3 DEF FinalTrailers
    <3>3. CASE Cardinality(respTrailer'.keys) # announced.count
      <4>1. clientTrailers' = FinalTrailers({}, removePrivacyHeaders(origin))
        BY <2>1, <3>3
      <4>2. QED BY <4>1 DEF FinalTrailers
    <3>4. QED BY <3>2, <3>3
  <2>3. removePrivacyHeaders(origin) \subseteq origin
        /\ (privacyMode => removePrivacyHeaders(origin) \cap Private = {})
    BY DEF removePrivacyHeaders
  <2>4. ForwardTypeOK'
    BY <2>1, <2>2, <2>3 DEF ForwardTypeOK
  <2>5. RequestInv' /\ SentInv'
    BY DEF RequestInv, SentInv, removePrivacyHeaders
  <2>6. ResponseInv'
    <3>1. privacyMode => (clientHeader \cup clientTrailers' \cup announced.names) \cap Private = {}
      BY <2>2, <2>3 DEF ResponseInv
    <3>2. clientTrailers' \ origin \subseteq clientHeader
      BY <2>2, <2>3
    <3>3. QED BY <2>2, <3>1, <3>2 DEF ResponseInv, removePrivacyHeaders
  <2>7. QED BY <2>4, <2>5, <2>6
<1>9. CASE UNCHANGED forwardVars
  <2> USE <1>9 DEF forwardVars, requestVars, sentVars, responseVars
  <2>1. ForwardTypeOK'
    BY DEF ForwardTypeOK
  <2>2. RequestInv' /\ SentInv'
    BY DEF RequestInv, SentInv, removePrivacyHeaders
  <2>3. ResponseInv'
    BY DEF ResponseInv, removePrivacyHeaders
  <2>4. QED BY <2>1, <2>2, <2>3
<1>10. QED
  BY <1>1, <1>2, <1>3, <1>4, <1>5, <1>6, <1>7, <1>8, <1>9 DEF ForwardNext

(* The invariant holds in every state. *)
LEMMA ForwardInvariance == ForwardSpec => []ForwardInv
<1>1. ForwardInv /\ [ForwardNext]_forwardVars => ForwardInv'
  BY ForwardStepInv
<1>2. QED BY ForwardInitInv, <1>1, PTL DEF ForwardSpec

(* Every variable of handleHTTP keeps its type; the trailer maps never hold *)
(* a name that nobody sent.                                                *)
THEOREM ForwardTypes == ForwardSpec => []ForwardTypeOK
<1>1. ForwardInv => ForwardTypeOK
  BY DEF ForwardInv
<1>2. QED BY <1>1, ForwardInvariance, PTL

(* With privacy mode nothing private leaves the proxy, in any direction and *)
(* at any time: not in a trailer that came with the last byte either.       *)
THEOREM PrivacyKept == ForwardSpec => []NothingPrivatePasses
<1>1. ForwardInv => NothingPrivatePasses
  <2>1. ForwardInv /\ privacyMode => sentTrailers \cap Private = {}
    BY DEF ForwardInv, ForwardTypeOK, RequestInv
  <2>2. QED BY <2>1 DEF ForwardInv, SentInv, ResponseInv, NothingPrivatePasses, NamesSent
<1>2. QED BY <1>1, ForwardInvariance, PTL

(* Trailers of a chunked request that are announced and sent arrive,       *)
(* through the map the outgoing request shares with the incoming one, and  *)
(* those of a response arrive whether announced or not: copyTrailers tells *)
(* the two by a count, which is enough for any number of names.            *)
THEOREM TrailersKept == ForwardSpec => []TrailersArrive
<1>1. ForwardInv => TrailersArrive
  BY DEF ForwardInv, RequestInv, ResponseInv, TrailersArrive, AnnouncedTrailersArrive,
         ResponseTrailersArrive
<1>2. QED BY <1>1, ForwardInvariance, PTL

(* A response that breaks off is never taken for whole if it has a         *)
(* Content-Length that its Connection field does not list: the field       *)
(* passes both filters, handleHTTP returns early and net/http cuts the     *)
(* connection.                                                             *)
THEOREM CutShows == ForwardSpec => []CutResponseShows
<1>1. ForwardInv => CutResponseShows
  BY DEF ForwardInv, ResponseInv, CutResponseShows
<1>2. QED BY <1>1, ForwardInvariance, PTL

(*------------------------------  Together  -------------------------------*)

(* ServeHTTP is called once the server serves, and the handlers read       *)
(* privacy_mode from NewServer's copy of the configuration.                *)
Configured ==
    response # "start" => stage = "serving" /\ privacyMode = server["privacy_mode"]

(* No private name has left the proxy. *)
NoPrivateNames ==
    NamesSent \cap Private = {}

(* privacy_mode of a running server is the operator's last word on it. *)
LEMMA PrivacyModeAsGiven ==
  ASSUME Inv, stage = "serving"
  PROVE  server["privacy_mode"] = Given("privacy_mode")
<1>1. server = Normalized(Raw)
  BY DEF Inv, StageInv
<1>2. "privacy_mode" \in Fields \ {"proto", "network", "upstream_proxy"}
  BY DEF Fields, Switches
<1>3. Normalized(Raw)["privacy_mode"] = Raw["privacy_mode"]
  BY <1>2, NormalizedFields DEF Raw
<1>4. QED BY <1>1, <1>2, <1>3 DEF Raw

(* An operator who turned privacy mode on, in the file or the environment, *)
(* has a proxy that sends no private name in any direction: the setting    *)
(* survives Load, Run and NewServer, and the filters of forwarding obey it.*)
THEOREM PrivacyAsAsked ==
  Spec /\ ForwardSpec /\ []Configured => [](Given("privacy_mode") = TRUE => NoPrivateNames)
<1>1. Inv /\ ForwardInv /\ NothingPrivatePasses /\ Configured
        => (Given("privacy_mode") = TRUE => NoPrivateNames)
  <2> SUFFICES ASSUME Inv, ForwardInv, NothingPrivatePasses, Configured, Given("privacy_mode") = TRUE
               PROVE  NoPrivateNames
    OBVIOUS
  <2>1. CASE response = "start"
    BY <2>1 DEF ForwardInv, RequestInv, SentInv, ResponseInv, NoPrivateNames, NamesSent
  <2>2. CASE response # "start"
    <3>1. privacyMode = TRUE
      BY <2>2, PrivacyModeAsGiven DEF Configured
    <3>2. QED BY <3>1 DEF NothingPrivatePasses, NoPrivateNames
  <2>3. QED BY <2>1, <2>2
<1>2. QED BY <1>1, Invariance, ForwardInvariance, PrivacyKept, PTL
==============================================================================
