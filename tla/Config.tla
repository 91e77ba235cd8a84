------------------------------- MODULE Config -------------------------------
(***************************************************************************)
(* src/config: how a UCI section becomes the configuration that the daemon  *)
(* runs with, or is turned down.  A section is the options it sets (their   *)
(* values already read: see Decimals), its list of reflectors if it has     *)
(* one, whether some option has a type or a text that its binding turns     *)
(* down, and whether it comes from the file that LuCI can change.  Options  *)
(* that no check looks at are left out.                                     *)
(***************************************************************************)
EXTENDS Arith, Sequences, FiniteSets, Functions

CONSTANTS
  V4, V6, Hosts,       \* reflectors: addresses and host names
  MILLISECOND,         \* in microseconds
  UINT_MAX,            \* the largest timer argument, in milliseconds
  RATE_STEP,           \* SHAPER_RATE_STEP_BPS
  MAX_REFLECTORS,      \* CONFIG_MAX_REFLECTORS
  MQTT_SUPPORTED, MQTT_TLS_SUPPORTED,  \* what the package is built with
  Ifb,                 \* the IFB that SQM names after an interface
  Defaults             \* defaults_apply: a configuration before its section is read

ASSUME ConfigAssumption ==
  /\ {MILLISECOND, UINT_MAX, RATE_STEP, MAX_REFLECTORS} \subseteq Nat \ {0}
  /\ {MQTT_SUPPORTED, MQTT_TLS_SUPPORTED} \subseteq BOOLEAN
  /\ \A interface \in DOMAIN Ifb : Ifb[interface] # ""

Directions == {"dl", "ul"}

\* The options that a check looks at, those first whose values must be numbers
\* for what is accepted to be of use.
Counts ==
  {"no_pingers", "reflector_ping_interval_us", "monitor_achieved_rates_interval_us",
   "reflector_health_check_interval_us", "stall_detection_threshold"}
Others ==
  {"enabled", "interface", "ul_if", "dl_if", "pinger_method", "irtt_session_duration_us",
   "ping_arguments", "tcp_delay_attribution", "tcp_ts_request", "mqtt",
   "bufferbloat_detection_window", "bufferbloat_detection_threshold",
   "ul_congest_ack_share_ratio_e6", "alphas", "reflector_response_deadline_us",
   "reflector_misbehaving_detection_window", "reflector_misbehaving_detection_threshold",
   "global_ping_response_timeout_us", "interface_up_check_interval_us",
   "output_cpu_stats", "monitor_cpu_usage_interval_us", "log_file_buffer_timeout_us",
   "log_file_path_override", "enable_sleep_function", "connection_active_threshold_bps"}
RateType == [adjust : BOOLEAN, minimum : Nat, base : Nat, maximum : Nat]

\* The bindings of config/options.c leave no other values in them, whichever
\* options are set; and an interface is one that a name can be made of.
OptionsTyped(options) ==
  /\ \A name \in DOMAIN options \cap Counts : options[name] \in Nat
  /\ \A d \in DOMAIN options \cap Directions : options[d] \in RateType
  /\ "alphas" \in DOMAIN options => options["alphas"] \subseteq Nat
  /\ "interface" \in DOMAIN options => options["interface"] \in {""} \cup DOMAIN Ifb

\* What loading sets beside the options.
Loaded == {"reflectors", "ingress_interface", "interface_overridden"}

IsList(names) == names \in Seq(Range(names))

\* A section as UCI and the bindings give it.
IsSection(s) ==
  /\ s = [options |-> s.options, listed |-> s.listed, reflectors |-> s.reflectors,
          malformed |-> s.malformed, shared |-> s.shared]
  /\ s.listed \in BOOLEAN
  /\ IsList(s.reflectors)
  /\ OptionsTyped(s.options)
  /\ DOMAIN s.options \cap Loaded = {}

ASSUME DefaultsAssumption ==
  /\ OptionsTyped(Defaults)
  /\ Counts \cup Others \cup Directions \cup Loaded \subseteq DOMAIN Defaults
  /\ "latency_target" \notin DOMAIN Defaults

\* The probe methods (latency/pinger.c): whether one runs a program, uses ICMP
\* timestamps, and shares one delay between the directions.
Methods ==
  [fping |-> [native |-> FALSE, timestamps |-> FALSE, shared |-> TRUE],
   fping_ts |-> [native |-> FALSE, timestamps |-> TRUE, shared |-> FALSE],
   irtt |-> [native |-> FALSE, timestamps |-> FALSE, shared |-> FALSE],
   native |-> [native |-> TRUE, timestamps |-> FALSE, shared |-> TRUE],
   native_ts |-> [native |-> TRUE, timestamps |-> TRUE, shared |-> FALSE]]

\* A list takes the place of the built-in one, which is empty.
load_reflectors(section) == IF section.listed THEN section.reflectors ELSE <<>>

\* copy_reflector: there is room for each of a list.
ReflectorsFit(reflectors) == Len(reflectors) <= MAX_REFLECTORS

load_options(section) ==
  [name \in DOMAIN Defaults |->
     IF name = "reflectors" THEN load_reflectors(section)
     ELSE IF name \in DOMAIN section.options THEN section.options[name]
     ELSE Defaults[name]]

\* ul_if and dl_if come together and go before the older option interface.
Resolvable(config) == (config.ul_if = "") = (config.dl_if = "")
resolve_interfaces(config) ==
  IF config.ul_if # ""
  THEN [config EXCEPT !.interface = config.ul_if, !.ingress_interface = config.dl_if,
                      !.interface_overridden = config.interface # ""]
  ELSE [config EXCEPT !.ingress_interface =
          IF config.interface = "" THEN "" ELSE Ifb[config.interface]]

LegacyTarget(section) ==
  IF "latency_target" \in DOMAIN section.options
  THEN section.options["latency_target"] ELSE ""

\* The older option latency_target stands for a list of one reflector.
load_section(section) ==
  LET config == resolve_interfaces(load_options(section))
      target == LegacyTarget(section)
  IN  IF section.listed \/ target = "" THEN config
      ELSE [config EXCEPT
              !.reflectors = <<target>>,
              !.no_pingers =
                IF "no_pingers" \in DOMAIN section.options THEN @ ELSE 1]

-----------------------------------------------------------------------------
(* config/validate.c: each operator is TRUE when its checks all pass, in    *)
(* their order.                                                             *)

timer_interval_valid(interval_us) ==
  /\ interval_us > 0
  /\ interval_us % MILLISECOND = 0
  /\ interval_us \div MILLISECOND <= UINT_MAX

ping_spacing_us(config) == config.reflector_ping_interval_us \div config.no_pingers

validate_rate_range(rates) ==
  LET all == {rates.minimum, rates.base, rates.maximum}
  IN  \/ ~rates.adjust /\ all = {0}
      \/ /\ 0 \notin all
         /\ rates.minimum <= rates.base /\ rates.base <= rates.maximum
         /\ \A rate \in all : rate % RATE_STEP = 0

latency_target_valid(target) == target \in V4 \cup V6 \cup Hosts

validate_reflectors(config) ==
  /\ config.reflectors # <<>>
  /\ config.no_pingers \in 1 .. Len(config.reflectors)
  /\ \A i \in DOMAIN config.reflectors : latency_target_valid(config.reflectors[i])
  /\ IsInjective(config.reflectors)

validate_pinger(config) ==
  /\ config.pinger_method \in DOMAIN Methods
  /\ config.pinger_method = "irtt" => config.irtt_session_duration_us # 0
  /\ validate_reflectors(config)
  /\ LET method == Methods[config.pinger_method]
         targets == Range(config.reflectors)
     IN  /\ method.timestamps => targets \cap V6 = {}
         /\ config.tcp_delay_attribution => method.shared
         /\ method.native => ~config.ping_arguments /\ targets \cap Hosts = {}
  /\ config.tcp_ts_request => config.tcp_delay_attribution
  /\ ping_spacing_us(config) >= MILLISECOND

validate_detection(config) ==
  /\ timer_interval_valid(config.monitor_achieved_rates_interval_us)
  /\ config.bufferbloat_detection_window \in 1 .. UINT_MAX
  /\ config.bufferbloat_detection_threshold <= config.bufferbloat_detection_window
  /\ config.ul_congest_ack_share_ratio_e6 <= RATIO_ONE_E6
  /\ \A ratio \in config.alphas : ratio <= RATIO_ONE_E6

validate_reflector_policy(config) ==
  /\ config.reflector_response_deadline_us > 0
  /\ timer_interval_valid(config.reflector_health_check_interval_us)
  /\ config.reflector_misbehaving_detection_threshold
       \in 1 .. config.reflector_misbehaving_detection_window
  /\ config.stall_detection_threshold \in 1 .. U64_MAX \div ping_spacing_us(config)
  /\ config.global_ping_response_timeout_us > 0
  /\ config.interface_up_check_interval_us > 0

validate_monitoring(config) ==
  /\ config.output_cpu_stats => timer_interval_valid(config.monitor_cpu_usage_interval_us)
  /\ config.log_file_buffer_timeout_us \div MILLISECOND <= UINT_MAX
  /\ config.reflector_ping_interval_us <= U64_MAX \div 2
  /\ config.enable_sleep_function =>
       \A d \in Directions :
         config.connection_active_threshold_bps <= config[d].minimum

config_adjusts(config) == \E d \in Directions : config[d].adjust

\* Mutant: a section that controls rates but is not enabled goes unchecked.
config_in_use_enabled(config) == config.enabled

config_in_use(config) == config.enabled \/ config_adjusts(config)

\* The broker is looked at only where records can be sent.
validate_mqtt(mqtt) ==
  mqtt.enabled =>
    /\ MQTT_SUPPORTED =>
         /\ mqtt.host /\ mqtt.topic
         /\ mqtt.port
         /\ mqtt.password => mqtt.username
    /\ mqtt.tls => MQTT_TLS_SUPPORTED /\ mqtt.ca_file_absolute

config_validate(config) ==
  /\ validate_mqtt(config.mqtt)
  /\ config_in_use(config) => config.interface # ""
  /\ \A d \in Directions : validate_rate_range(config[d])
  /\ config_in_use(config) =>
       /\ validate_pinger(config)
       /\ validate_detection(config)
       /\ validate_reflector_policy(config)
       /\ validate_monitoring(config)

\* What runs a program or writes a file is not taken from the shared file.
config_check_shared_file(config, shared) ==
  shared => ~config.ping_arguments /\ ~config.log_file_path_override

\* config_load: the configuration of a section, and whether it is accepted.
Accepted(section) ==
  /\ ~section.malformed
  /\ ReflectorsFit(load_reflectors(section))
  /\ Resolvable(load_options(section))
  /\ config_validate(load_section(section))
  /\ config_check_shared_file(load_section(section), section.shared)
=============================================================================
