------------------------------- MODULE MCPure -------------------------------
(***************************************************************************)
(* The code that computes and keeps no state: Arith, Tracker and Decimals   *)
(* against the exact results that their comments promise, and Config        *)
(* against what the rest of the daemon relies on, one state per input.  For *)
(* Arith and Tracker an input is two words and a member of Thirds; for      *)
(* Decimals, which has a word, a million and a thousand of its own, it is a *)
(* text and a scale, and for PingerLines a probe; for Config it is a         *)
(* section, for Accounting a packet, and for SynOptions the options of a SYN. *)
(***************************************************************************)
EXTENDS Tracker, Config, Accounting, SynOptions

CONSTANTS
  Thirds,
  TextMax,    \* the largest word of Decimals
  Wholes,     \* the whole parts of its texts
  Digits,     \* their digits after the point
  MaxDigits,  \* how many of them
  Scales,     \* the scales of the options that hold them
  Mtus,       \* of Accounting
  Overheads,  \* options of CAKE
  MpuBytes,
  MaxOptions, \* the options of a SYN
  Day,        \* milliseconds of a day, for probes
  Hours,      \* when a probe leaves, on the clock here
  Ahead,      \* how far the reflector's clock is ahead
  Ways        \* milliseconds that a way takes

ASSUME ThirdsAssumption == Thirds \subseteq U64 \ {0}

\* Lengths are unsigned in the qdisc's options, and its overhead is not.
ASSUME PacketsAssumption ==
  Mtus \subseteq Nat /\ MpuBytes \subseteq Nat /\ Overheads \subseteq Int

D == INSTANCE PingerLines WITH
       U64_MAX <- TextMax, RATIO_ONE_E6 <- 100, SECOND <- 100,
       FractionDigits <- 2, NANOSECONDS_PER_MICROSECOND <- 10, U32_MAX <- 99

VARIABLES args, text, probe, section, packet, syn

\* Options, and others where they do not say the same.
Over(options, others) ==
  [name \in DOMAIN options \cup DOMAIN others |->
     IF name \in DOMAIN options THEN options[name] ELSE others[name]]

Rates == {0, 8, 12, 16}
Observed == [adjust |-> FALSE, minimum |-> 8, base |-> 16, maximum |-> 24]

MCIfb == [wan |-> "ifb4wan", lte |-> "ifb4lte"]

MCDefaults ==
  [enabled |-> FALSE, interface |-> "", ul_if |-> "", dl_if |-> "",
   log_file_path_override |-> FALSE, pinger_method |-> "native",
   ping_arguments |-> FALSE, tcp_delay_attribution |-> FALSE, tcp_ts_request |-> FALSE,
   mqtt |-> [enabled |-> FALSE, host |-> FALSE, topic |-> TRUE, port |-> TRUE,
             username |-> FALSE, password |-> FALSE, tls |-> FALSE,
             ca_file_absolute |-> TRUE],
   no_pingers |-> 3, reflector_ping_interval_us |-> 30, irtt_session_duration_us |-> 60,
   monitor_achieved_rates_interval_us |-> 20, bufferbloat_detection_window |-> 6,
   bufferbloat_detection_threshold |-> 3, ul_congest_ack_share_ratio_e6 |-> 0,
   alphas |-> {0, 9}, reflector_response_deadline_us |-> 10,
   reflector_health_check_interval_us |-> 10,
   reflector_misbehaving_detection_window |-> 6,
   reflector_misbehaving_detection_threshold |-> 3, stall_detection_threshold |-> 5,
   global_ping_response_timeout_us |-> 100, interface_up_check_interval_us |-> 100,
   output_cpu_stats |-> FALSE, monitor_cpu_usage_interval_us |-> 20,
   log_file_buffer_timeout_us |-> 5, enable_sleep_function |-> TRUE,
   connection_active_threshold_bps |-> 8, dl |-> Observed, ul |-> Observed,
   reflectors |-> <<>>, ingress_interface |-> "", interface_overridden |-> FALSE]

\* A section that sets options, by default one that only observes.
Section(options, list) ==
  [options |-> Over(options, [enabled |-> TRUE, interface |-> "wan", no_pingers |-> 2]),
   listed |-> list # <<>>, reflectors |-> list,
   malformed |-> FALSE, shared |-> FALSE]

Pair == <<"192.0.2.1", "2001:db8::1">>
Lists == {<<>>, Pair, <<"192.0.2.1">>, <<"192.0.2.1", "192.0.2.1">>, <<"example.org">>,
          <<"192.0.2.1", "-c">>, Pair \o <<"example.org">>, Pair \o Pair}

\* Groups of options that are checked together, each with the others left alone.
RateSections ==
  {Section([dl |-> [adjust |-> adjusts, minimum |-> minimum, base |-> base,
                    maximum |-> maximum],
            enabled |-> enabled, enable_sleep_function |-> sleeps,
            connection_active_threshold_bps |-> active], Pair) :
     adjusts \in BOOLEAN, minimum \in Rates, base \in Rates, maximum \in Rates,
     enabled \in BOOLEAN, sleeps \in BOOLEAN, active \in {0, 8, 16}}
InterfaceSections ==
  {[Section([interface |-> interface, ul_if |-> ul_if, dl_if |-> dl_if,
             log_file_path_override |-> override, ping_arguments |-> arguments,
             pinger_method |-> method, enabled |-> enabled], Pair)
      EXCEPT !.shared = shared, !.malformed = malformed] :
     interface \in {"", "wan", "lte"}, ul_if \in {"", "wan"}, dl_if \in {"", "ifb4wan"},
     override \in BOOLEAN, arguments \in BOOLEAN, method \in {"native", "fping"},
     enabled \in BOOLEAN, shared \in BOOLEAN, malformed \in BOOLEAN}
ProbeSections ==
  {Section([pinger_method |-> method, no_pingers |-> pingers,
            reflector_ping_interval_us |-> interval, stall_detection_threshold |-> stall,
            tcp_delay_attribution |-> attribution, tcp_ts_request |-> request], list) :
     method \in DOMAIN Methods \cup {"ping"}, pingers \in {0, 1, 2, 4},
     interval \in {0, 10, 20, 200}, stall \in {0, 1, 20}, attribution \in BOOLEAN,
     request \in BOOLEAN, list \in Lists}
LegacySections ==
  {[options |-> Over([enabled |-> TRUE], Over(given, Over(pingers, interfaces))),
    listed |-> list # <<>>, reflectors |-> list, malformed |-> FALSE, shared |-> FALSE] :
     given \in {[latency_target |-> target] :
                  target \in {"", "192.0.2.1", "2001:db8::1", "example.org", "-c"}}
               \cup {<<>>},
     pingers \in {[no_pingers |-> n] : n \in 0 .. 2} \cup {<<>>},
     interfaces \in {[interface |-> i] : i \in {"", "wan", "lte"}} \cup {<<>>},
     list \in Lists}
PolicySections ==
  {Section([monitor_achieved_rates_interval_us |-> traffic,
            bufferbloat_detection_threshold |-> threshold,
            ul_congest_ack_share_ratio_e6 |-> share, alphas |-> {share, alpha},
            reflector_misbehaving_detection_threshold |-> offences,
            reflector_health_check_interval_us |-> health,
            output_cpu_stats |-> cpu, monitor_cpu_usage_interval_us |-> health,
            mqtt |-> mqtt], Pair) :
     traffic \in {0, 15, 20}, threshold \in {0, 6, 7}, share \in {0, 11}, alpha \in {0, 11},
     offences \in {0, 6, 7}, health \in {0, 10, 200}, cpu \in BOOLEAN,
     mqtt \in {[MCDefaults.mqtt EXCEPT !.enabled = TRUE, !.host = host, !.password = TRUE,
                                       !.username = username, !.tls = tls] :
                 host \in BOOLEAN, username \in BOOLEAN, tls \in BOOLEAN}}

NoText == [whole |-> 0, digits |-> <<>>, scale |-> 1]
Texts == [whole : Wholes, digits : UNION {[1 .. n -> Digits] : n \in 0 .. MaxDigits},
          scale : Scales]

\* A probe to a reflector that keeps it for a while, and tokens of IRTT's line in
\* some order, with those whose names only end like it.
Tokens == {"seq", "rd", "sd", "ipdv", "x_rd"}
Probes ==
  [sent : Hours, away : Ways, kept : Ways, back : Ways, ahead : Ahead,
   tokens : {<<"seq", "rd", "sd">>}]
  \cup [sent : {0}, away : Ways, kept : {0}, back : Ways, ahead : {0},
        tokens : UNION {[1 .. n -> Tokens] : n \in 0 .. 4}]

MCOverheads == {-14, 0, 1, 18, 44}

\* A packet of an upload whose qdisc has these options.
Link(raw, overhead, mpu, framing) ==
  [o \in {"overhead_bytes", "mpu_bytes", "atm_mode"} \cup (IF raw THEN {"raw"} ELSE {}) |->
     CASE o = "overhead_bytes" -> overhead
       [] o = "mpu_bytes" -> mpu
       [] o = "atm_mode" -> framing
       [] OTHER -> TRUE]
Packets ==
  [options : {Link(raw, overhead, mpu, framing) :
                raw \in BOOLEAN, overhead \in Overheads, mpu \in MpuBytes,
                framing \in Framings}
             \cup {<<>>},
   mtu : Mtus, offset : {0, 14}, spare : {0, 1, 40}]

\* Options of SYNs: among them values that look like a timestamp, one that is
\* cut off, and one whose length is wrong.
Tsval == <<0, 0, 0, 1>>
SynOption == {<<NOP>>, <<END>>, <<4, 2>>, <<3, 3, 7>>, <<2, 4, 5, 180>>, <<2, 4, 8, 10>>,
              <<34, 18>> \o [i \in 1 .. 16 |-> 8], <<8, 10, 0, 0, 0, 9, 0, 0, 0, 0>>,
              <<8, 10, 7>>, <<5, 1>>}
Padded(list, with) ==
  FlattenSeq(list) \o [i \in 1 .. (4 - (Len(FlattenSeq(list)) % 4)) % 4 |-> with]
Syns == {[list |-> list, options |-> Padded(list, with)] :
           list \in UNION {[1 .. n -> SynOption] : n \in 0 .. MaxOptions},
           with \in {NOP, END}}

NoProbe == [tokens |-> <<"none">>]
NoArgs == [value |-> 0, x |-> 1, y |-> 1]
NoSection == Section(<<>>, <<>>)
NoPacket == [mtu |-> 0]
NoSyn == [list |-> <<>>]

Inputs(argss, texts, probes, sections, packets, syns) ==
  /\ args \in argss /\ text \in texts /\ probe \in probes /\ section \in sections
  /\ packet \in packets /\ syn \in syns

Init ==
  \/ Inputs([value : U64, x : U64, y : Thirds], {NoText}, {NoProbe}, {NoSection},
            {NoPacket}, {NoSyn})
  \/ Inputs({NoArgs}, Texts, {NoProbe}, {NoSection}, {NoPacket}, {NoSyn})
  \/ Inputs({NoArgs}, {NoText}, Probes, {NoSection}, {NoPacket}, {NoSyn})
  \/ Inputs({NoArgs}, {NoText}, {NoProbe},
            {s \in RateSections \cup InterfaceSections \cup ProbeSections \cup LegacySections
                    \cup PolicySections : IsSection(s)},
            {NoPacket}, {NoSyn})
  \/ Inputs({NoArgs}, {NoText}, {NoProbe}, {NoSection}, Packets, {NoSyn})
  \/ Inputs({NoArgs}, {NoText}, {NoProbe}, {NoSection}, {NoPacket},
            {s \in Syns : Len(s.options) <= OPTIONS_MAX})
Next == UNCHANGED <<args, text, probe, section, packet, syn>>
Spec == Init /\ [][Next]_<<args, text, probe, section, packet, syn>>

Capped(n) == IF n > U64_MAX THEN U64_MAX ELSE n

\* Within half a divisor of value, a tie going away from zero.
Nearest(quotient, value, divisor) ==
  LET error == IF value < 0 THEN quotient * divisor - value
                            ELSE value - quotient * divisor
  IN  -divisor <= 2 * error /\ 2 * error < divisor

-----------------------------------------------------------------------------
(* Properties                                                               *)

\* arith.h promises "exact while the ratio is at most UINT64_MAX /
\* RATIO_ONE_E6": value * ratio truncated (or rounded up), or the largest word
\* when it does not fit.
RatioExact ==
  LET product == args.value * args.x
  IN  args.x <= U64_MAX \div RATIO_ONE_E6 =>
        /\ ratio_of(args.value, args.x) = Capped(product \div RATIO_ONE_E6)
        /\ ratio_of_rounded_up(args.value, args.x)
             = Capped((product + RATIO_ONE_E6 - 1) \div RATIO_ONE_E6)

\* rate.c's load and share ratio is exact for every whole below the guard, and
\* above the guard, where digits are given up, a part of the whole still never
\* reads as more than all of it.
FractionExact ==
  LET part == args.value
      whole == args.x
  IN  /\ whole \in 1 .. U64_MAX \div RATIO_ONE_E6 =>
           fraction_to_ratio(part, whole)
             = Capped((part * RATIO_ONE_E6) \div whole)
      /\ part <= whole => fraction_to_ratio(part, whole) <= RATIO_ONE_E6

\* rate.c's counter rate is exact whenever the remainder's product fits (any
\* interval below 26 days in the code), and saturates instead of wrapping.
BpsExact ==
  LET scale == BITS_PER_BYTE * SECOND
  IN  args.x \in 1 .. U64_MAX \div scale =>
        bps(args.value, args.x) = Capped((args.value * scale) \div args.x)

\* Both rounded divisions give the nearest integer, ties away from zero, and
\* the serialization time built on one is the nearest microsecond.
DivisionsNearest ==
  args.x > 0 =>
    /\ Nearest(rounded_divide(args.value, args.x), args.value, args.x)
    /\ Nearest(signed_rounded_divide(args.value, args.x), args.value, args.x)
    /\ Nearest(signed_rounded_divide(-args.value, args.x), -args.value, args.x)
    /\ \/ args.x * SECOND > U64_MAX
       \/ serialization_us(args.value, args.x) = U64_MAX
       \/ Nearest(serialization_us(args.value, args.x), args.value * SECOND, args.x)

\* mul_div is exact for a numerator up to the denominator as long as their
\* product fits the word: the ACK ceiling's use, with rates below 2^32 bit/s.
MulDivExactInRange ==
  args.y <= args.x /\ args.x * args.y <= U64_MAX =>
    mul_div(args.value, args.y, args.x) = (args.value * args.y) \div args.x

\* "Closer" for a baseline: a sample pulls it towards itself and never past,
\* and leaves it only when the share it would move by rounds to nothing; a
\* sum that does not fit starts over at the sample.
BaselineFollows ==
  LET from == args.value - I64_MAX - 1
      to == args.x - I64_MAX - 1
      alpha == args.y % (RATIO_ONE_E6 + 1)
      moved == Averaged(alpha, to, from)
  IN  /\ moved \in min_u64(from, to) .. max_u64(from, to)
      /\ 2 * alpha * absolute_difference(to, from) > RATIO_ONE_E6 => moved # from

\* The integer arithmetic is exact wherever the code relies on it, and the
\* averages of the tracker that are built on it follow their samples.
ArithExact ==
  /\ RatioExact /\ FractionExact /\ BpsExact /\ DivisionsNearest /\ MulDivExactInRange
  /\ BaselineFollows

\* What -L lists for an accepted option reads as the same value, or as the
\* nearest that the listed places can show; listing that changes nothing more,
\* and it is turned down only when rounding up has left the word.
ListedReads ==
  LET scale == text.scale
      value == D!parse_scaled_decimal(text, scale)
      listed == D!format_scaled(value, scale)
      again == D!parse_scaled_decimal(listed, scale)
      error == absolute_difference(again, value)
  IN  value # D!REFUSED =>
        IF again = D!REFUSED
        THEN 200 * (TextMax - value) < scale
        ELSE /\ 200 * error <= scale
             /\ scale <= 100 => error = 0
             /\ D!format_scaled(again, scale) = listed

\* The exact value of a text, in parts of one to the power of its digits.
Exactly(unit) ==
  (text.whole * 10^Len(text.digits) + D!Spelled(text.digits, Len(text.digits))) * unit

\* A time read from fping or IRTT is the microsecond nearest to the decimal
\* text, a half one going up, whatever the number of digits and the unit; it
\* never wraps, and the clock of fping is read up to the end of the word.
TimesNearest ==
  LET parts == 10^Len(text.digits)
      seconds == D!parse_timestamp(text)
      round_trip == D!parse_round_trip(text)
  IN  /\ seconds # D!REFUSED => Nearest(seconds, Exactly(100), parts)
      /\ seconds = D!REFUSED =>
           text.digits = <<>> \/ Exactly(1) >= ((2 * TextMax + 1) * parts + 199) \div 200
      /\ round_trip # D!REFUSED =>
           /\ Nearest(round_trip, Exactly(100), parts)
           /\ Nearest(D!half_round_trip(round_trip), round_trip, 20)
      /\ \A unit \in D!Unit :
           LET us == D!parse_irtt_duration(text, unit)
           IN  us # D!REFUSED => Nearest(us, Exactly(unit), 10 * parts)

\* What the clocks show when a probe leaves, reaches the reflector, leaves it and
\* is back, in milliseconds past midnight, and the line fping writes of it.
Moments ==
  LET arrives == probe.sent + probe.away
      leaves == arrives + probe.kept
  IN  <<probe.sent, arrives + probe.ahead, leaves + probe.ahead, leaves + probe.back>>
Stamps4 == [i \in 1 .. 4 |-> Moments[i] % Day]
FpingLine ==
  [clock |-> [whole |-> 1, digits |-> <<5>>], sequence |-> 7, timed_out |-> FALSE,
   round_trip |-> [whole |-> probe.away + probe.kept + probe.back, digits |-> <<>>],
   stamps |-> Stamps4]

\* The midnights between two moments.
Midnights(from, to) == (Moments[to] \div Day) - (Moments[from] \div Day)

\* ICMP timestamps: each direction's delay is its own way's and how far the
\* reflector's clock is ahead or behind, up to whole days, so that the baseline of
\* a direction takes the clocks off; the two add up to the time on the way, but for
\* a midnight on one clock alone, which moves them by a whole day: the tracker has
\* to be told.  An echo gives each direction half of the round trip.  A line that
\* is cut off fails the session, and one of a lost probe does not.
OneWayTrue ==
  LET sample == D!parse_fping_timestamp_line(FpingLine)
      echo == D!parse_fping_line(FpingLine)
      unit == D!MICROSECONDS_PER_MILLISECOND
      ways == unit * (probe.away + probe.back)
      both == sample.download + sample.upload
      Outcome(line) == D!probe_result(D!parse_fping_timestamp_line(line).result)
      CutOff(n) == [FpingLine EXCEPT !.stamps = SubSeq(@, 1, n)]
      Lost == [CutOff(0) EXCEPT !.timed_out = TRUE, !.round_trip = D!NO_NUMBER]
  IN  /\ Outcome(FpingLine) = "SUCCESS" /\ sample.rollover
      /\ \A n \in 0 .. 3 : Outcome(CutOff(n)) = "ERROR"
      /\ Outcome(Lost) = "TIMEOUT"
      /\ (sample.upload - unit * (probe.away + probe.ahead)) % (unit * Day) = 0
      /\ (sample.download - unit * (probe.back - probe.ahead)) % (unit * Day) = 0
      /\ both - ways \in {-unit * Day, 0, unit * Day}
      /\ Midnights(1, 4) = 0 /\ Midnights(2, 3) = 0 => both = ways
      /\ echo.upload = echo.download
      /\ 2 * echo.upload - unit * probe.kept - ways \in {0, 1}

\* A line of IRTT is a reply exactly when it names all three values, and reads as
\* the first of each, whatever stands between and in whatever order.
RepliesNamed ==
  LET names == probe.tokens
      line == [i \in DOMAIN names |->
                 [name |-> names[i],
                  value |-> [whole |-> i, digits |-> <<>>,
                             unit |-> D!NANOSECONDS_PER_MILLISECOND]]]
      sample == D!parse_irtt_line(line)
      First(name) == Min({i \in DOMAIN names : names[i] = name})
  IN  /\ D!irtt_parse(line, TRUE)
             = IF {"seq", "rd", "sd"} \subseteq Range(names) THEN "SUCCESS" ELSE "PENDING"
      /\ sample.result = "SAMPLE" =>
           /\ sample.sequence = First("seq")
           /\ sample.download = D!MICROSECONDS_PER_MILLISECOND * First("rd")
           /\ sample.upload = D!MICROSECONDS_PER_MILLISECOND * First("sd")

\* What is listed as text reads as it was, and what a pinger writes reads as the
\* times that it measured.
DecimalsExact ==
  /\ ListedReads /\ TimesNearest
  /\ probe # NoProbe => OneWayTrue /\ RepliesNamed

\* The charge of a packet is what its framing sends: with ATM the least number
\* of whole cells that hold it, with PTM one byte more per started block, never
\* less than the minimum; and a packet is never cheaper than a shorter one.
\* The controller's largest packet is never more than what CAKE charges
\* for it where the overhead is not negative, and exactly that where tc's
\* text says all of it.
ChargesTrue ==
  LET accounting == parse_options(packet.options)
      length == packet.mtu + packet.offset
      overhead == accounting.overhead_bytes
      Charge(n) == cake_accounted_bytes(accounting, n, packet.offset)
      charge == Charge(length)
      carried == IF accounting.atm_mode = "ATM" THEN (charge \div CELL) * CELL_PAYLOAD
                 ELSE charge
      needed == (IF accounting.raw THEN length ELSE packet.mtu) + overhead
      largest == cake_max_wire_packet_bits(accounting, packet.mtu)
  IN  packet # NoPacket =>
      /\ carried >= needed /\ carried >= accounting.mpu_bytes
      /\ Charge(length + packet.spare) >= charge
      /\ accounting.atm_mode = "ATM" =>
           /\ charge % CELL = 0
           /\ carried - CELL_PAYLOAD < Max({needed, accounting.mpu_bytes})
      /\ overhead >= 0 => largest <= 8 * charge
      /\ /\ overhead >= 0 /\ accounting.mpu_bytes <= needed /\ ~accounting.raw
         /\ accounting.atm_mode # "PTM"
         => largest = 8 * charge

\* Where the first timestamp of well-formed options starts, read option by
\* option.
Ends(option) == option = <<END>> \/ (Len(option) > 1 /\ option[2] < 2)
Stamps(option) == IsPrefix(<<TIMESTAMP, TIMESTAMP_LENGTH>>, option)
TimestampAt(list, length) ==
  LET stop == SelectInSeq(list, LAMBDA option : Ends(option) \/ Stamps(option))
      at == Len(FlattenSeq(SubSeq(list, 1, stop - 1)))
  IN  CASE stop = 0 -> NONE
        [] stop # 0 /\ Ends(list[stop]) -> IF at < OPTIONS_MAX - 1 THEN ENDS ELSE NONE
        [] OTHER -> IF at + TIMESTAMP_LENGTH <= length THEN at ELSE ENDS

\* "A timestamp is never missed": the parser finds the first one of any SYN;
\* a SYN that has one, the client's or an injected one, gets no other; and what
\* is injected fits the header, whose length counts it, and is the timestamp
\* that the filter then reads, unless the client's own options had ended
\* before.
TimestampsStand ==
  LET options == syn.options
      index == timestamp_index(options)
      padding == [i \in 1 .. Len(options) - Len(FlattenSeq(syn.list)) |->
                    <<options[Len(options)]>>]
      stamped == append_timestamp(options, Tsval)
  IN  syn # NoSyn =>
      /\ index = TimestampAt(syn.list \o padding, Len(options))
      /\ index >= 0 => ~inject_syn_eligible(options, 0)
      /\ inject_syn_eligible(options, 0) =>
           /\ 4 * stamped.offset = HEADER_BYTES + Len(stamped.options)
           /\ 4 * stamped.offset <= HEADER_MAX
           /\ ~inject_syn_eligible(stamped.options, 0)
           /\ index = NONE => find_timestamp(stamped.options) = Tsval \o <<0, 0, 0, 0>>

Without(options, names) == Restrict(options, DOMAIN options \ names)

\* The older options mean what their successors do: a section with
\* latency_target loads, or is turned down, like one whose list is that
\* reflector with one pinger where it gives no number, and beside a list the
\* target counts for nothing; interface loads like ul_if with the IFB that SQM
\* makes for it.
LoadsAlike ==
  LET target == LegacyTarget(section)
      options == Without(section.options, {"latency_target"})
      listed == IF section.listed THEN [section EXCEPT !.options = options]
                ELSE [section EXCEPT !.options = Over(options, [no_pingers |-> 1]),
                                     !.listed = TRUE, !.reflectors = <<target>>]
      loaded == load_section(section)
      pair == [section EXCEPT !.options =
                 Over([ul_if |-> loaded.interface, dl_if |-> loaded.ingress_interface],
                      Without(section.options, {"interface"}))]
      asked == {"ul_if", "dl_if", "interface_overridden"}
  IN  section # NoSection =>
      /\ target # "" =>
           Accepted(section) = Accepted(listed) /\ loaded = load_section(listed)
      /\ Resolvable(load_options(section)) /\ loaded.interface # "" =>
           /\ Accepted(section) = Accepted(pair)
           /\ Without(loaded, asked) = Without(load_section(pair), asked)

\* A configuration that an instance starts with, or that controls a rate, is
\* one that the other modules may assume: the assumptions of Controller for
\* every direction it controls, those of Tracker and Reflectors, timers that
\* the event loop can hold, a stall time that does not wrap, probes that its
\* method can send, rates a link that sleeps can be set to; and nothing LuCI
\* can write names a program or a directory.
AcceptedSuits ==
  LET config == load_section(section)
      spacing == ping_spacing_us(config)
      method == Methods[config.pinger_method]
      timers == {config.monitor_achieved_rates_interval_us,
                 config.reflector_health_check_interval_us}
  IN  section # NoSection /\ Accepted(section)
      /\ (config.enabled \/ config_adjusts(config)) =>
        /\ config.interface # ""
        /\ \A d \in Directions :
             /\ config[d].adjust =>
                  /\ 0 < config[d].minimum /\ config[d].minimum <= config[d].base
                  /\ config[d].base <= config[d].maximum
                  /\ \A rate \in {config[d].minimum, config[d].base, config[d].maximum} :
                       rate % RATE_STEP = 0
             /\ config.enable_sleep_function =>
                  config.connection_active_threshold_bps <= config[d].minimum
        /\ config.alphas \subseteq 0 .. RATIO_ONE_E6
        /\ Cardinality(Range(config.reflectors)) >= config.no_pingers
        /\ config.reflector_misbehaving_detection_threshold
             \in 1 .. config.reflector_misbehaving_detection_window
        /\ \A us \in timers : us \div MILLISECOND \in 1 .. UINT_MAX
        /\ spacing >= MILLISECOND /\ config.stall_detection_threshold * spacing <= U64_MAX
        /\ config.tcp_ts_request => config.tcp_delay_attribution /\ method.shared
        /\ Range(config.reflectors) \subseteq
             V4 \cup (IF method.timestamps THEN {} ELSE V6)
                \cup (IF method.native THEN {} ELSE Hosts)
        /\ section.shared => ~config.ping_arguments /\ ~config.log_file_path_override

\* Whatever a section says, it is turned down or loads as its newer spelling
\* and as what the rest of the daemon relies on.
ConfigSound == LoadsAlike /\ AcceptedSuits
=============================================================================
