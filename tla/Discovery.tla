------------------------------ MODULE Discovery ------------------------------
(***************************************************************************)
(* Where a session's calibration comes from: the constructor's validation  *)
(* of the Config, configuration_for_session(), the HTTP transfer of        *)
(* discover_sensor() and the parser that reads what arrived.               *)
(*                                                                         *)
(* Durations are counted in a unit of which PerMillisecond make one        *)
(* millisecond and Tick one tick of the steady clock; 0 stands for every   *)
(* value that is not positive, and a value above all limits for one that   *)
(* is not finite.  The response is counted in bytes; the tokens the parser *)
(* reads are XmlConfig's.                                                  *)
(***************************************************************************)
EXTENDS XmlConfig

CONSTANTS Ports, MaximumPort,            \* ports that are tried; 65535
          Durations,                     \* durations that are tried
          PerMillisecond, Tick,          \* the unit of durations, see above
          Instants, ClockMax,            \* when a Config is validated, and the last instant
                                         \* the steady clock has, in ticks
          LongMax,                       \* the largest long, in milliseconds
          Chunks,                        \* sizes of what libcurl hands over at a time
          MaximumResponseBytes,          \* kMaximumResponseBytes
          Statuses                       \* HTTP status codes

ASSUME DiscoveryAssumption ==
  /\ Ports \subseteq Nat /\ Durations \subseteq Nat /\ Chunks \subseteq Nat
  /\ Instants \subseteq Nat
  /\ {PerMillisecond, Tick, ClockMax, LongMax, MaximumResponseBytes} \subseteq Nat \ {0}

VARIABLES
  phase,      \* "unmade", "refused", "made", "discover", "invalid" (options),
              \* "transfer", "parse", "failed", "configured"
  options,    \* of the Config: what configuration_for_session() uses
  response,   \* the ResponseBuffer: bytes stored, too_large, write_failed
  sent        \* history: bytes of the body that libcurl has handed over

discoveryVars == <<phase, options, response, sent>>
allVars == <<xmlVars, discoveryVars>>

NoOptions  == [host |-> "sensor", http_port |-> 1, connect |-> Tick, total |-> Tick, override |-> "none"]
NoResponse == [bytes |-> 0, too_large |-> FALSE, write_failed |-> FALSE]

Init ==
  /\ XmlInit
  /\ phase = "unmade" /\ options = NoOptions /\ response = NoResponse /\ sent = 0

-----------------------------------------------------------------------------
(* validate(Config) *)

Milliseconds(duration) == (duration + PerMillisecond - 1) \div PerMillisecond

SafePort(port) == port \in 1 .. MaximumPort

\* checked_duration() and checked_deadline() do not throw.
CheckedDuration(duration) == duration < ClockMax * Tick

CheckedDeadline(origin, duration) ==
  CheckedDuration(duration) /\ origin + duration \div Tick <= ClockMax

RequireSafeTimeout(now, duration) == duration >= Tick /\ CheckedDeadline(now, duration)

\* Fault injection: the range of the HTTP timer is not looked at.
RequireSafeHttpTimeoutAsOther(now, duration) == RequireSafeTimeout(now, duration)

RequireSafeHttpTimeout(now, duration) ==
  RequireSafeTimeout(now, duration) /\ Milliseconds(duration) < LongMax

\* validate(Calibration): counts so small that a sample would not be finite, or a unit that
\* is not known, are refused.
SafeCalibration(calibration) == calibration \notin {"small count", "unknown unit"}

Validate(now, config) ==
  /\ config.host # "blank"
  /\ SafePort(config.rdt_port) /\ SafePort(config.http_port)
  /\ RequireSafeTimeout(now, config.receive)
  /\ RequireSafeHttpTimeout(now, config.connect) /\ RequireSafeHttpTimeout(now, config.total)
  /\ RequireSafeTimeout(now, config.initial) /\ RequireSafeTimeout(now, config.max)
  /\ config.max >= config.initial
  /\ config.rate = "limit"            \* finite and not negative
  /\ config.override # "none" => SafeCalibration(config.override)

\* Client::Impl's constructor throws or keeps the Config.
Construct(now, config) ==
  /\ IF Validate(now, config)
     THEN phase' = "made" /\ options' = [field \in DOMAIN NoOptions |-> config[field]]
     ELSE phase' = "refused" /\ UNCHANGED options
  /\ UNCHANGED <<xmlVars, response, sent>>

-----------------------------------------------------------------------------
(* discover_sensor() *)

\* timeout_milliseconds() does not throw.
TimeoutMilliseconds(duration) == duration > 0 /\ Milliseconds(duration) <= LongMax

ValidateOptions ==
  /\ options.host # "blank" /\ SafePort(options.http_port)
  /\ TimeoutMilliseconds(options.connect) /\ TimeoutMilliseconds(options.total)

\* configuration_for_session(): an override needs no sensor.
ConfigurationForSession ==
  /\ phase = "made" /\ phase' = IF options.override = "none" THEN "discover" ELSE "configured"
  /\ UNCHANGED <<xmlVars, options, response, sent>>

\* discover_sensor() checks its options and sets libcurl up, which may fail.
BeginTransfer ==
  /\ phase = "discover"
  /\ \/ ~ValidateOptions /\ phase' = "invalid"
     \/ ValidateOptions /\ phase' \in {"transfer", "failed"}
  /\ options' = NoOptions
  /\ UNCHANGED <<xmlVars, response, sent>>

\* Fault injection: each chunk is held against the limit by itself.
FitsAlone(count) == count <= MaximumResponseBytes

Fits(count) == count <= MaximumResponseBytes - response.bytes

Receiving == phase = "transfer" /\ ~response.too_large /\ ~response.write_failed

\* append_response(): libcurl passes a size of 1, and aborts the transfer after 0.
AppendResponse(count) ==
  /\ Receiving /\ sent' = sent + count
  /\ \/ Fits(count) /\ response' = [response EXCEPT !.bytes = @ + count]
     \/ ~Fits(count) /\ response' = [response EXCEPT !.too_large = TRUE]
     \/ Fits(count) /\ response' = [response EXCEPT !.write_failed = TRUE]
  /\ UNCHANGED <<xmlVars, phase, options>>

\* curl_easy_perform() returns: whole, or with what ended it (a limit of time, the
\* network, the callback); discover_sensor() then looks at the buffer, the result
\* and the status in this order.
Performed(whole, status) ==
  /\ phase = "transfer" /\ (whole => Receiving)
  /\ phase' = IF ~response.too_large /\ ~response.write_failed /\ whole /\ status = 200
              THEN "parse" ELSE "failed"
  /\ response' = NoResponse /\ sent' = 0
  /\ UNCHANGED <<xmlVars, options>>

Parse ==
  /\ phase = "parse" /\ XmlNext
  /\ phase' = CASE verdict' = "reading" -> "parse" [] verdict' = "accepted" -> "configured"
                [] OTHER -> "failed"
  /\ UNCHANGED <<options, response, sent>>

Configs ==
  [host : {"sensor", "blank"}, rdt_port : Ports, http_port : Ports, receive : Durations,
   connect : Durations, total : Durations, initial : Durations, max : Durations,
   rate : {"limit", "other"},
   override : {"none", "safe", "small count", "unknown unit"}]

Next ==
  \/ phase = "unmade" /\ \E now \in Instants, config \in Configs : Construct(now, config)
  \/ ConfigurationForSession \/ BeginTransfer
  \/ \E count \in Chunks : AppendResponse(count)
  \/ \E whole \in BOOLEAN, status \in Statuses : Performed(whole, status)
  \/ Parse

Spec == Init /\ [][Next]_allVars

-----------------------------------------------------------------------------
(* Properties *)

(***************************************************************************)
(* Two sets of range checks on the HTTP options agree at their limits: a   *)
(* Config the constructor has accepted (validate() in types.cpp, rounding  *)
(* up and comparing with >=) is never refused when a session discovers its *)
(* sensor (validate_options() in discovery.cpp, comparing with >).  The    *)
(* deadlines that sessions compute from the other timeouts are not meant:  *)
(* they are checked again at a later instant, and may then be refused.     *)
(***************************************************************************)
ValidatedConfigIsUsable == phase # "invalid"

(***************************************************************************)
(* The parser only ever sees the whole body of a successful response, and  *)
(* never more than the limit, however the body is cut into chunks and      *)
(* whichever of them ends the transfer.                                    *)
(***************************************************************************)
OnlyWholeResponsesParsed ==
  [][phase = "transfer" /\ phase' = "parse" =>
       response.bytes = sent /\ sent <= MaximumResponseBytes]_allVars
=============================================================================
