--------------------------- MODULE DatadogConfig ---------------------------
(***************************************************************************)
(* How a Datadog exporter comes to be (exporter/datadog/exporter.go):      *)
(* ResolveConfig merges what the program gave, the environment and the     *)
(* defaults; New validates the credentials, if asked to, with a request    *)
(* that is retried like any other.                                         *)
(*                                                                         *)
(* Integers and durations have MaxInt as their largest value and wrap      *)
(* around.  A text is a name, " " one of white space only; a URL is what   *)
(* url.Parse tells apart.  Env and Version follow the pattern of APIKey    *)
(* and are left out.                                                       *)
(***************************************************************************)
EXTENDS Integers, Sequences, SequencesExt

CONSTANTS
  Supplies,   \* pairs of a Config and an environment
  Defaults,   \* of the numbers
  Urls,       \* what the endpoints of Supplies parse to
  Sites,      \* names of Datadog sites
  MaxInt

Numbers  == {"Timeout", "BatchSize", "MaxPayloadBytes", "MaxRetries",
             "RetryBaseDelay", "RetryMaxDelay"}
Positive == {"BatchSize", "MaxPayloadBytes"}
Flags    == {"ValidateCredentials", "DisableCompression"}
Settings == Numbers \cup Flags \cup
            {"APIKey", "MLApp", "Service", "Endpoint",
             "AllowMissingAPIKeyForTesting"}

(* What an int or a duration holds. *)
Width == -MaxInt - 1 .. MaxInt

ASSUME ConstantsAssumption ==
  /\ MaxInt \in Nat \ {0}
  /\ Defaults \in [Numbers -> 1..MaxInt]
  /\ \A s \in Supplies :
       /\ \A field \in Numbers :
            /\ s.given.overrides[field] \subseteq Width
            /\ s.given.numbers[field] \in Width
            /\ s.env.numbers[field] \in
                 [read : {"unset", "malformed", "value"}, n : Width]
       /\ \A flag \in Flags :
            /\ s.given.overrides[flag] \subseteq BOOLEAN
            /\ s.given.flags[flag] \in BOOLEAN
            /\ s.env.flags[flag].value \subseteq BOOLEAN
       /\ \A text \in {s.given.Endpoint, s.env.Endpoint} \ {"", " "} :
            Urls[text] \in [scheme : STRING, host : STRING, path : STRING]

VARIABLES
  supply,    \* what New is given
  config,    \* what it resolved: {} or one configuration
  phase,     \* of New
  attempt,   \* the request New is at
  pause,     \* {} or the delay before this request
  accepted,  \* history: whether the intake accepted a request
  closed     \* whether New closed the client it made

vars == <<supply, config, phase, attempt, pause, accepted, closed>>

(* The result of one addition or doubling, which leaves Width by less than its
   size. *)
Wrapped(n) == CASE n > MaxInt -> n - (2 * MaxInt + 2)
                [] n < -MaxInt - 1 -> n + (2 * MaxInt + 2)
                [] OTHER -> n

-----------------------------------------------------------------------------
(* ResolveConfig *)

Trimmed(text) == IF text = " " THEN "" ELSE text

(* firstConfigValue *)
FirstValue(values) ==
  LET set == {i \in DOMAIN values : Trimmed(values[i]) # ""}
  IN  IF set = {} THEN "" ELSE Trimmed(values[Min(set)])

Least(field) == IF field \in Positive THEN 1 ELSE 0

ReadsEnv(s, field) == s.given.overrides[field] = {} /\ s.given.numbers[field] = 0

(* durationEnv, positiveIntEnv and nonNegativeIntEnv where they are called,
   boolEnv: its value is a set, empty if the variable is unset. *)
Readable(s) ==
  /\ \A field \in Numbers :
       ReadsEnv(s, field) =>
         CASE s.env.numbers[field].read = "unset" -> TRUE
           [] s.env.numbers[field].read = "malformed" -> FALSE
           [] OTHER -> s.env.numbers[field].n >= Least(field)
  /\ \A flag \in Flags :
       s.given.overrides[flag] = {} => ~s.env.flags[flag].malformed

(* An optional value is a set, empty if there is none. *)
ValueOf(set) == CHOOSE value \in set : TRUE

(* Slip: the environment comes before a value of the program. *)
NumberFromEnvFirst(s, field) ==
  IF s.given.overrides[field] # {} THEN ValueOf(s.given.overrides[field])
  ELSE IF s.env.numbers[field].read = "value" THEN s.env.numbers[field].n
  ELSE IF s.given.numbers[field] # 0 THEN s.given.numbers[field]
  ELSE Defaults[field]

Number(s, field) ==
  IF s.given.overrides[field] # {} THEN ValueOf(s.given.overrides[field])
  ELSE IF s.given.numbers[field] # 0 THEN s.given.numbers[field]
  ELSE IF s.env.numbers[field].read = "value" THEN s.env.numbers[field].n
  ELSE Defaults[field]

(* The environment comes before a plain flag: false may mean "not given". *)
FlagOf(s, flag) ==
  IF s.given.overrides[flag] # {} THEN ValueOf(s.given.overrides[flag])
  ELSE IF s.env.flags[flag].value # {} THEN ValueOf(s.env.flags[flag].value)
  ELSE s.given.flags[flag]

IntakePath == "/api/intake/llm-obs/v1/trace/spans"

(* resolveEndpoint and normalizeEndpoint: {} is an error. *)
Endpoint(site, endpoint) ==
  LET url == CASE endpoint # "" -> Urls[endpoint]
               [] OTHER -> [scheme |-> "https", host |-> "remote", path |-> ""]
  IN  IF \/ endpoint = "" /\ site \notin Sites
         \/ url.scheme \notin {"http", "https"}
         \/ url.host = ""
         \/ url.scheme = "http" /\ url.host # "localhost"
      THEN {}
      ELSE {[url EXCEPT !.path = IF @ \in {"", "/"} THEN IntakePath ELSE @]}

(* Slip: a missing key is allowed wherever the endpoint is. *)
ValidAnywhere(cfg) ==
  /\ cfg.APIKey = "" => cfg.AllowMissingAPIKeyForTesting
  /\ cfg.MLApp # ""
  /\ \A field \in Numbers : cfg[field] >= Least(field)

(* validateResolvedConfig *)
Valid(cfg) ==
  /\ cfg.APIKey = "" => /\ cfg.AllowMissingAPIKeyForTesting
                        /\ cfg.Endpoint.host = "localhost"
  /\ cfg.MLApp # ""
  /\ \A field \in Numbers : cfg[field] >= Least(field)

(* What the sources give, once the endpoint is known. *)
Resolved(s, endpoint) ==
  LET texts ==
        [APIKey |-> <<s.given.APIKey, s.env.APIKey>>,
         MLApp |-> <<s.given.MLApp, s.env.LLMObsMLApp, s.env.EinoMLApp,
                     s.given.Service, s.env.Service, "eino-obs">>,
         Service |-> <<s.given.Service, s.env.Service, "eino-obs">>]
  IN  [name \in Settings |->
         CASE name \in Numbers -> Number(s, name)
           [] name \in Flags -> FlagOf(s, name)
           [] name \in DOMAIN texts -> FirstValue(texts[name])
           [] name = "Endpoint" -> endpoint
           [] name = "AllowMissingAPIKeyForTesting" ->
                s.given.AllowMissingAPIKeyForTesting]

(* {} is the error invalid_config. *)
ResolveConfig(s) ==
  LET site == FirstValue(<<s.given.Site, s.env.Site, "datadoghq.com">>)
      endpoints ==
        Endpoint(site, FirstValue(<<s.given.Endpoint, s.env.Endpoint>>))
  IN  IF ~Readable(s) THEN {}
      ELSE {cfg \in {Resolved(s, endpoint) : endpoint \in endpoints} : Valid(cfg)}

-----------------------------------------------------------------------------
(* retryDelay *)

(* A maximum of 0 is none. *)
Cut(cfg, delay) ==
  IF cfg.RetryMaxDelay > 0 /\ delay > cfg.RetryMaxDelay
  THEN cfg.RetryMaxDelay ELSE delay

(* Doubled until half of the maximum is reached, and cut. *)
Backoff(cfg, retryIndex) ==
  LET max == cfg.RetryMaxDelay
      doubled[i \in 0..retryIndex - 1] ==
        IF i = 0 THEN cfg.RetryBaseDelay
        ELSE IF max > 0 /\ doubled[i - 1] >= max \div 2 THEN max
        ELSE Wrapped(2 * doubled[i - 1])
  IN  Cut(cfg, doubled[retryIndex - 1])

(* Slip: the sum with the jitter is not cut again. *)
DelaysUncut(cfg, retryIndex) ==
  LET delay == Backoff(cfg, retryIndex)
  IN  {Wrapped(delay + jitter) : jitter \in 0 .. (delay \div 2)}

(* Up to half of it is added, and the sum is cut. *)
Delays(cfg, retryIndex) ==
  LET delay == Backoff(cfg, retryIndex)
  IN  IF cfg.RetryBaseDelay <= 0 THEN {0}
      ELSE IF delay < 2 THEN {delay}
      ELSE {Cut(cfg, Wrapped(delay + jitter)) : jitter \in 0 .. (delay \div 2)}

-----------------------------------------------------------------------------
(* New *)

Cfg == ValueOf(config)

(* Slip: the first request counts as a retry. *)
AttemptsRetriesOnly(cfg) == cfg.MaxRetries

Attempts(cfg) == Wrapped(cfg.MaxRetries + 1)

(* A validation without any attempt has no error either. *)
Resolve ==
  LET resolved == ResolveConfig(supply)
  IN  /\ phase = "new"
      /\ config' = resolved
      /\ phase' = CASE resolved = {} -> "refused"
                    [] \E cfg \in resolved :
                         cfg.ValidateCredentials /\ Attempts(cfg) >= 1
                       -> "validating"
                    [] OTHER -> "open"
      /\ attempt' = 1
      /\ UNCHANGED <<supply, pause, accepted, closed>>

(* 2xx *)
Accepted ==
  /\ phase = "validating"
  /\ phase' = "open"
  /\ accepted' = TRUE
  /\ UNCHANGED <<supply, config, attempt, pause, closed>>

(* New fails, and shuts the exporter down if it made the client. *)
Refuse ==
  /\ phase' = "refused"
  /\ closed' = ~supply.given.HTTPClient
  /\ UNCHANGED <<supply, config, attempt, pause, accepted>>

(* A permanent error, or a transient one of the last attempt. *)
Rejected == phase = "validating" /\ Refuse

Retried ==
  /\ phase = "validating"
  /\ attempt < Attempts(Cfg)
  /\ \E delay \in Delays(Cfg, attempt) :
       /\ phase' = IF delay > 0 THEN "paused" ELSE "validating"
       /\ pause' = {delay}
  /\ attempt' = attempt + 1
  /\ UNCHANGED <<supply, config, accepted, closed>>

Resume ==
  /\ phase = "paused"
  /\ phase' = "validating"
  /\ UNCHANGED <<supply, config, attempt, pause, accepted, closed>>

(* The deadline of the whole validation. *)
TimedOut ==
  /\ phase \in {"validating", "paused"}
  /\ Cfg.Timeout > 0
  /\ Refuse

Init ==
  /\ supply \in Supplies
  /\ config = {}
  /\ phase = "new"
  /\ attempt = 0
  /\ pause = {}
  /\ accepted = FALSE
  /\ closed = FALSE

Next == Resolve \/ Accepted \/ Rejected \/ Retried \/ Resume \/ TimedOut

Spec == Init /\ [][Next]_vars

-----------------------------------------------------------------------------
(* Properties *)

(* Whatever the sources, an exporter that exists has limits that are numbers
   of their kind, sends in the clear to the local host only, and has a key
   unless it sends there. *)
TypeOK ==
  /\ phase \in {"new", "validating", "paused", "open", "refused"}
  /\ attempt \in Nat /\ accepted \in BOOLEAN /\ closed \in BOOLEAN
  /\ pause \subseteq Width
  /\ phase \in {"validating", "paused", "open"} => config # {}
  /\ \A cfg \in config :
       /\ \A field \in Positive : cfg[field] \in 1..MaxInt
       /\ \A field \in Numbers \ Positive : cfg[field] \in 0..MaxInt
       /\ \A flag \in Flags : cfg[flag] \in BOOLEAN
       /\ "" \notin {cfg.MLApp, cfg.Service, cfg.Endpoint.path}
       /\ cfg.Endpoint.host # "localhost" =>
            cfg.APIKey # "" /\ cfg.Endpoint.scheme = "https"

(* What the program sets itself no environment can change: the number and the
   text are the same in every environment in which the exporter exists. *)
ExplicitIsStable ==
  phase \in {"validating", "open"} /\ pause = {} =>
    \A s \in {t \in Supplies : t.given = supply.given} :
      \A cfg \in config, other \in ResolveConfig(s) :
        /\ \A field \in Numbers :
             \/ supply.given.overrides[field] \cup
                  ({supply.given.numbers[field]} \ {0}) = {}
             \/ cfg[field] = other[field]
        /\ \A flag \in Flags :
             supply.given.overrides[flag] # {} => cfg[flag] = other[flag]
        /\ \A text \in {"APIKey", "MLApp", "Service"} :
             Trimmed(supply.given[text]) # "" => cfg[text] = other[text]
        /\ Trimmed(supply.given.Endpoint) # "" => cfg.Endpoint = other.Endpoint

TwoTo(n) ==
  LET power[i \in 0..n] == IF i = 0 THEN 1 ELSE 2 * power[i - 1]
  IN  power[n]

(* The pause before a retry is at least what exporter-config.md gives for it
   and never more than the maximum; there are at most MaxRetries of them.  Left
   out are maxima of more than two thirds of MaxInt, in the code some 195
   years: there the sum with the jitter may wrap. *)
DelaysWithinCap ==
  \A cfg \in config, delay \in pause :
    /\ attempt - 1 <= cfg.MaxRetries
    /\ cfg.RetryMaxDelay \in 1 .. 2 * (MaxInt \div 3) =>
         /\ delay <= cfg.RetryMaxDelay
         /\ delay >= Min({cfg.RetryMaxDelay,
                          cfg.RetryBaseDelay * TwoTo(attempt - 2)})

(* Where the credentials are to be validated an exporter exists only after a
   request that the intake accepted.  Left out is MaxRetries = MaxInt: the
   number of attempts wraps around, and none is made. *)
ValidatedMeansAccepted ==
  phase = "open" =>
    \A cfg \in config :
      cfg.ValidateCredentials /\ cfg.MaxRetries < MaxInt => accepted
=============================================================================
