-------------------------- MODULE MCDatadogConfig --------------------------
(***************************************************************************)
(* Supplies for model checking DatadogConfig: each family varies what is   *)
(* resolved together and leaves the rest to the defaults.                  *)
(***************************************************************************)
EXTENDS DatadogConfig, TLC

SmallDefaults ==
  [field \in Numbers |-> CASE field = "MaxRetries" -> 3 [] OTHER -> 5]

Unset     == [read |-> "unset", n |-> 0]
Malformed == [read |-> "malformed", n |-> 0]
Value(n)  == [read |-> "value", n |-> n]

NoFlag  == [malformed |-> FALSE, value |-> {}]
Flag(b) == [malformed |-> FALSE, value |-> {b}]

Plain ==
  [given |-> [overrides |-> [name \in Numbers \cup Flags |-> {}],
              numbers |-> [field \in Numbers |-> 0],
              flags |-> [flag \in Flags |-> FALSE],
              APIKey |-> "key", Site |-> "", Endpoint |-> "",
              MLApp |-> "", Service |-> "", HTTPClient |-> FALSE,
              AllowMissingAPIKeyForTesting |-> FALSE],
   env |-> [numbers |-> [field \in Numbers |-> Unset],
            flags |-> [flag \in Flags |-> NoFlag],
            APIKey |-> "", Site |-> "", Endpoint |-> "", LLMObsMLApp |-> "",
            EinoMLApp |-> "", Service |-> ""]]

NumberSupplies ==
  {[Plain EXCEPT !.given.overrides[field] = override,
                 !.given.numbers[field] = number,
                 !.env.numbers[field] = read] :
     field \in Numbers, override \in {{}, {-1}, {0}, {4}},
     number \in {-1, 0, 2},
     read \in {Unset, Malformed, Value(-1), Value(0), Value(3)}}

FlagSupplies ==
  {[Plain EXCEPT !.given.overrides[flag] = override,
                 !.given.flags[flag] = given,
                 !.env.flags[flag] = read] :
     flag \in Flags, override \in {{}, {TRUE}, {FALSE}}, given \in BOOLEAN,
     read \in {NoFlag, Flag(TRUE), Flag(FALSE),
               [malformed |-> TRUE, value |-> {}]}}

Local  == "local"
Names == {"", Local, "clear", "secure", "ftp", "path"}

SomeUrls ==
  Local :> [scheme |-> "http", host |-> "localhost", path |-> "/"] @@
  "clear" :> [scheme |-> "http", host |-> "remote", path |-> ""] @@
  "secure" :> [scheme |-> "https", host |-> "remote", path |-> "/custom"] @@
  "ftp" :> [scheme |-> "ftp", host |-> "remote", path |-> ""] @@
  "path" :> [scheme |-> "", host |-> "", path |-> "/custom"]

EndpointSupplies ==
  {[Plain EXCEPT !.given.APIKey = key, !.env.APIKey = envKey,
                 !.given.AllowMissingAPIKeyForTesting = allow,
                 !.given.Endpoint = endpoint, !.env.Endpoint = envEndpoint,
                 !.given.Site = site] :
     key \in {"", " ", "key"}, envKey \in {"", "other"}, allow \in BOOLEAN,
     endpoint \in Names, envEndpoint \in {"", Local, "clear"},
     site \in {"", "datadoghq.eu", "elsewhere"}}

NameSupplies ==
  {[Plain EXCEPT !.given.MLApp = app, !.given.Service = service,
                 !.env.LLMObsMLApp = envApp, !.env.EinoMLApp = envOther,
                 !.env.Service = envService] :
     app \in {"", " ", "app"}, service \in {"", "service"},
     envApp \in {"", "a"}, envOther \in {"", "b"}, envService \in {"", "c"}}

RetrySupplies ==
  {[Plain EXCEPT !.given.overrides.ValidateCredentials = {TRUE},
                 !.given.overrides.RetryBaseDelay = {base},
                 !.given.overrides.RetryMaxDelay = {max},
                 !.given.overrides.MaxRetries = {retries},
                 !.given.overrides.Timeout = {timeout},
                 !.given.HTTPClient = client] :
     base \in {0, 1, 3, 7, 12, 40}, max \in {0, 1, 8, 13, 25, 100},
     retries \in {0, 1, 4}, timeout \in {0, 9}, client \in BOOLEAN}

(* As many retries as an int can hold. *)
ManyRetries ==
  {[Plain EXCEPT !.given.flags.ValidateCredentials = TRUE,
                 !.given.numbers.MaxRetries = MaxInt]}

AllSupplies == NumberSupplies \cup FlagSupplies \cup EndpointSupplies \cup
               NameSupplies \cup RetrySupplies \cup ManyRetries
=============================================================================
