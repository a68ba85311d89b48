------------------------ MODULE DatadogConfigProofs ------------------------
(***************************************************************************)
(* Proofs about DatadogConfig: what every combination of program,          *)
(* environment and defaults resolves to, the delays between attempts for   *)
(* every base and maximum, and what New promises of the credentials.       *)
(***************************************************************************)
EXTENDS DatadogConfig, InductionLemmas

-----------------------------------------------------------------------------
(* Integers of one width *)

LEMMA MaxIntType == MaxInt \in Nat /\ MaxInt >= 1
<1>1. MaxInt \in Nat \ {0}
  BY ConstantsAssumption
<1> QED BY <1>1

LEMMA InWidth ==
  \A n : n \in Width <=> n \in Int /\ -MaxInt - 1 <= n /\ n <= MaxInt
BY MaxIntType DEF Width

LEMMA WrappedType ==
  ASSUME NEW n \in Int, -2 * MaxInt - 2 <= n, n <= 2 * MaxInt + 2
  PROVE  Wrapped(n) \in Width
BY MaxIntType, InWidth DEF Wrapped

LEMMA WrappedSame ==
  ASSUME NEW n \in Width
  PROVE  Wrapped(n) = n
BY MaxIntType, InWidth DEF Wrapped

-----------------------------------------------------------------------------
(* The first text that is not blank *)

LEMMA MinIsLeast ==
  ASSUME NEW S, S \subseteq Nat, S # {}
  PROVE  Min(S) \in S /\ \A x \in S : Min(S) <= x
<1>1. \E x \in S : \A y \in S : x <= y
  BY NatMinimum
<1> QED BY <1>1 DEF Min

LEMMA FirstValueFilled ==
  ASSUME NEW values, DOMAIN values \subseteq Nat, NEW i \in DOMAIN values,
         Trimmed(values[i]) # ""
  PROVE  FirstValue(values) # ""
<1> DEFINE set == {j \in DOMAIN values : Trimmed(values[j]) # ""}
<1>1. Min(set) \in set
  BY MinIsLeast
<1> QED BY <1>1 DEF FirstValue

LEMMA MinIsOne ==
  ASSUME NEW S, S \subseteq Nat \ {0}, 1 \in S
  PROVE  Min(S) = 1
<1>1. Min(S) \in S /\ Min(S) <= 1
  BY MinIsLeast
<1> DEFINE m == Min(S)
<1>2. m \in Nat /\ m # 0 /\ m <= 1
  BY <1>1
<1> HIDE DEF m
<1>3. m = 1
  BY <1>2
<1> QED BY <1>3 DEF m

LEMMA FirstValueFirst ==
  ASSUME NEW values, DOMAIN values \subseteq Nat \ {0}, 1 \in DOMAIN values,
         Trimmed(values[1]) # ""
  PROVE  FirstValue(values) = Trimmed(values[1])
<1> DEFINE set == {j \in DOMAIN values : Trimmed(values[j]) # ""}
<1>1. set \subseteq Nat \ {0} /\ 1 \in set
  OBVIOUS
<1> HIDE DEF set
<1>2. Min(set) = 1 /\ set # {}
  BY <1>1, MinIsOne
<1>3. FirstValue(values) = IF set = {} THEN "" ELSE Trimmed(values[Min(set)])
  BY DEF FirstValue, set
<1> QED BY <1>2, <1>3

LEMMA FirstValueIsOne ==
  ASSUME NEW values, DOMAIN values \subseteq Nat, FirstValue(values) # ""
  PROVE  \E i \in DOMAIN values : /\ FirstValue(values) = values[i]
                                  /\ values[i] \notin {"", " "}
<1> DEFINE set == {j \in DOMAIN values : Trimmed(values[j]) # ""}
<1>1. Min(set) \in set /\ FirstValue(values) = Trimmed(values[Min(set)])
  BY MinIsLeast DEF FirstValue
<1> QED BY <1>1 DEF Trimmed

-----------------------------------------------------------------------------
(* What ResolveConfig returns *)

EndpointText(s) == FirstValue(<<s.given.Endpoint, s.env.Endpoint>>)

SiteText(s) == FirstValue(<<s.given.Site, s.env.Site, "datadoghq.com">>)

LEMMA ResolvedFields ==
  ASSUME NEW s, NEW cfg \in ResolveConfig(s)
  PROVE  /\ Readable(s) /\ Valid(cfg)
         /\ \A field \in Numbers : cfg[field] = Number(s, field)
         /\ \A flag \in Flags : cfg[flag] = FlagOf(s, flag)
         /\ cfg.APIKey = FirstValue(<<s.given.APIKey, s.env.APIKey>>)
         /\ cfg.MLApp = FirstValue(<<s.given.MLApp, s.env.LLMObsMLApp,
                                     s.env.EinoMLApp, s.given.Service,
                                     s.env.Service, "eino-obs">>)
         /\ cfg.Service = FirstValue(<<s.given.Service, s.env.Service,
                                       "eino-obs">>)
         /\ cfg.Endpoint \in Endpoint(SiteText(s), EndpointText(s))
<1> DEFINE texts ==
             [APIKey |-> <<s.given.APIKey, s.env.APIKey>>,
              MLApp |-> <<s.given.MLApp, s.env.LLMObsMLApp, s.env.EinoMLApp,
                          s.given.Service, s.env.Service, "eino-obs">>,
              Service |-> <<s.given.Service, s.env.Service, "eino-obs">>]
           value(name, endpoint) ==
             CASE name \in Numbers -> Number(s, name)
               [] name \in Flags -> FlagOf(s, name)
               [] name \in DOMAIN texts -> FirstValue(texts[name])
               [] name = "Endpoint" -> endpoint
               [] name = "AllowMissingAPIKeyForTesting" ->
                    s.given.AllowMissingAPIKeyForTesting
<1>1. PICK endpoint \in Endpoint(SiteText(s), EndpointText(s)) :
        Readable(s) /\ Valid(cfg) /\ cfg = Resolved(s, endpoint)
  BY DEF ResolveConfig, SiteText, EndpointText
<1>2. \A name \in Settings : cfg[name] = value(name, endpoint)
  BY <1>1 DEF Resolved
<1>3. DOMAIN texts = {"APIKey", "MLApp", "Service"}
  OBVIOUS
<1>4. ASSUME NEW field \in Numbers PROVE cfg[field] = Number(s, field)
  <2>1. /\ field \in Settings /\ field \notin Flags
        /\ field \notin {"APIKey", "MLApp", "Service"}
        /\ field # "Endpoint" /\ field # "AllowMissingAPIKeyForTesting"
    BY DEF Settings, Flags, Numbers
  <2> HIDE DEF texts
  <2> QED BY <1>2, <1>3, <2>1
<1>5. ASSUME NEW flag \in Flags PROVE cfg[flag] = FlagOf(s, flag)
  <2>1. /\ flag \in Settings /\ flag \notin Numbers
        /\ flag \notin {"APIKey", "MLApp", "Service"}
        /\ flag # "Endpoint" /\ flag # "AllowMissingAPIKeyForTesting"
    BY DEF Settings, Flags, Numbers
  <2> HIDE DEF texts
  <2> QED BY <1>2, <1>3, <2>1
<1>6. ASSUME NEW name \in {"APIKey", "MLApp", "Service"}
      PROVE  cfg[name] = FirstValue(texts[name])
  <2>1. name \in Settings /\ name \notin Numbers /\ name \notin Flags
    BY DEF Settings, Flags, Numbers
  <2> HIDE DEF texts
  <2> QED BY <1>2, <1>3, <2>1
<1>7. cfg.Endpoint = endpoint
  <2>1. "Endpoint" \in Settings /\ "Endpoint" \notin Numbers
        /\ "Endpoint" \notin Flags
        /\ "Endpoint" \notin {"APIKey", "MLApp", "Service"}
    BY DEF Settings, Flags, Numbers
  <2> HIDE DEF texts
  <2> QED BY <1>2, <1>3, <2>1
<1> HIDE DEF value
<1>8. /\ texts.APIKey = <<s.given.APIKey, s.env.APIKey>>
      /\ texts.MLApp = <<s.given.MLApp, s.env.LLMObsMLApp, s.env.EinoMLApp,
                         s.given.Service, s.env.Service, "eino-obs">>
      /\ texts.Service = <<s.given.Service, s.env.Service, "eino-obs">>
  OBVIOUS
<1> QED BY <1>1, <1>4, <1>5, <1>6, <1>7, <1>8

LEMMA ValueIn ==
  ASSUME NEW S, S # {}
  PROVE  ValueOf(S) \in S
BY DEF ValueOf

LEMMA NumberType ==
  ASSUME NEW s \in Supplies, NEW field \in Numbers
  PROVE  Number(s, field) \in Width
<1>1. /\ s.given.overrides[field] \subseteq Width
      /\ s.given.numbers[field] \in Width
      /\ s.env.numbers[field].n \in Width
  BY ConstantsAssumption
<1>2. Defaults[field] \in Width
  <2>1. Defaults[field] \in 1..MaxInt
    BY ConstantsAssumption
  <2> QED BY <2>1, InWidth, MaxIntType
<1>3. s.given.overrides[field] # {} => ValueOf(s.given.overrides[field]) \in Width
  BY <1>1, ValueIn
<1> QED BY <1>1, <1>2, <1>3 DEF Number

LEMMA FlagOverride ==
  ASSUME NEW s, NEW flag, s.given.overrides[flag] # {}
  PROVE  FlagOf(s, flag) = ValueOf(s.given.overrides[flag])
<1> DEFINE override == s.given.overrides[flag]
           env == s.env.flags[flag].value
           given == s.given.flags[flag]
<1>1. FlagOf(s, flag) = IF override # {} THEN ValueOf(override)
                        ELSE IF env # {} THEN ValueOf(env)
                        ELSE given
  BY DEF FlagOf
<1>2. override # {}
  OBVIOUS
<1> HIDE DEF override, env, given
<1>3. FlagOf(s, flag) = ValueOf(override)
  BY <1>1, <1>2
<1> QED BY <1>3 DEF override

LEMMA FlagType ==
  ASSUME NEW s \in Supplies, NEW flag \in Flags
  PROVE  FlagOf(s, flag) \in BOOLEAN
<1>1. /\ s.given.overrides[flag] \subseteq BOOLEAN
      /\ s.given.flags[flag] \in BOOLEAN
      /\ s.env.flags[flag].value \subseteq BOOLEAN
  BY ConstantsAssumption
<1> DEFINE override == s.given.overrides[flag]
           env == s.env.flags[flag].value
           given == s.given.flags[flag]
<1>2. FlagOf(s, flag) = IF override # {} THEN ValueOf(override)
                        ELSE IF env # {} THEN ValueOf(env)
                        ELSE given
  BY DEF FlagOf
<1>3. override \subseteq BOOLEAN /\ given \in BOOLEAN /\ env \subseteq BOOLEAN
  BY <1>1
<1> HIDE DEF override, env, given
<1>4. override # {} => ValueOf(override) \in BOOLEAN
  BY <1>3, ValueIn
<1>5. env # {} => ValueOf(env) \in BOOLEAN
  BY <1>3, ValueIn
<1> QED BY <1>2, <1>3, <1>4, <1>5

(* The endpoint that is used has a path, and is local or secure. *)
LEMMA EndpointFacts ==
  ASSUME NEW s \in Supplies,
         NEW url \in Endpoint(SiteText(s), EndpointText(s))
  PROVE  /\ url.path # ""
         /\ url.host # "localhost" => url.scheme = "https"
<1> DEFINE text == EndpointText(s)
           base == CASE text # "" -> Urls[text]
                     [] OTHER -> [scheme |-> "https", host |-> "remote",
                                  path |-> ""]
<1>1. {"scheme", "host", "path"} \subseteq DOMAIN base
  <2>1. CASE text # ""
    <3> DEFINE texts == <<s.given.Endpoint, s.env.Endpoint>>
    <3>1. DOMAIN texts = {1, 2}
      OBVIOUS
    <3>2. PICK i \in DOMAIN texts : text = texts[i] /\ texts[i] \notin {"", " "}
      <4>1. DOMAIN texts \subseteq Nat
        BY <3>1
      <4>2. text = FirstValue(texts)
        BY DEF EndpointText
      <4> HIDE DEF texts, text
      <4> QED BY <2>1, <4>1, <4>2, FirstValueIsOne
    <3>3. texts[1] = s.given.Endpoint /\ texts[2] = s.env.Endpoint
      OBVIOUS
    <3> HIDE DEF texts, text
    <3>4. text \in {s.given.Endpoint, s.env.Endpoint} \ {"", " "}
      BY <3>1, <3>2, <3>3
    <3>5. Urls[text] \in [scheme : STRING, host : STRING, path : STRING]
      BY <3>4, ConstantsAssumption
    <3> QED BY <2>1, <3>5
  <2>2. CASE text = ""
    <3> HIDE DEF text
    <3>1. base = [scheme |-> "https", host |-> "remote", path |-> ""]
      BY <2>2
    <3> HIDE DEF base
    <3> QED BY <3>1
  <2> QED BY <2>1, <2>2
<1>2. /\ base.scheme \in {"http", "https"}
      /\ base.scheme = "http" => base.host = "localhost"
      /\ url = [base EXCEPT !.path = IF @ \in {"", "/"} THEN IntakePath ELSE @]
  BY DEF Endpoint
<1> HIDE DEF base
<1>3. /\ url.scheme = base.scheme /\ url.host = base.host
      /\ url.path = IF base.path \in {"", "/"} THEN IntakePath ELSE base.path
  BY <1>1, <1>2
<1>4. IntakePath # ""
  BY DEF IntakePath
<1> QED BY <1>2, <1>3, <1>4

(* The numbers of what ResolveConfig returns are of their kind. *)
LEMMA ResolvedNumbers ==
  ASSUME NEW s \in Supplies, NEW cfg \in ResolveConfig(s)
  PROVE  /\ \A field \in Numbers : cfg[field] \in 0..MaxInt
         /\ \A field \in Positive : cfg[field] \in 1..MaxInt
<1>1. ASSUME NEW field \in Numbers
      PROVE  /\ cfg[field] \in 0..MaxInt
             /\ field \in Positive => cfg[field] \in 1..MaxInt
  <2>1. cfg[field] = Number(s, field) /\ cfg[field] >= Least(field)
    BY ResolvedFields DEF Valid
  <2>2. cfg[field] \in Int /\ cfg[field] <= MaxInt
    BY <2>1, NumberType, InWidth
  <2> QED BY <2>1, <2>2, MaxIntType DEF Least
<1>2. Positive \subseteq Numbers
  BY DEF Positive, Numbers
<1> QED BY <1>1, <1>2

(* There is one configuration at most. *)
LEMMA ResolvedOnce ==
  ASSUME NEW s, NEW a \in ResolveConfig(s), NEW b \in ResolveConfig(s)
  PROVE  a = b
<1> DEFINE E == Endpoint(SiteText(s), EndpointText(s))
<1>1. \A x, y \in E : x = y
  BY DEF Endpoint
<1>2. PICK x \in E : a = Resolved(s, x)
  BY DEF ResolveConfig, SiteText, EndpointText
<1>3. PICK y \in E : b = Resolved(s, y)
  BY DEF ResolveConfig, SiteText, EndpointText
<1> QED BY <1>1, <1>2, <1>3

-----------------------------------------------------------------------------
(* The delay before a retry: the doublings, unrolled once *)

DoublingStep(max, last) ==
  IF max > 0 /\ last >= max \div 2 THEN max ELSE Wrapped(2 * last)

Doubled(f, cfg, r) ==
  /\ f \in [0 .. r - 1 -> Width]
  /\ f[0] = cfg.RetryBaseDelay
  /\ \A i \in 1 .. r - 1 :
       f[i] = DoublingStep(cfg.RetryMaxDelay, f[i - 1])
  /\ Backoff(cfg, r) = Cut(cfg, f[r - 1])

LEMMA DoublingType ==
  ASSUME NEW max \in 0..MaxInt, NEW last \in Width
  PROVE  DoublingStep(max, last) \in Width
<1>1. 2 * last \in Int /\ -2 * MaxInt - 2 <= 2 * last /\ 2 * last <= 2 * MaxInt + 2
  BY MaxIntType, InWidth
<1>2. Wrapped(2 * last) \in Width
  BY <1>1, WrappedType
<1>3. max \in Width
  BY MaxIntType, InWidth
<1> QED BY <1>2, <1>3 DEF DoublingStep

LEMMA DoublingSteps ==
  ASSUME NEW cfg, cfg.RetryBaseDelay \in 0..MaxInt,
         cfg.RetryMaxDelay \in 0..MaxInt, NEW r \in Nat \ {0}
  PROVE  \E f : Doubled(f, cfg, r)
<1> DEFINE n == r - 1
           base == cfg.RetryBaseDelay
           max == cfg.RetryMaxDelay
           step == [p \in (1..n) \X Width |-> DoublingStep(max, p[2])]
<1>1. n \in Nat /\ base \in Width
  BY MaxIntType, InWidth
<1>2. step \in Steps(n, Width)
  <2> HIDE DEF base, n
  <2>1. \A p \in (1..n) \X Width : DoublingStep(max, p[2]) \in Width
    BY DoublingType
  <2> QED BY <2>1 DEF Steps
<1>3. PICK f : Unrolls(f, Width, base, n, step)
  <2> HIDE DEF step, n, base
  <2> QED BY <1>1, <1>2, RecursionExists, Zenon
<1>4. f \in [0..n -> Width] /\ f[0] = base
  BY <1>3 DEF Unrolls
<1>5. ASSUME NEW i \in 1..n
      PROVE  f[i] = DoublingStep(max, f[i - 1])
  <2>1. i - 1 \in 0..n
    BY <1>1
  <2>2. f[i] = step[<<i, f[i - 1]>>]
    BY <1>3 DEF Unrolls
  <2>3. <<i, f[i - 1]>> \in (1..n) \X Width
    BY <1>4, <2>1
  <2> HIDE DEF n, base, max
  <2> QED BY <2>2, <2>3
<1> DEFINE E(g) == [i \in 0..n |->
                      IF i = 0 THEN base
                      ELSE IF max > 0 /\ g[i - 1] >= max \div 2 THEN max
                      ELSE Wrapped(2 * g[i - 1])]
           g == CHOOSE gg : gg = E(gg)
<1>6. f = E(f)
  <2> HIDE DEF base, max
  <2>1. ASSUME NEW k \in 0..n
        PROVE  f[k] = IF k = 0 THEN base
                      ELSE IF max > 0 /\ f[k - 1] >= max \div 2 THEN max
                      ELSE Wrapped(2 * f[k - 1])
    <3>1. k = 0 \/ k \in 1..n
      BY <1>1
    <3> QED BY <1>4, <1>5, <3>1 DEF DoublingStep
  <2>2. f = [k \in 0..n |-> f[k]]
    BY <1>4
  <2> QED BY <2>1, <2>2
<1>7. g = E(g)
  <2> HIDE DEF E
  <2> QED BY <1>6
<1>8. Backoff(cfg, r) = Cut(cfg, g[n])
  BY DEF Backoff
<1>9. g[n] = f[n]
  <2> HIDE DEF g
  <2>1. g[0] = f[0]
    BY <1>1, <1>4, <1>7
  <2>2. ASSUME NEW i \in 1..n, g[i - 1] = f[i - 1] PROVE g[i] = f[i]
    <3>1. i \in 0..n /\ i # 0
      BY <1>1
    <3> HIDE DEF n, base, max
    <3>2. g[i] = IF max > 0 /\ g[i - 1] >= max \div 2 THEN max
                 ELSE Wrapped(2 * g[i - 1])
      BY <1>7, <3>1
    <3> QED BY <1>5, <2>2, <3>2 DEF DoublingStep
  <2> HIDE DEF n
  <2> QED BY <1>1, <2>1, <2>2, SameRecursion
<1> HIDE DEF g
<1>10. Doubled(f, cfg, r)
  BY <1>4, <1>5, <1>8, <1>9 DEF Doubled
<1> QED BY <1>10

PowerOfTwo(f, n) ==
  /\ f \in [0..n -> Nat]
  /\ f[0] = 1
  /\ \A i \in 1..n : f[i] = 2 * f[i - 1]
  /\ TwoTo(n) = f[n]

LEMMA PowerSteps ==
  ASSUME NEW n \in Nat
  PROVE  \E f : PowerOfTwo(f, n)
<1> DEFINE step == [p \in (1..n) \X Nat |-> 2 * p[2]]
<1>1. step \in Steps(n, Nat)
  BY DEF Steps
<1>2. PICK f : Unrolls(f, Nat, 1, n, step)
  <2> HIDE DEF step
  <2> QED BY <1>1, RecursionExists
<1>3. f \in [0..n -> Nat] /\ f[0] = 1
  BY <1>2 DEF Unrolls
<1>4. ASSUME NEW i \in 1..n PROVE f[i] = 2 * f[i - 1]
  <2>1. i - 1 \in 0..n
    OBVIOUS
  <2>2. f[i] = step[<<i, f[i - 1]>>]
    BY <1>2 DEF Unrolls
  <2>3. <<i, f[i - 1]>> \in (1..n) \X Nat
    BY <1>3, <2>1
  <2> QED BY <2>2, <2>3
<1> DEFINE E(g) == [i \in 0..n |-> IF i = 0 THEN 1 ELSE 2 * g[i - 1]]
           g == CHOOSE gg : gg = E(gg)
<1>5. f = E(f)
  <2>1. \A k \in 0..n : f[k] = IF k = 0 THEN 1 ELSE 2 * f[k - 1]
    BY <1>3, <1>4
  <2>2. f = [k \in 0..n |-> f[k]]
    BY <1>3
  <2> QED BY <2>1, <2>2
<1>6. g = E(g)
  <2> HIDE DEF E
  <2> QED BY <1>5
<1>7. TwoTo(n) = g[n]
  BY DEF TwoTo
<1>8. g[n] = f[n]
  <2> HIDE DEF g
  <2>1. g[0] = f[0]
    BY <1>3, <1>6
  <2>2. ASSUME NEW i \in 1..n, g[i - 1] = f[i - 1] PROVE g[i] = f[i]
    <3>1. i \in 0..n /\ i # 0
      OBVIOUS
    <3>2. g[i] = 2 * g[i - 1]
      BY <1>6, <3>1
    <3> QED BY <1>4, <2>2, <3>2
  <2> QED BY <2>1, <2>2, SameRecursion
<1> HIDE DEF g
<1>9. PowerOfTwo(f, n)
  BY <1>3, <1>4, <1>7, <1>8 DEF PowerOfTwo
<1> QED BY <1>9

(* One doubling below the maximum stays below it, and is exact. *)
LEMMA OneDoubling ==
  ASSUME NEW max \in 1..MaxInt, NEW last \in 0..MaxInt, NEW exact,
         last >= max \/ last = exact
  PROVE  /\ DoublingStep(max, last) \in 0..MaxInt
         /\ \/ DoublingStep(max, last) >= max
            \/ DoublingStep(max, last) = 2 * exact
<1> DEFINE half == max \div 2
<1>1. half \in Nat /\ 2 * half <= max
  OBVIOUS
<1> HIDE DEF half
<1>2. CASE last >= half
  <2>1. DoublingStep(max, last) = max
    BY <1>2 DEF DoublingStep, half
  <2> QED BY <2>1
<1>3. CASE ~(last >= half)
  <2>1. 2 * last \in Width /\ 2 * last \in 0..MaxInt
    BY <1>1, <1>3, InWidth, MaxIntType
  <2>2. DoublingStep(max, last) = 2 * last
    BY <1>3, <2>1, WrappedSame DEF DoublingStep, half
  <2>3. last = exact
    BY <1>1, <1>3
  <2> QED BY <2>1, <2>2, <2>3
<1> QED BY <1>2, <1>3

LEMMA BackoffBounds ==
  ASSUME NEW cfg, cfg.RetryBaseDelay \in 0..MaxInt,
         cfg.RetryMaxDelay \in 1..MaxInt, NEW r \in Nat \ {0}
  PROVE  /\ Backoff(cfg, r) \in 0 .. cfg.RetryMaxDelay
         /\ TwoTo(r - 1) \in Nat
         /\ \/ Backoff(cfg, r) = cfg.RetryMaxDelay
            \/ Backoff(cfg, r) = cfg.RetryBaseDelay * TwoTo(r - 1)
<1> DEFINE n == r - 1
           base == cfg.RetryBaseDelay
           max == cfg.RetryMaxDelay
<1>1. n \in Nat /\ base \in Nat /\ base <= MaxInt /\ max \in 1..MaxInt
  BY MaxIntType
<1>2. PICK f : Doubled(f, cfg, r)
  <2>1. cfg.RetryMaxDelay \in 0..MaxInt
    BY MaxIntType
  <2> QED BY <2>1, DoublingSteps
<1>3. PICK p : PowerOfTwo(p, n)
  BY <1>1, PowerSteps
<1>4. /\ f \in [0..n -> Width] /\ f[0] = base
      /\ \A i \in 1..n : f[i] = DoublingStep(max, f[i - 1])
      /\ Backoff(cfg, r) = Cut(cfg, f[n])
  BY <1>2 DEF Doubled
<1>5. /\ p \in [0..n -> Nat] /\ p[0] = 1
      /\ \A i \in 1..n : p[i] = 2 * p[i - 1]
      /\ TwoTo(n) = p[n]
  BY <1>3 DEF PowerOfTwo
<1> DEFINE S == {i \in 0..n : /\ f[i] \in 0..MaxInt
                              /\ f[i] >= max \/ f[i] = base * p[i]}
<1>6. 0 \in S
  <2> HIDE DEF n, base, max
  <2>1. base * 1 = base /\ 0 \in 0..n /\ base \in 0..MaxInt
    BY <1>1, MaxIntType
  <2> QED BY <1>4, <1>5, <2>1
<1>7. ASSUME NEW i \in 1..n, i - 1 \in S PROVE i \in S
  <2> HIDE DEF n, base, max
  <2>1. i - 1 \in 0..n /\ i \in 0..n
    BY <1>1
  <2>2. p[i - 1] \in Nat /\ p[i] = 2 * p[i - 1]
    BY <1>5, <2>1
  <2>3. /\ f[i - 1] \in 0..MaxInt
        /\ f[i - 1] >= max \/ f[i - 1] = base * p[i - 1]
    BY <1>7
  <2>4. /\ DoublingStep(max, f[i - 1]) \in 0..MaxInt
        /\ \/ DoublingStep(max, f[i - 1]) >= max
           \/ DoublingStep(max, f[i - 1]) = base * (2 * p[i - 1])
    <3> DEFINE last == f[i - 1]
               exact == base * p[i - 1]
    <3>1. max \in 1..MaxInt /\ last \in 0..MaxInt
      BY <1>1, <2>3
    <3>2. last >= max \/ last = exact
      BY <2>3
    <3>3. 2 * exact = base * (2 * p[i - 1])
      BY <1>1, <2>2
    <3> HIDE DEF last, exact
    <3>4. /\ DoublingStep(max, last) \in 0..MaxInt
          /\ DoublingStep(max, last) >= max \/ DoublingStep(max, last) = 2 * exact
      BY <3>1, <3>2, OneDoubling
    <3> QED BY <3>3, <3>4 DEF last
  <2> QED BY <1>4, <2>1, <2>2, <2>4
<1>8. n \in S
  <2> HIDE DEF S, n
  <2>1. 0..n \subseteq S
    BY <1>1, <1>6, <1>7, BoundedInduction
  <2> QED BY <1>1, <2>1
<1>9. /\ f[n] \in 0..MaxInt
      /\ f[n] >= max \/ f[n] = base * p[n]
      /\ p[n] \in Nat
  BY <1>1, <1>5, <1>8
<1>10. Cut(cfg, f[n]) = IF f[n] > max THEN max ELSE f[n]
  BY <1>1 DEF Cut
<1> HIDE DEF n, base, max, S
<1>11. /\ Cut(cfg, f[n]) \in 0..max
       /\ Cut(cfg, f[n]) = max \/ Cut(cfg, f[n]) = base * p[n]
  BY <1>1, <1>9, <1>10, MaxIntType
<1> QED BY <1>4, <1>5, <1>9, <1>11 DEF n, base, max

(* Width bounds the delay also when there is no maximum. *)
LEMMA BackoffType ==
  ASSUME NEW cfg, cfg.RetryBaseDelay \in 0..MaxInt,
         cfg.RetryMaxDelay \in 0..MaxInt, NEW r \in Nat \ {0}
  PROVE  Backoff(cfg, r) \in Width
<1>1. PICK f : Doubled(f, cfg, r)
  BY DoublingSteps
<1>2. f[r - 1] \in Width /\ Backoff(cfg, r) = Cut(cfg, f[r - 1])
  BY <1>1 DEF Doubled
<1>3. cfg.RetryMaxDelay \in Width
  BY MaxIntType, InWidth
<1> QED BY <1>2, <1>3 DEF Cut

LEMMA DelaysType ==
  ASSUME NEW cfg, cfg.RetryBaseDelay \in 0..MaxInt,
         cfg.RetryMaxDelay \in 0..MaxInt, NEW r \in Nat \ {0}
  PROVE  Delays(cfg, r) \subseteq Width
<1> DEFINE delay == Backoff(cfg, r)
<1>1. delay \in Width
  BY BackoffType
<1>2. 0 \in Width /\ cfg.RetryMaxDelay \in Width
  BY MaxIntType, InWidth
<1> HIDE DEF delay
<1>3. ASSUME NEW jitter \in 0 .. (delay \div 2), ~(delay < 2)
      PROVE  Cut(cfg, Wrapped(delay + jitter)) \in Width
  <2>1. jitter \in Nat /\ jitter <= delay
    BY <1>1, <1>3, InWidth
  <2>2. /\ delay + jitter \in Int /\ -2 * MaxInt - 2 <= delay + jitter
        /\ delay + jitter <= 2 * MaxInt + 2
    BY <1>1, <1>3, <2>1, InWidth, MaxIntType
  <2>3. Wrapped(delay + jitter) \in Width
    BY <2>2, WrappedType
  <2> QED BY <1>2, <2>3 DEF Cut
<1>4. Delays(cfg, r) =
        IF cfg.RetryBaseDelay <= 0 THEN {0}
        ELSE IF delay < 2 THEN {delay}
        ELSE {Cut(cfg, Wrapped(delay + jitter)) : jitter \in 0 .. (delay \div 2)}
  BY DEF Delays, delay
<1> QED BY <1>1, <1>2, <1>3, <1>4

LEMMA DelaysBounds ==
  ASSUME NEW cfg, cfg.RetryBaseDelay \in 0..MaxInt,
         cfg.RetryMaxDelay \in 1 .. 2 * (MaxInt \div 3), NEW r \in Nat \ {0},
         NEW d \in Delays(cfg, r)
  PROVE  /\ d <= cfg.RetryMaxDelay
         /\ d >= Min({cfg.RetryMaxDelay, cfg.RetryBaseDelay * TwoTo(r - 1)})
<1> DEFINE delay == Backoff(cfg, r)
           base == cfg.RetryBaseDelay
           max == cfg.RetryMaxDelay
           power == TwoTo(r - 1)
           third == MaxInt \div 3
           half == delay \div 2
<1>1. third \in Nat /\ 3 * third <= MaxInt
  BY MaxIntType
<1>2. max \in 1..MaxInt /\ max <= 2 * third /\ base \in 0..MaxInt
  <2>1. max \in 1 .. 2 * third
    OBVIOUS
  <2> HIDE DEF third, max
  <2> QED BY <1>1, <2>1, MaxIntType
<1>3. /\ delay \in 0..max /\ power \in Nat
      /\ delay = max \/ delay = base * power
  BY <1>2, BackoffBounds
<1>4. Delays(cfg, r) =
        IF base <= 0 THEN {0}
        ELSE IF delay < 2 THEN {delay}
        ELSE {Cut(cfg, Wrapped(delay + jitter)) : jitter \in 0..half}
  BY DEF Delays
<1> HIDE DEF delay
<1>5. half \in Nat /\ 2 * half <= delay
  BY <1>3
<1> HIDE DEF third, power, half
<1>6. d <= max /\ (d >= max \/ d >= base * power)
  <2>1. CASE base <= 0
    <3>1. base = 0 /\ d = 0
      BY <1>2, <1>4, <2>1
    <3>2. base * power = 0
      BY <1>3, <3>1
    <3> QED BY <1>2, <3>1, <3>2
  <2>2. CASE ~(base <= 0) /\ delay < 2
    BY <1>2, <1>3, <1>4, <2>2
  <2>3. CASE ~(base <= 0) /\ ~(delay < 2)
    <3>1. PICK jitter \in 0..half : d = Cut(cfg, Wrapped(delay + jitter))
      BY <1>4, <2>3
    <3> HIDE DEF base, max
    <3>2. delay + jitter \in Nat /\ delay + jitter <= MaxInt
      <4>1. delay \in Nat /\ delay <= max
        BY <1>2, <1>3
      <4>2. jitter \in Nat /\ 2 * jitter <= delay
        BY <1>5, <4>1
      <4>3. max \in Nat /\ max <= 2 * third
        BY <1>2
      <4> QED BY <1>1, <4>1, <4>2, <4>3, MaxIntType
    <3>3. Wrapped(delay + jitter) = delay + jitter
      BY <3>2, MaxIntType, InWidth, WrappedSame
    <3>4. d = IF delay + jitter > max THEN max ELSE delay + jitter
      BY <1>2, <3>1, <3>3 DEF Cut, max
    <3> QED BY <1>2, <1>3, <1>5, <3>2, <3>4
  <2> QED BY <2>1, <2>2, <2>3
<1> DEFINE least == Min({max, base * power})
<1>7. least <= max /\ least <= base * power /\ least \in Int
  <2>1. {max, base * power} \subseteq Nat
    BY <1>2, <1>3
  <2> HIDE DEF base, max
  <2>2. least \in {max, base * power} /\ least <= max /\ least <= base * power
    BY <2>1, MinIsLeast
  <2> QED BY <2>1, <2>2
<1>8. d \in Int
  <2>1. d \in Width
    BY <1>2, DelaysType, MaxIntType
  <2> QED BY <2>1, InWidth
<1> HIDE DEF least
<1>9. d >= least
  <2>1. max \in Int /\ base * power \in Int
    BY <1>2, <1>3
  <2> QED BY <1>6, <1>7, <1>8, <2>1
<1> QED BY <1>6, <1>9 DEF least, power

-----------------------------------------------------------------------------
(* The inductive invariant: the configuration is what ResolveConfig returned
   for this supply, and a pause is one that its policy gave. *)

ConfigIsResolved ==
  /\ supply \in Supplies
  /\ config \subseteq ResolveConfig(supply)
  /\ phase \in {"validating", "paused", "open"} => config # {}

PauseIsDelay ==
  \A cfg \in config, delay \in pause :
    /\ attempt - 1 \in 1 .. cfg.MaxRetries
    /\ delay \in Delays(cfg, attempt - 1)

PhaseType ==
  /\ phase \in {"new", "validating", "paused", "open", "refused"}
  /\ attempt \in Nat /\ accepted \in BOOLEAN /\ closed \in BOOLEAN
  /\ phase = "new" => pause = {}
  /\ phase \in {"validating", "paused"} => attempt >= 1
  /\ config = {} => pause = {}

IInv ==
  PhaseType /\ ConfigIsResolved /\ PauseIsDelay /\ ValidatedMeansAccepted

(* One more attempt than retries, and none if that wraps around. *)
LEMMA AttemptsFacts ==
  ASSUME NEW cfg, cfg.MaxRetries \in 0..MaxInt
  PROVE  /\ Attempts(cfg) \in Int
         /\ Attempts(cfg) <= cfg.MaxRetries + 1
         /\ cfg.MaxRetries < MaxInt => Attempts(cfg) = cfg.MaxRetries + 1
<1> DEFINE n == cfg.MaxRetries + 1
<1>1. n \in Nat /\ n <= MaxInt + 1
  BY MaxIntType
<1>2. Attempts(cfg) = Wrapped(n)
  BY DEF Attempts
<1>3. n <= MaxInt => n \in Width
  BY <1>1, MaxIntType, InWidth
<1>4. n <= MaxInt => Wrapped(n) = n
  BY <1>3, WrappedSame
<1>5. n > MaxInt => Wrapped(n) = n - (2 * MaxInt + 2)
  BY MaxIntType DEF Wrapped
<1>6. cfg.MaxRetries < MaxInt => n <= MaxInt
  BY MaxIntType
<1> QED BY <1>1, <1>2, <1>4, <1>5, <1>6, MaxIntType

LEMMA InitInductive == Init => IInv
<1> SUFFICES ASSUME Init PROVE IInv
  OBVIOUS
<1> USE DEF Init
<1>1. PhaseType
  BY DEF PhaseType
<1>2. ConfigIsResolved
  BY DEF ConfigIsResolved
<1>3. PauseIsDelay
  BY DEF PauseIsDelay
<1>4. ValidatedMeansAccepted
  BY DEF ValidatedMeansAccepted
<1> QED BY <1>1, <1>2, <1>3, <1>4 DEF IInv

LEMMA ResolveInductive ==
  ASSUME IInv, Resolve
  PROVE  IInv'
<1> USE DEF IInv, Resolve
<1> DEFINE resolved == ResolveConfig(supply)
           requests == \E cfg \in resolved :
                         cfg.ValidateCredentials /\ Attempts(cfg) >= 1
<1>1. /\ config' = resolved /\ supply' = supply /\ pause' = pause
      /\ attempt' = 1 /\ accepted' = accepted /\ closed' = closed
      /\ pause = {} /\ supply \in Supplies
      /\ accepted \in BOOLEAN /\ closed \in BOOLEAN
  BY DEF PhaseType, ConfigIsResolved
<1>2. phase' = CASE resolved = {} -> "refused"
                 [] requests -> "validating"
                 [] OTHER -> "open"
  OBVIOUS
<1>3. ASSUME NEW cfg \in resolved, cfg.ValidateCredentials,
             cfg.MaxRetries < MaxInt
      PROVE  requests
  <2>1. cfg.MaxRetries \in 0..MaxInt
    BY <1>1, ResolvedNumbers DEF Numbers
  <2>2. Attempts(cfg) >= 1
    BY <1>3, <2>1, AttemptsFacts
  <2> QED BY <1>3, <2>2
<1> HIDE DEF IInv, Resolve
<1>4. requests => resolved # {}
  OBVIOUS
<1>5. ConfigIsResolved'
  <2> HIDE DEF requests
  <2>1. (config \subseteq ResolveConfig(supply))'
    BY <1>1, Zenon
  <2>2. phase' \in {"validating", "paused", "open"} => resolved # {}
    BY <1>2, <1>4
  <2> QED BY <1>1, <2>1, <2>2 DEF ConfigIsResolved
<1> HIDE DEF resolved, requests
<1>6. phase' \in {"refused", "validating", "open"}
  BY <1>2
<1>7. PhaseType'
  BY <1>1, <1>6 DEF PhaseType
<1>8. PauseIsDelay'
  BY <1>1 DEF PauseIsDelay
<1>9. ValidatedMeansAccepted'
  <2>1. phase' = "open" => ~requests
    BY <1>2, <1>4
  <2> QED BY <1>1, <1>3, <2>1 DEF ValidatedMeansAccepted
<1> QED BY <1>5, <1>7, <1>8, <1>9 DEF IInv

LEMMA RetriedInductive ==
  ASSUME IInv, Retried
  PROVE  IInv'
<1> USE DEF IInv, Retried
<1>1. PICK delay \in Delays(Cfg, attempt) :
        /\ phase' = IF delay > 0 THEN "paused" ELSE "validating"
        /\ pause' = {delay}
  OBVIOUS
<1>2. /\ phase = "validating" /\ attempt < Attempts(Cfg)
      /\ attempt' = attempt + 1 /\ supply' = supply /\ config' = config
      /\ accepted' = accepted /\ closed' = closed
      /\ attempt \in Nat /\ attempt >= 1
      /\ accepted \in BOOLEAN /\ closed \in BOOLEAN
      /\ supply \in Supplies /\ config \subseteq ResolveConfig(supply)
      /\ config # {}
  BY DEF PhaseType, ConfigIsResolved
<1> HIDE DEF IInv, Retried
<1>3. Cfg \in config /\ \A cfg \in config : cfg = Cfg
  <2>1. Cfg \in config
    BY <1>2, ValueIn DEF Cfg
  <2> QED BY <1>2, <2>1, ResolvedOnce
<1>4. attempt <= Cfg.MaxRetries /\ Cfg.MaxRetries \in 0..MaxInt
  <2>1. Cfg.MaxRetries \in 0..MaxInt
    BY <1>2, <1>3, ResolvedNumbers DEF Numbers
  <2> HIDE DEF Cfg
  <2> QED BY <1>2, <2>1, AttemptsFacts, MaxIntType
<1>5. PauseIsDelay'
  <2>1. attempt' - 1 = attempt /\ attempt \in 1 .. Cfg.MaxRetries
    BY <1>2, <1>4
  <2>2. \A cfg \in config, d \in pause' :
          /\ attempt' - 1 \in 1 .. cfg.MaxRetries
          /\ d \in Delays(cfg, attempt' - 1)
    BY <1>1, <1>3, <2>1
  <2> QED BY <1>2, <2>2 DEF PauseIsDelay
<1>6. phase' \in {"paused", "validating"}
  BY <1>1
<1>7. ConfigIsResolved'
  BY <1>2 DEF ConfigIsResolved
<1>8. PhaseType'
  BY <1>2, <1>6 DEF PhaseType
<1>9. ValidatedMeansAccepted'
  BY <1>6 DEF ValidatedMeansAccepted
<1> QED BY <1>5, <1>7, <1>8, <1>9 DEF IInv

LEMMA NextInductive == IInv /\ [Next]_vars => IInv'
<1> SUFFICES ASSUME IInv, [Next]_vars PROVE IInv'
  OBVIOUS
<1> USE DEF IInv, PhaseType, ConfigIsResolved, PauseIsDelay,
            ValidatedMeansAccepted
<1>1. CASE Resolve
  <2> HIDE DEF IInv
  <2> QED BY <1>1, ResolveInductive
<1>2. CASE Accepted
  BY <1>2 DEF Accepted
<1>3. CASE Rejected
  BY <1>3 DEF Rejected, Refuse
<1>4. CASE Retried
  <2> HIDE DEF IInv
  <2> QED BY <1>4, RetriedInductive
<1>5. CASE Resume
  BY <1>5 DEF Resume
<1>6. CASE TimedOut
  BY <1>6 DEF TimedOut, Refuse
<1>7. CASE UNCHANGED vars
  BY <1>7 DEF vars
<1> QED BY <1>1, <1>2, <1>3, <1>4, <1>5, <1>6, <1>7 DEF Next

LEMMA Inductive == Spec => []IInv
BY InitInductive, NextInductive, PTL DEF Spec

-----------------------------------------------------------------------------
(* The theorems *)

(* Whatever the program and the environment give, an exporter that New lets
   exist has limits of their kind, sends in the clear to the local host only,
   and sends elsewhere only with a key (validateResolvedConfig and
   normalizeEndpoint). *)
THEOREM TypeCorrect == Spec => []TypeOK
<1>1. ASSUME IInv PROVE TypeOK
  <2> USE <1>1 DEF IInv
  <2>1. pause \subseteq Width
    <3> SUFFICES ASSUME NEW delay \in pause PROVE delay \in Width
      OBVIOUS
    <3>1. PICK cfg \in config : TRUE
      BY DEF PhaseType
    <3>2. attempt - 1 \in Nat \ {0} /\ delay \in Delays(cfg, attempt - 1)
      BY DEF PauseIsDelay, PhaseType
    <3>3. cfg.RetryBaseDelay \in 0..MaxInt /\ cfg.RetryMaxDelay \in 0..MaxInt
      BY ResolvedNumbers DEF ConfigIsResolved, Numbers
    <3> QED BY <3>2, <3>3, DelaysType
  <2>2. ASSUME NEW cfg \in config
        PROVE  /\ \A field \in Positive : cfg[field] \in 1..MaxInt
               /\ \A field \in Numbers \ Positive : cfg[field] \in 0..MaxInt
               /\ \A flag \in Flags : cfg[flag] \in BOOLEAN
               /\ "" \notin {cfg.MLApp, cfg.Service, cfg.Endpoint.path}
               /\ cfg.Endpoint.host # "localhost" =>
                    cfg.APIKey # "" /\ cfg.Endpoint.scheme = "https"
    <3>1. supply \in Supplies /\ cfg \in ResolveConfig(supply)
      BY DEF ConfigIsResolved
    <3>2. /\ Valid(cfg)
          /\ \A flag \in Flags : cfg[flag] = FlagOf(supply, flag)
          /\ cfg.Service = FirstValue(<<supply.given.Service,
                                        supply.env.Service, "eino-obs">>)
          /\ cfg.Endpoint \in
               Endpoint(SiteText(supply), EndpointText(supply))
      BY <3>1, ResolvedFields
    <3>3. cfg.MLApp # "" /\ (cfg.APIKey = "" => cfg.Endpoint.host = "localhost")
      BY <3>2 DEF Valid
    <3>4. cfg.Service # ""
      <4> DEFINE texts == <<supply.given.Service, supply.env.Service, "eino-obs">>
      <4>1. DOMAIN texts = {1, 2, 3} /\ texts[3] = "eino-obs"
        OBVIOUS
      <4> HIDE DEF texts
      <4>2. Trimmed(texts[3]) # ""
        BY <4>1 DEF Trimmed
      <4>3. DOMAIN texts \subseteq Nat /\ 3 \in DOMAIN texts
        BY <4>1
      <4>4. FirstValue(texts) # ""
        BY <4>2, <4>3, FirstValueFilled
      <4> QED BY <3>2, <4>4 DEF texts
    <3>5. cfg.Endpoint.path # "" /\
          (cfg.Endpoint.host # "localhost" => cfg.Endpoint.scheme = "https")
      BY <3>1, <3>2, EndpointFacts
    <3>6. \A flag \in Flags : cfg[flag] \in BOOLEAN
      BY <3>1, <3>2, FlagType
    <3>7. /\ \A field \in Positive : cfg[field] \in 1..MaxInt
          /\ \A field \in Numbers \ Positive : cfg[field] \in 0..MaxInt
      BY <3>1, ResolvedNumbers
    <3> QED BY <3>3, <3>4, <3>5, <3>6, <3>7
  <2>3. /\ phase \in {"new", "validating", "paused", "open", "refused"}
        /\ attempt \in Nat /\ accepted \in BOOLEAN /\ closed \in BOOLEAN
        /\ phase \in {"validating", "paused", "open"} => config # {}
    BY DEF PhaseType, ConfigIsResolved
  <2> QED BY <2>1, <2>2, <2>3 DEF TypeOK
<1> QED BY <1>1, Inductive, PTL

First(values, given) ==
  DOMAIN values \subseteq Nat \ {0} /\ 1 \in DOMAIN values /\ values[1] = given

(* Two supplies that agree on what the program gives resolve alike in every
   setting that it gives. *)
LEMMA SameWhereGiven ==
  ASSUME NEW s, NEW t, t.given = s.given,
         NEW cfg \in ResolveConfig(s), NEW other \in ResolveConfig(t)
  PROVE  /\ \A field \in Numbers :
              \/ s.given.overrides[field] \cup
                   ({s.given.numbers[field]} \ {0}) = {}
              \/ cfg[field] = other[field]
         /\ \A flag \in Flags :
              s.given.overrides[flag] # {} => cfg[flag] = other[flag]
         /\ \A text \in {"APIKey", "MLApp", "Service"} :
              Trimmed(s.given[text]) # "" => cfg[text] = other[text]
         /\ Trimmed(s.given.Endpoint) # "" => cfg.Endpoint = other.Endpoint
<1>1. ASSUME NEW field \in Numbers,
             s.given.overrides[field] \cup ({s.given.numbers[field]} \ {0}) # {}
      PROVE  cfg[field] = other[field]
  <2>1. cfg[field] = Number(s, field) /\ other[field] = Number(t, field)
    BY ResolvedFields
  <2>2. CASE s.given.overrides[field] # {}
    BY <2>1, <2>2 DEF Number
  <2>3. CASE s.given.overrides[field] = {}
    <3>1. s.given.numbers[field] # 0
      BY <1>1, <2>3
    <3> QED BY <2>1, <2>3, <3>1 DEF Number
  <2> QED BY <2>2, <2>3
<1>2. ASSUME NEW flag \in Flags, s.given.overrides[flag] # {}
      PROVE  cfg[flag] = other[flag]
  <2>1. cfg[flag] = FlagOf(s, flag) /\ other[flag] = FlagOf(t, flag)
    BY ResolvedFields
  <2>2. t.given.overrides[flag] = s.given.overrides[flag]
    OBVIOUS
  <2> QED BY <1>2, <2>1, <2>2, FlagOverride
<1>3. ASSUME NEW given, NEW a, NEW b, First(a, given), First(b, given),
             Trimmed(given) # ""
      PROVE  FirstValue(a) = FirstValue(b) /\ FirstValue(a) # ""
  <2>1. FirstValue(a) = Trimmed(given)
    BY <1>3, FirstValueFirst DEF First
  <2>2. FirstValue(b) = Trimmed(given)
    BY <1>3, FirstValueFirst DEF First
  <2> QED BY <1>3, <2>1, <2>2
<1>4. Trimmed(s.given.APIKey) # "" => cfg.APIKey = other.APIKey
  <2> DEFINE a == <<s.given.APIKey, s.env.APIKey>>
             b == <<t.given.APIKey, t.env.APIKey>>
  <2>1. First(a, s.given.APIKey)
    BY DEF First
  <2>2. First(b, s.given.APIKey)
    BY DEF First
  <2>3. cfg.APIKey = FirstValue(a) /\ other.APIKey = FirstValue(b)
    BY ResolvedFields
  <2> HIDE DEF a, b
  <2> QED BY <1>3, <2>1, <2>2, <2>3
<1>5. Trimmed(s.given.MLApp) # "" => cfg.MLApp = other.MLApp
  <2> DEFINE a == <<s.given.MLApp, s.env.LLMObsMLApp, s.env.EinoMLApp,
                    s.given.Service, s.env.Service, "eino-obs">>
             b == <<t.given.MLApp, t.env.LLMObsMLApp, t.env.EinoMLApp,
                    t.given.Service, t.env.Service, "eino-obs">>
  <2>1. First(a, s.given.MLApp)
    BY DEF First
  <2>2. First(b, s.given.MLApp)
    BY DEF First
  <2>3. cfg.MLApp = FirstValue(a) /\ other.MLApp = FirstValue(b)
    BY ResolvedFields
  <2> HIDE DEF a, b
  <2> QED BY <1>3, <2>1, <2>2, <2>3
<1>6. Trimmed(s.given.Service) # "" => cfg.Service = other.Service
  <2> DEFINE a == <<s.given.Service, s.env.Service, "eino-obs">>
             b == <<t.given.Service, t.env.Service, "eino-obs">>
  <2>1. First(a, s.given.Service)
    BY DEF First
  <2>2. First(b, s.given.Service)
    BY DEF First
  <2>3. cfg.Service = FirstValue(a) /\ other.Service = FirstValue(b)
    BY ResolvedFields
  <2> HIDE DEF a, b
  <2> QED BY <1>3, <2>1, <2>2, <2>3
<1>7. Trimmed(s.given.Endpoint) # "" => cfg.Endpoint = other.Endpoint
  <2> DEFINE a == <<s.given.Endpoint, s.env.Endpoint>>
             b == <<t.given.Endpoint, t.env.Endpoint>>
             text == EndpointText(s)
  <2>1. First(a, s.given.Endpoint)
    BY DEF First
  <2>2. First(b, s.given.Endpoint)
    BY DEF First
  <2>3. text = FirstValue(a) /\ EndpointText(t) = FirstValue(b)
    BY DEF EndpointText
  <2> HIDE DEF a, b, text
  <2> SUFFICES ASSUME Trimmed(s.given.Endpoint) # ""
               PROVE  cfg.Endpoint = other.Endpoint
    OBVIOUS
  <2>4. text = EndpointText(t) /\ text # ""
    BY <1>3, <2>1, <2>2, <2>3
  <2>5. /\ cfg.Endpoint \in Endpoint(SiteText(s), text)
        /\ other.Endpoint \in Endpoint(SiteText(t), text)
    BY <2>4, ResolvedFields DEF text
  <2> QED BY <2>4, <2>5 DEF Endpoint
<1> QED BY <1>1, <1>2, <1>4, <1>5, <1>6, <1>7

(* What the program sets itself has the same value in every environment in
   which the exporter exists (ResolveConfig's order of the sources). *)
THEOREM ExplicitStays == Spec => []ExplicitIsStable
<1>1. ASSUME IInv PROVE ExplicitIsStable
  <2> SUFFICES ASSUME NEW s \in Supplies, s.given = supply.given,
                      NEW cfg \in config, NEW other \in ResolveConfig(s)
               PROVE
        /\ \A field \in Numbers :
             \/ supply.given.overrides[field] \cup
                  ({supply.given.numbers[field]} \ {0}) = {}
             \/ cfg[field] = other[field]
        /\ \A flag \in Flags :
             supply.given.overrides[flag] # {} => cfg[flag] = other[flag]
        /\ \A text \in {"APIKey", "MLApp", "Service"} :
             Trimmed(supply.given[text]) # "" => cfg[text] = other[text]
        /\ Trimmed(supply.given.Endpoint) # "" => cfg.Endpoint = other.Endpoint
    BY DEF ExplicitIsStable
  <2>1. cfg \in ResolveConfig(supply)
    BY <1>1 DEF IInv, ConfigIsResolved
  <2> QED BY <2>1, SameWhereGiven
<1> QED BY <1>1, Inductive, PTL

(* A pause between two validation requests is at least base * 2^i and at most
   the maximum, and there are no more of them than retries (retryDelay and the
   loop of Flush that New runs). *)
THEOREM DelaysStayWithinCap == Spec => []DelaysWithinCap
<1>1. ASSUME IInv PROVE DelaysWithinCap
  <2> SUFFICES ASSUME NEW cfg \in config, NEW delay \in pause
               PROVE
        /\ attempt - 1 <= cfg.MaxRetries
        /\ cfg.RetryMaxDelay \in 1 .. 2 * (MaxInt \div 3) =>
             /\ delay <= cfg.RetryMaxDelay
             /\ delay >= Min({cfg.RetryMaxDelay,
                              cfg.RetryBaseDelay * TwoTo(attempt - 2)})
    BY DEF DelaysWithinCap
  <2> DEFINE r == attempt - 1
  <2>1. /\ r \in 1 .. cfg.MaxRetries /\ delay \in Delays(cfg, r)
        /\ attempt \in Nat /\ cfg \in ResolveConfig(supply)
        /\ supply \in Supplies
    BY <1>1 DEF IInv, PauseIsDelay, PhaseType, ConfigIsResolved
  <2>2. /\ cfg.RetryBaseDelay \in 0..MaxInt
        /\ cfg.MaxRetries \in 0..MaxInt
    BY <2>1, ResolvedNumbers DEF Numbers
  <2>3. r \in Nat \ {0} /\ r <= cfg.MaxRetries /\ r - 1 = attempt - 2
    BY <2>1, <2>2
  <2>4. cfg.RetryMaxDelay \in 1 .. 2 * (MaxInt \div 3) =>
          /\ delay <= cfg.RetryMaxDelay
          /\ delay >= Min({cfg.RetryMaxDelay,
                           cfg.RetryBaseDelay * TwoTo(r - 1)})
    <3> HIDE DEF r
    <3> QED BY <2>1, <2>2, <2>3, DelaysBounds
  <2> QED BY <2>3, <2>4
<1> QED BY <1>1, Inductive, PTL

(* Where the credentials are to be validated, New returns an exporter only
   after a request that the intake accepted. *)
THEOREM ValidatedIsAccepted == Spec => []ValidatedMeansAccepted
<1>1. IInv => ValidatedMeansAccepted
  BY DEF IInv
<1> QED BY <1>1, Inductive, PTL
=============================================================================
