----------------------- MODULE MCObservationPipeline -----------------------
(***************************************************************************)
(* Constants for model checking ObservationPipeline.                       *)
(***************************************************************************)
EXTENDS ObservationPipeline

Lexical == <<"alpha", "beta", "encrypted_reasoning", "gamma", "token", "upsilon", "zeta">>

N(canonical, spelling, padded, bytes) ==
  [canonical |-> canonical, spelling |-> spelling, padded |-> padded, bytes |-> bytes]

alpha     == N("alpha", 1, FALSE, 1)
beta      == N("beta", 1, FALSE, 1)
betaUpper == N("beta", 2, FALSE, 1)
betaSpace == N("beta", 1, TRUE, 1)
gamma     == N("gamma", 1, FALSE, 2)
token     == N("token", 1, FALSE, 2)
encrypted == N("encrypted_reasoning", 1, FALSE, 2)
upsilon   == N("upsilon", 1, FALSE, 1)
zeta      == N("zeta", 1, FALSE, 3)   \* longer than MaxNameBytes

Entry(name, runes) == [name |-> name, runes |-> runes]

(* Sensitive entries before and among as many others as MaxMapEntries; two *)
(* spellings of one name; a name with and without white space.             *)
FieldMaps ==
  {{},
   {Entry(encrypted, <<1>>), Entry(gamma, <<1, 2, 1>>), Entry(token, <<1>>), Entry(upsilon, <<2>>)},
   {Entry(alpha, <<1>>), Entry(beta, <<2, 1>>), Entry(betaUpper, <<3>>), Entry(gamma, <<1>>)},
   {Entry(beta, <<1>>), Entry(betaSpace, <<2, 2>>), Entry(gamma, <<2>>)}}

AllSummaries == [name : {NoName, alpha, token, encrypted, zeta},
            runes : {<<>>, <<1, 2, 1>>, <<2, 2>>}, fields : FieldMaps]

Named1  == [name |-> alpha, runes |-> <<1, 1, 1, 1>>,
            fields |-> {Entry(beta, <<4>>), Entry(token, <<1>>), Entry(zeta, <<1>>)}]
Secret  == [name |-> token, runes |-> <<1>>, fields |-> {Entry(beta, <<1>>)}]

Metadata == {{Entry(alpha, <<1, 1, 2>>), Entry(token, <<1>>), Entry(zeta, <<1>>)}}
Late     == {{}, {Entry(alpha, <<3>>), Entry(encrypted, <<1>>), Entry(gamma, <<>>)}}

NotEncrypted == [present |-> TRUE, operation |-> "tool_call", cause |-> TRUE]
Encrypted    == [present |-> TRUE, operation |-> "encrypted_reasoning", cause |-> TRUE]

S(handle, input, output, chunk, metadata, late, own, error) ==
  [handle |-> handle, input |-> input, output |-> output, chunk |-> chunk,
   metadata |-> metadata, late |-> late, own |-> own, error |-> error]

Tools ==
  {S("tool", i, o, NoSummary, {Entry(beta, <<2, 2>>)}, {}, NoAttributes, NotEncrypted) :
     i \in {NoSummary, Named1}, o \in AllSummaries}
Models ==
  {S("model", i, Named1, NoSummary, m, l, NoAttributes, NoError) :
     i \in {NoSummary, Secret}, m \in Metadata, l \in Late}
Stream ==
  {S("stream", Named1, Secret, c, {}, l, NoAttributes, NoError) :
     c \in {s \in AllSummaries : s.name # zeta}, l \in Late}
Compactions ==
  {S("compaction", i, NoSummary, NoSummary, m, {}, NoAttributes, NoError) :
     i \in AllSummaries, m \in Metadata}

(* Keys of each kind, also such as the helpers never make. *)
OwnKeys ==
  {Plain(<<"prompt">>), Plain(<<"prompt", "text">>), Plain(<<"encrypted_reasoning">>),
   Plain(<<"tool", "output", "payload">>), Plain(<<"tool", "input", "summary">>),
   Plain(<<"tool", "input", "summary", "name">>), Plain(<<"genai", "model">>),
   Plain(<<"stream", "chunk", "summary">>)}
  \cup {Named(<<"tool", "output", "summary", "fields">>, n) : n \in {alpha, token, zeta}}
  \cup {Named(<<"custom", "summary", "fields">>, token)}
  \cup {Named(<<"metadata">>, n) : n \in {alpha, encrypted, zeta}}

OwnTogether == {[k \in OwnKeys |-> v] : v \in {Text(<<1, 2>>), Other}}
Own ==
  {S("own", NoSummary, NoSummary, NoSummary, {}, {}, a, e) :
     a \in {k :> v : k \in OwnKeys, v \in {Text(<<1, 2>>), Other}} \cup OwnTogether,
     e \in {NoError, Encrypted}}

AllSupplies == Tools \cup Models \cup Stream \cup Compactions \cup Own
OneTool     == {S("tool", Named1, Named1, NoSummary, {}, {}, NoAttributes, NoError)}

HelperOptions   == [input : BOOLEAN, output : BOOLEAN, max : {0, 2}]
SinkOptions     == [input : BOOLEAN, output : BOOLEAN, max : {-1, 0, 1}]
=============================================================================
