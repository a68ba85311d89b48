----------------------------- MODULE MCSpanTree -----------------------------
(***************************************************************************)
(* Constants for model checking SpanTree.                                  *)
(***************************************************************************)
EXTENDS SpanTree, TLC

With(id, parent, texts) ==
  Over(texts, [NoCorrelation EXCEPT !.id = id, !.parent = parent])

(* The first names an observation and a model, the second a child of another
   observation in an agent's run, with a tool call. *)
SomeCorrelations ==
  {NoCorrelation,
   With(<<"a">>, NoID,
        "trace" :> "t" @@ "correlation.session_id" :> "s" @@
        "provider" :> "p" @@ "model" :> "m" @@ "correlation.thread_id" :> "h"),
   With(<<"b">>, <<"a">>,
        "correlation.run_id" :> "r" @@ "correlation.agent_id" :> "g" @@
        "correlation.tool_call_id" :> "k" @@
        "correlation.assistant_message_id" :> "w")}

OneCorrelation ==
  {NoCorrelation,
   With(<<"a">>, NoID, "trace" :> "t" @@ "correlation.session_id" :> "s")}

SomeIDs   == {"", "k2"}
SomeAGUI  == {<<"", "">>, <<"h2", "u">>}
NoAGUI    == {<<"", "">>}
SomeUsage == {<<>>, "genai.usage.input_tokens" :> 2 @@
                      "genai.usage.reasoning_tokens" :> 0}
NoUsage   == {<<>>}
SomeClasses == {"", "timeout"}
SomeLatencies == {-1, 0, 2}
NoLatencies == {0}

Given(operation, class, cause, retryable, dropped) ==
  [operation |-> operation, classification |-> class, cause |-> cause,
   retryable |-> retryable, dropped |-> dropped]

(* None, one that says only that data was lost, one of another operation. *)
SomeSettledErrors ==
  {Given("", "", FALSE, FALSE, FALSE), Given("", "", FALSE, TRUE, TRUE),
   Given("shell", "", TRUE, TRUE, TRUE)}

SomeCauses ==
  {[observation |-> FALSE],
   [observation |-> TRUE, operation |-> "flush", classification |-> "",
    retryable |-> TRUE, dropped |-> FALSE]}

NoSettledErrors == {Given("", "", FALSE, FALSE, FALSE)}
NoCauses == {[observation |-> FALSE]}
=============================================================================
