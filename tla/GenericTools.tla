---------------------------- MODULE GenericTools ----------------------------
(***************************************************************************)
(* The tools of the generic example (examples/generic/tool_handlers.py).   *)
(* A handler validates its arguments, asks the providers it has a key for  *)
(* one after the other, and falls back to static data.  It tells the LLM   *)
(* through result_callback; a handler that raises tells it nothing.        *)
(***************************************************************************)
EXTENDS Integers, Sequences, SequencesExt

CONSTANTS Numbers   \* what the LLM may ask a random number between

Nothing == "none"
NotGiven == -1000000  \* an argument the LLM left out, no number it asks for
Tools == {"convert_currency", "calculate_bmi", "get_current_date_time", "get_stock_price",
          "generate_random_number", "get_weather", "get_news_headlines"}
\* What a provider makes of a request: the HTTP client raises, the status is not
\* 200, the body is not JSON, not an object, lacks the value, or has it.
Replies == {"raised", "refused", "not_json", "not_object", "lacking", "value"}

VARIABLES call, at, todo, results

vars == <<call, at, todo, results>>

-----------------------------------------------------------------------------
(* Arguments, as far as the handlers tell them apart.                      *)

Amounts    == {Nothing, "text", "number"}
Codes      == {Nothing, "known", "unknown"}
Queries    == {Nothing, "known", "unknown"}
Sizes      == {Nothing, "text", "small", "large", "not_positive"}
Zones      == {Nothing, "iana", "unknown"}

Calls ==
    [tool : {"convert_currency"}, amount : Amounts, from : Codes, to : Codes]
    \cup [tool : {"calculate_bmi"}, weight : Sizes, height : Sizes]
    \cup [tool : {"get_current_date_time"}, zone : Zones]
    \cup [tool : {"get_stock_price"}, company : Queries, key : BOOLEAN]
    \cup [tool : {"generate_random_number"}, min : Numbers \cup {NotGiven}, max : Numbers \cup {NotGiven}]
    \cup [tool : {"get_weather"}, city : Queries, key : BOOLEAN]
    \cup [tool : {"get_news_headlines"}]

Init == /\ call \in Calls
        /\ at = "called" /\ todo = <<>> /\ results = <<>>

-----------------------------------------------------------------------------
Result(source, value) == [source |-> source, value |-> value]
Refusal == Result("error", Nothing)

\* The arguments a handler sends away before it asks anyone.
Refused(c) ==
    CASE c.tool = "convert_currency" -> c.amount # "number" \/ c.from = Nothing \/ c.to = Nothing
      [] c.tool = "calculate_bmi" -> {c.weight, c.height} \cap {Nothing, "text", "not_positive"} # {}
      [] c.tool = "get_current_date_time" -> c.zone = "unknown"
      [] c.tool = "get_stock_price" -> c.company # "known"  \* of _COMPANY_SYMBOLS
      [] c.tool = "get_weather" -> c.city = Nothing
      [] OTHER -> FALSE

\* The providers that are asked, in order.
Providers(c) ==
    CASE c.tool = "convert_currency" -> <<"frankfurter">>
      [] c.tool = "get_stock_price" -> IF c.key THEN <<"finnhub", "yahoo">> ELSE <<"yahoo">>
      [] c.tool = "get_weather" /\ c.key -> <<"weatherapi">>
      [] OTHER -> <<>>

\* The static tables: rates of _STATIC_RATES, the price of the company found,
\* and the weather of a known city or the default.
Fallback(c) ==
    IF c.tool = "convert_currency" /\ "unknown" \in {c.from, c.to} THEN Refusal
    ELSE Result("static", c.tool)

\* calculate_bmi, on the four corners of its ranges.
Category(c) == CASE c.weight = "large" /\ c.height = "small" -> "Obese"
                 [] c.weight = "large" -> "Overweight"
                 [] c.height = "small" -> "Normal weight"
                 [] OTHER -> "Underweight"

\* int(args.get(name, default) or default): zero counts as not given.
Bound(arg, default) == IF arg \in {NotGiven, 0} THEN default ELSE arg

Answers(c) ==
    CASE c.tool = "calculate_bmi" -> {Result("computed", Category(c))}
      [] c.tool = "generate_random_number" ->
           LET low  == Bound(c.min, 1)
               high == Bound(c.max, 100)
           IN IF low > high THEN {Refusal} ELSE {Result("drawn", n) : n \in low..high}
      [] c.tool \in {"get_current_date_time", "get_news_headlines"} -> {Result("computed", c.tool)}
      [] OTHER -> {Fallback(c)}

Tell(r) == results' = Append(results, r) /\ at' = "over" /\ UNCHANGED <<call, todo>>

\* The handler starts: it refuses, asks its first provider, or answers itself.
Handle ==
    /\ at = "called"
    /\ IF Refused(call) THEN Tell(Refusal)
       ELSE IF Providers(call) # <<>>
       THEN at' = "asking" /\ todo' = Providers(call) /\ UNCHANGED <<call, results>>
       ELSE \E r \in Answers(call) : Tell(r)

Raises == at' = "over" /\ UNCHANGED <<call, todo, results>>

\* A reply that does not settle the call: on to the next provider, or the tables.
Onward == IF Len(todo) > 1 THEN todo' = Tail(todo) /\ UNCHANGED <<call, at, results>>
          ELSE Tell(Fallback(call))

\* What the except clause of a provider's request does not catch.
Uncaught(provider, reply) ==
    reply = "not_object" \/ (provider = "weatherapi" /\ reply = "not_json")

\* Variant for sensitivity: the live answer is told, and the handler goes on.
LiveThenOn(provider) ==
    IF Len(todo) > 1 THEN /\ results' = Append(results, Result("live", provider))
                          /\ todo' = Tail(todo) /\ UNCHANGED <<call, at>>
    ELSE Tell(Result("live", provider))

\* The value is told as the live one, and the handler returns.
Live(provider) == Tell(Result("live", provider))

\* The weather is told whatever the object holds.
Provider(reply) ==
    /\ at = "asking"
    /\ CASE Uncaught(Head(todo), reply) -> Raises
         [] reply = "value" \/ (reply = "lacking" /\ Head(todo) = "weatherapi") -> Live(Head(todo))
         [] OTHER -> Onward

Next == Handle \/ \E reply \in Replies : Provider(reply)

Spec == Init /\ [][Next]_vars

-----------------------------------------------------------------------------
\* No call is answered twice or by a refusal after a live answer, through the chain of
\* providers and the static data behind them (the early returns of every handler).
AnsweredAtMostOnce == Len(results) <= 1 /\ (at # "over" => results = <<>>)

\* A random number lies between the bounds that were asked for ("Return a uniformly
\* random integer in [min, max]", handle_generate_random_number).
DrawnInRange ==
    \A i \in DOMAIN results : results[i].source = "drawn" =>
        /\ call.min # NotGiven => results[i].value >= call.min
        /\ call.max # NotGiven => results[i].value <= call.max
=============================================================================
