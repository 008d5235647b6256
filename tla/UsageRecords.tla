---------------------------- MODULE UsageRecords ----------------------------
(***************************************************************************)
(* What a completed answer cost: the figures the provider's frames report, *)
(* merged as they come, the estimates for those it does not report, and    *)
(* the price of the model.  Prices are in cents per million tokens.        *)
(***************************************************************************)
EXTENDS Integers, Sequences, FiniteSets

CONSTANTS Lengths,     \* of the prompt and of the answer
          MaxReports,  \* frames that report something
          Absent       \* undefined, and null

VARIABLES vendor, model,
          told,    \* the reports, in their order
          usage,   \* the merged usage of the adapter
          record   \* the row of usage_records

vars == <<vendor, model, told, usage, record>>

-----------------------------------------------------------------------------
Fields == {"inputTokens", "outputTokens", "reasoningTokens", "searchQueries"}

Price(provider, includes, input, output) ==
  [provider |-> provider, modelIncludes |-> includes, input |-> input, output |-> output, search |-> 0]

NoPrice == [provider |-> "none", modelIncludes |-> "none", input |-> 0, output |-> 0, search |-> 0]

OpenAiPrices == <<<<"gpt-4o-mini", 15, 60>>, <<"gpt-4o", 250, 1000>>, <<"gpt-4.1-mini", 40, 160>>, <<"gpt-4.1", 200, 800>>>>

PricesOf(provider, list) == [i \in DOMAIN list |-> Price(provider, list[i][1], list[i][2], list[i][3])]

Prices ==
  PricesOf("openai-compatible", Append(OpenAiPrices, <<"o3-mini", 110, 440>>))
    \o PricesOf("azure-openai", OpenAiPrices)
    \o PricesOf("anthropic", <<<<"claude-3-5-haiku", 80, 400>>, <<"claude-3-5-sonnet", 300, 1500>>,
                               <<"claude-3-7-sonnet", 300, 1500>>, <<"claude-opus-4", 1500, 7500>>,
                               <<"claude-sonnet-4", 300, 1500>>>>)
    \o <<[Price("perplexity", "sonar", 100, 100) EXCEPT !.search = 500000], Price("minimax", "abab", 20, 110)>>
    \o PricesOf("any", <<<<"gpt-4o-mini", 15, 60>>, <<"gpt-4o", 250, 1000>>, <<"claude", 300, 1500>>>>)

Providers == {"openai-compatible", "azure-openai", "anthropic", "perplexity", "minimax", "xai"}

\* Names of models, and which of the table's fragments each includes.
Included ==
  [m \in {"gpt-4o-mini", "gpt-4o", "gpt-4.1-mini", "gpt-4.1", "o3-mini", "claude-opus-4", "claude-2", "sonar", "abab", "other"} |->
     CASE m = "gpt-4o-mini" -> {"gpt-4o-mini", "gpt-4o"}
       [] m = "gpt-4.1-mini" -> {"gpt-4.1-mini", "gpt-4.1"}
       [] m = "claude-opus-4" -> {"claude-opus-4", "claude"}
       [] m = "claude-2" -> {"claude"}
       [] m = "other" -> {}
       [] OTHER -> {m}]

Models == DOMAIN Included

Matching(provider, m) == {i \in DOMAIN Prices : Prices[i].provider = provider /\ Prices[i].modelIncludes \in Included[m]}

FirstOf(S) == Prices[CHOOSE i \in S : \A j \in S : i <= j]

\* Mutant of PriceFor: the table is searched once, by name alone.
PriceByName(provider, m) ==
  LET all == UNION {Matching(p, m) : p \in {provider, "any"}}
      named == {i \in DOMAIN Prices : Prices[i].modelIncludes \in Included[m]}
  IN  IF all = {} THEN NoPrice ELSE FirstOf(named)

PriceFor(provider, m) ==
  IF Matching(provider, m) # {} THEN FirstOf(Matching(provider, m))
  ELSE IF Matching("any", m) # {} THEN FirstOf(Matching("any", m))
  ELSE NoPrice

PricingSource(provider, m) ==
  CASE PriceFor(provider, m) = NoPrice -> "unknown"
    [] PriceFor(provider, m).provider = provider -> "catalog"
    [] OTHER -> "fallback"

-----------------------------------------------------------------------------
NoUsage == [f \in Fields |-> Absent]

\* cost: in units of 10^-8 dollars, for figures that are tokens and queries.
NoRecord == [figures |-> NoUsage, sources |-> [f \in Fields |-> "none"], estimated |-> FALSE,
             usageSource |-> "none", pricing |-> "none", price |-> NoPrice, cost |-> Absent]

TypeOK ==
  /\ vendor \in Providers /\ model \in Models
  /\ told \in Seq([Fields -> (0..MaxReports) \cup {Absent}]) /\ Len(told) <= MaxReports
  /\ usage \in [Fields -> (0..MaxReports) \cup {Absent}]
  /\ record # NoRecord => record.figures \in [Fields -> Nat] /\ record.cost \in Nat \cup {Absent}

Init ==
  /\ vendor \in Providers /\ model \in Models
  /\ told = <<>> /\ usage = NoUsage /\ record = NoRecord

-----------------------------------------------------------------------------
\* Mutant of MergeUsage: a report replaces what was known.
LatestUsage(current, next) == next

\* next ?? current, field by field.
MergeUsage(current, next) == [f \in Fields |-> IF next[f] = Absent THEN current[f] ELSE next[f]]

\* A frame of the stream bears some figures; those of the first are 0, and those of a later
\* one differ from them.  Anthropic's frames bear two.
Report(fields) ==
  LET next == [f \in Fields |-> IF f \in fields THEN Len(told) ELSE Absent]
  IN  /\ record = NoRecord /\ Len(told) < MaxReports /\ fields # {}
      /\ vendor = "anthropic" => fields \subseteq {"inputTokens", "outputTokens"}
      /\ told' = Append(told, next)
      /\ usage' = MergeUsage(usage, next)
      /\ UNCHANGED <<vendor, model, record>>

\* Four characters are a token, and there is at least one.
EstimateTokens(length) == IF length = 0 THEN 1 ELSE (length + 3) \div 4

Default(f, inputLength, outputLength) ==
  CASE f = "inputTokens" -> EstimateTokens(inputLength)
    [] f = "outputTokens" -> EstimateTokens(outputLength)
    [] f = "reasoningTokens" -> 0
    [] f = "searchQueries" -> IF vendor = "perplexity" THEN 1 ELSE 0

DefaultSource(f) ==
  IF f \in {"inputTokens", "outputTokens"} THEN "estimated"
  ELSE IF f = "searchQueries" /\ vendor = "perplexity" THEN "provider_default"
  ELSE "default_zero"

\* Reasoning is paid for as output.
Cost(figures, price) ==
  IF price = NoPrice THEN Absent
  ELSE figures["inputTokens"] * price.input
         + (figures["outputTokens"] + figures["reasoningTokens"]) * price.output
         + figures["searchQueries"] * price.search

\* Mutant of RecordUsage: a figure of the provider that is zero is taken for none.
RecordNonZero(inputLength, outputLength) ==
  LET figures == [f \in Fields |-> IF usage[f] \in {Absent, 0} THEN Default(f, inputLength, outputLength) ELSE usage[f]]
      sources == [f \in Fields |-> IF usage[f] = Absent THEN DefaultSource(f) ELSE "provider"]
      estimated == \E f \in Fields : sources[f] \in {"estimated", "provider_default"}
      price == PriceFor(vendor, model)
  IN  /\ record = NoRecord
      /\ record' = [figures |-> figures, sources |-> sources, estimated |-> estimated,
                    usageSource |-> IF usage = NoUsage THEN "estimated"
                                    ELSE IF estimated THEN "provider_partial" ELSE "provider",
                    pricing |-> PricingSource(vendor, model), price |-> price, cost |-> Cost(figures, price)]
      /\ UNCHANGED <<vendor, model, told, usage>>

\* The stream has ended with a message, and something was said.
RecordUsage(inputLength, outputLength) ==
  LET figures == [f \in Fields |-> IF usage[f] = Absent THEN Default(f, inputLength, outputLength) ELSE usage[f]]
      sources == [f \in Fields |-> IF usage[f] = Absent THEN DefaultSource(f) ELSE "provider"]
      estimated == \E f \in Fields : sources[f] \in {"estimated", "provider_default"}
      price == PriceFor(vendor, model)
  IN  /\ record = NoRecord
      /\ record' = [figures |-> figures, sources |-> sources, estimated |-> estimated,
                    usageSource |-> IF usage = NoUsage THEN "estimated"
                                    ELSE IF estimated THEN "provider_partial" ELSE "provider",
                    pricing |-> PricingSource(vendor, model), price |-> price, cost |-> Cost(figures, price)]
      /\ UNCHANGED <<vendor, model, told, usage>>

Next ==
  \/ \E fields \in SUBSET Fields : Report(fields)
  \/ \E inputLength \in Lengths, outputLength \in Lengths \ {0} : RecordUsage(inputLength, outputLength)

Spec == Init /\ [][Next]_vars

-----------------------------------------------------------------------------
(* Properties.                                                             *)

Said(f) == {i \in DOMAIN told : told[i][f] # Absent}

\* A record has, of every figure, the last one a frame reported, whatever the frames after
\* it leave out, and says of every other that it is not the provider's; it is estimated
\* when a figure that bears a price is (providers/src/index.ts:164-172, usage.ts:84-99).
FiguresAreTheProviders ==
  record # NoRecord =>
    /\ \A f \in Fields :
         IF Said(f) = {} THEN record.sources[f] # "provider"
         ELSE LET last == CHOOSE i \in Said(f) : \A j \in Said(f) : j <= i
              IN  record.figures[f] = told[last][f] /\ record.sources[f] = "provider"
    /\ ~record.estimated <=> {"inputTokens", "outputTokens"} \subseteq {f \in Fields : Said(f) # {}}
                               /\ (vendor = "perplexity" => Said("searchQueries") # {})

\* fragment g is in every name that fragment f is in.
Within(g, f) == \A m \in Models : f \in Included[m] => g \in Included[m]

\* A record's price is of its own provider where the table has one for the model, and no
\* entry of the same provider fits the model more closely: "gpt-4o" does not price
\* "gpt-4o-mini" (usage.ts:31-51, 61-66).
PriceIsClosest ==
  record # NoRecord =>
    /\ record.cost = Absent <=> Matching(vendor, model) \cup Matching("any", model) = {}
    /\ record.cost # Absent =>
         /\ record.price.provider = IF Matching(vendor, model) # {} THEN vendor ELSE "any"
         /\ \A i \in Matching(record.price.provider, model) :
              Within(record.price.modelIncludes, Prices[i].modelIncludes) =>
                Prices[i].modelIncludes = record.price.modelIncludes
=============================================================================
