---------------------------- MODULE ModelCatalog ----------------------------
(***************************************************************************)
(* Listing the models of a provider: one request for most, pages for       *)
(* Google and Anthropic.  The pages are what the provider makes them: a    *)
(* model may be listed on two, and a page may name any next one.           *)
(***************************************************************************)
EXTENDS Naturals, Sequences, Ordering

CONSTANTS Offered,   \* models of the provider; Unfit are those that do not chat
          Unfit,
          Tokens,     \* names of pages
          MaxModels,  \* 5000
          MaxPages,   \* requests of one listing, for the model checker
          NoToken

VARIABLES listing

vars == <<listing>>

-----------------------------------------------------------------------------
\* after: the token of the next request; asked: those of the requests so far.
Init ==
  \E vendor \in {"openai-style", "google", "anthropic"} :
    listing = [vendor |-> vendor, pc |-> "asking", after |-> NoToken, asked |-> <<>>, models |-> <<>>]

TypeOK ==
  listing \in [vendor : {"openai-style", "google", "anthropic"}, pc : {"asking", "listed", "failed"},
               after : Tokens \cup {NoToken}, asked : Seq(Tokens \cup {NoToken}), models : Seq(Offered)]

\* A page lists some models, each once, and may name the next page.
Pages == [models : {<<>>} \cup {<<m>> : m \in Offered} \cup {p \in Offered \X Offered : p[1] # p[2]},
          next : Tokens \cup {NoToken}]

Has(seq, x) == \E i \in DOMAIN seq : seq[i] = x

Fails == listing' = [listing EXCEPT !.pc = "failed", !.models = <<>>]

Ends(models) == listing' = [listing EXCEPT !.pc = "listed", !.models = models, !.asked = Append(@, listing.after)]

GoesOn(models, token) ==
  IF Len(models) >= MaxModels THEN Fails
  ELSE listing' = [listing EXCEPT !.models = models, !.after = token, !.asked = Append(@, listing.after)]

\* A timeout, a refusal, or a body that is not the list.
RequestFails == listing.pc = "asking" /\ Fails

\* modelListJson and openAiStyleModelList: the whole list at once.
OneList(page) ==
  /\ listing.vendor = "openai-style" /\ listing.pc = "asking"
  /\ Ends(page.models)

\* Of a page, the models that chat and were on no earlier one.
Fit(page) == Picked(page, {i \in DOMAIN page : page[i] \notin Unfit /\ ~Has(listing.models, page[i])})

\* Mutant of GooglePage: the tokens that were followed are not kept.
GooglePageAgain(page) ==
  LET models == listing.models \o Fit(page.models)
  IN  /\ listing.vendor = "google" /\ listing.pc = "asking"
      /\ IF page.next = NoToken THEN Ends(models) ELSE GoesOn(models, page.next)

\* The token of a page that was asked for already is refused when it is about to be used.
GooglePage(page) ==
  LET models == listing.models \o Fit(page.models)
  IN  /\ listing.vendor = "google" /\ listing.pc = "asking"
      /\ IF page.next = NoToken THEN Ends(models)
         ELSE IF Len(models) < MaxModels /\ (page.next = listing.after \/ Has(listing.asked, page.next)) THEN Fails
         ELSE GoesOn(models, page.next)

\* The last id of a page with more to come must be one, and not the one asked for.
AnthropicPage(page, more) ==
  /\ listing.vendor = "anthropic" /\ listing.pc = "asking"
  /\ IF ~more THEN Ends(listing.models \o page.models)
     ELSE IF page.next \in {NoToken, listing.after} THEN Fails
     ELSE GoesOn(listing.models \o page.models, page.next)

Next ==
  \/ RequestFails
  \/ /\ Len(listing.asked) < MaxPages
     /\ \E page \in Pages :
          OneList(page) \/ GooglePage(page) \/ \E more \in BOOLEAN : AnthropicPage(page, more)

Spec == Init /\ [][Next]_vars

-----------------------------------------------------------------------------
(* Properties.                                                             *)

\* Google's listing asks for no page twice, so that it ends whatever the pages say, and has
\* no model twice; Anthropic's never asks for the page it has just read
\* (providers/src/index.ts:265-292, 407-431).
PagesAreNew ==
  /\ listing.vendor = "google" =>
       /\ \A i, j \in DOMAIN listing.asked : listing.asked[i] = listing.asked[j] => i = j
       /\ \A i, j \in DOMAIN listing.models : listing.models[i] = listing.models[j] => i = j
  /\ \A i \in 1..(Len(listing.asked) - 1) : listing.asked[i] # listing.asked[i + 1]

\* What is listed chats, and a list that grows beyond the limit with more to come fails.
ListIsBounded ==
  /\ listing.vendor = "google" => \A i \in DOMAIN listing.models : listing.models[i] \notin Unfit
  /\ listing.pc = "asking" => Len(listing.models) < MaxModels
=============================================================================
