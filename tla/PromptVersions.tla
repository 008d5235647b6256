--------------------------- MODULE PromptVersions ---------------------------
(***************************************************************************)
(* A prompt and its versions.  An edit reads the prompt, writes it and,    *)
(* where the text or the variables have changed, adds a version under the  *)
(* next number, all in one transaction.  The read takes no lock: what is   *)
(* written is decided before the row is locked.                            *)
(***************************************************************************)
EXTENDS Naturals, FiniteSets

CONSTANTS Editors, \* the requests that edit the prompt
          Bodies,
          NoBody, Nobody

VARIABLES prompt,   \* the committed row and its versions
          writing,  \* the edit that holds the row, or nothing
          editors   \* the state of each edit

promptVars == <<prompt, writing, editors>>

-----------------------------------------------------------------------------
MaxNumber == Cardinality(Editors) + 1

Version == [number : 1..MaxNumber, body : Bodies]

\* body: the text it asks for, if it does; whole: it gives the variables as well, as the page
\* does; seen: the text when it read the prompt.
Editor == [step : {"new", "read", "locked", "done", "missing", "failed", "empty"},
           body : Bodies \cup {NoBody}, whole : BOOLEAN, seen : Bodies \cup {NoBody}]

Idle == [step |-> "new", body |-> NoBody, whole |-> FALSE, seen |-> NoBody]

TypeOK ==
  /\ prompt \in [there : BOOLEAN, body : Bodies, versions : SUBSET Version]
  /\ writing \in Editors \cup {Nobody}
  /\ editors \in [Editors -> Editor]

\* A prompt that was just created, with its first version.
Init ==
  /\ \E b \in Bodies : prompt = [there |-> TRUE, body |-> b, versions |-> {[number |-> 1, body |-> b]}]
  /\ writing = Nobody
  /\ editors = [e \in Editors |-> Idle]

-----------------------------------------------------------------------------
ReadPrompt(e, body, whole) ==
  /\ editors[e].step = "new"
  /\ editors' = [editors EXCEPT ![e] = IF prompt.there
                                       THEN [step |-> "read", body |-> body, whole |-> whole, seen |-> prompt.body]
                                       ELSE [Idle EXCEPT !.step = "missing"]]
  /\ UNCHANGED <<prompt, writing>>

\* The text asked for, or that which was read.
NextBody(edit) == IF edit.body = NoBody THEN edit.seen ELSE edit.body

\* Variables are stored as a JSON string, and never equal to the list that is given.
AddsVersion(edit) == edit.whole \/ (edit.body # NoBody /\ edit.body # edit.seen)

\* The update takes the row.  Of a prompt that was deleted meanwhile no version can be added;
\* an edit that adds none is answered as if it had been made.
LockPrompt(e) ==
  /\ editors[e].step = "read" /\ writing = Nobody
  /\ editors' = [editors EXCEPT ![e].step = IF prompt.there THEN "locked"
                                            ELSE IF AddsVersion(editors[e]) THEN "failed" ELSE "empty"]
  /\ writing' = IF prompt.there THEN e ELSE writing
  /\ UNCHANGED prompt

\* It is read while the row is held.
NumberAfter(versions) == Cardinality(versions) + 1

\* Mutant of CommitEdit: a version is added for another text only.
CommitOfText(e) ==
  LET edit == editors[e]
      body == NextBody(edit)
  IN  /\ edit.step = "locked"
      /\ prompt' = [prompt EXCEPT
                     !.body = body,
                     !.versions = IF edit.body \notin {NoBody, edit.seen}
                                  THEN @ \cup {[number |-> NumberAfter(@), body |-> body]} ELSE @]
      /\ writing' = Nobody
      /\ editors' = [editors EXCEPT ![e].step = "done"]

CommitEdit(e) ==
  LET edit == editors[e]
      body == NextBody(edit)
  IN  /\ edit.step = "locked"
      /\ prompt' = [prompt EXCEPT
                     !.body = body,
                     !.versions = IF AddsVersion(edit)
                                  THEN @ \cup {[number |-> NumberAfter(@), body |-> body]} ELSE @]
      /\ writing' = Nobody
      /\ editors' = [editors EXCEPT ![e].step = "done"]

\* The transaction is lost, and with it all that it wrote.
Abort(e) ==
  /\ editors[e].step \in {"read", "locked"}
  /\ editors' = [editors EXCEPT ![e].step = "failed"]
  /\ writing' = IF writing = e THEN Nobody ELSE writing
  /\ UNCHANGED prompt

\* The versions go with the prompt.
DeletePrompt ==
  /\ prompt.there /\ writing = Nobody
  /\ prompt' = [prompt EXCEPT !.there = FALSE, !.versions = {}]
  /\ UNCHANGED <<writing, editors>>

Next ==
  \/ \E e \in Editors :
       \/ \E body \in Bodies \cup {NoBody}, whole \in BOOLEAN : ReadPrompt(e, body, whole)
       \/ LockPrompt(e) \/ CommitEdit(e) \/ Abort(e)
  \/ DeletePrompt

Spec == Init /\ [][Next]_promptVars

-----------------------------------------------------------------------------
(* Properties.                                                             *)

LastVersion == CHOOSE v \in prompt.versions : \A w \in prompt.versions : w.number <= v.number

\* The versions are numbered one by one, and as long as every edit gives the whole prompt, as
\* the page does, the last version is the prompt, however the edits are interleaved
\* (prompts/[promptId]/route.ts:46-81).
LastVersionIsThePrompt ==
  prompt.there =>
    /\ {v.number : v \in prompt.versions} = 1..Cardinality(prompt.versions)
    /\ (\A e \in Editors : editors[e].step # "new" => editors[e].whole /\ editors[e].body # NoBody) =>
         LastVersion.body = prompt.body
=============================================================================
