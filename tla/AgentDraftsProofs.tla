------------------------- MODULE AgentDraftsProofs -------------------------
(***************************************************************************)
(* Theorems about AgentDrafts, for any number of requests, users and       *)
(* knowledge bases: the bindings of a draft follow its spec, and versions  *)
(* are whole.                                                              *)
(*                                                                         *)
(* Neither is inductive alone.  A save clears the bindings its statement   *)
(* sees, and a publication carries the spec it has read: that nothing else *)
(* was bound, and that the draft is still that one, when they write,       *)
(* follows from the lock on the agent's row (RequestFits).                 *)
(*                                                                         *)
(* The second part is about the editor of AgentsPage.  What its monitor    *)
(* shows is written by handlers that began before: EditorInv says of each  *)
(* what it still works for, by the step it is at.                          *)
(***************************************************************************)
EXTENDS AgentDrafts, AgentsPage, TLAPS

RequestFits(r) ==
  /\ requests[r].pc \in {"locked", "cleared"} => agent.lock = r
  /\ requests[r].pc = "cleared" => bindings \subseteq requests[r].gone
  /\ requests[r].pc = "read" /\ requests[r].op = "publish" => requests[r].waited
  /\ requests[r].pc = "locked" /\ requests[r].op = "publish" =>
       Exists /\ (requests[r].waited \/ requests[r].spec = draft.spec)

RequestsFit == \A r \in Requests : RequestFits(r)

IInv == TypeOK /\ RequestsFit /\ BindingsFollowSpec /\ VersionsAreWhole

-----------------------------------------------------------------------------
(* Records and sequences.                                                  *)

LEMMA RequestTyped ==
  ASSUME NEW x \in Request
  PROVE  /\ x.op \in {"none", "spec", "state", "publish"} /\ x.user \in Users \cup {Owner}
         /\ x.spec \in Specs /\ x.gone \subseteq Bases
         /\ x.waited \in BOOLEAN
BY DEF Request

LEMMA SpecTyped == ASSUME NEW x \in Specs PROVE x.bases \subseteq Bases
BY DEF Specs

LEMMA OverTyped ==
  ASSUME NEW pc \in {"unused", "done", "failed"}
  PROVE  Over(pc) \in Request /\ Over(pc).pc = pc
<1>1. NoRequest \in Request
  BY DEF NoRequest, Request, Specs, Spec0
<1>2. [NoRequest EXCEPT !.pc = pc] \in Request /\ [NoRequest EXCEPT !.pc = pc].pc = pc
  <2> HIDE DEF NoRequest
  <2> QED BY <1>1 DEF Request
<1> QED BY <1>2 DEF Over

LEMMA SeqMapped ==
  ASSUME NEW S, NEW s \in Seq(S), NEW f \in [DOMAIN s -> S]
  PROVE  f \in Seq(S) /\ Len(f) = Len(s) /\ DOMAIN f = DOMAIN s
<1>1. Len(s) \in Nat /\ DOMAIN s = 1..Len(s)
  OBVIOUS
<1>2. f \in [1..Len(s) -> S]
  BY <1>1
<1> QED BY <1>1, <1>2

LEMMA SeqAppended ==
  ASSUME NEW S, NEW s \in Seq(S), NEW x \in S
  PROVE  /\ Append(s, x) \in Seq(S) /\ Len(Append(s, x)) = Len(s) + 1 /\ Len(s) \in Nat
         /\ \A i \in DOMAIN Append(s, x) : Append(s, x)[i] = x \/ (i \in DOMAIN s /\ Append(s, x)[i] = s[i])
OBVIOUS

-----------------------------------------------------------------------------
LEMMA InitIInv == Init => IInv
<1> SUFFICES ASSUME Init PROVE IInv
  OBVIOUS
<1>1. NoRequest \in Request /\ Spec0 \in Specs
  BY DEF NoRequest, Request, Specs, Spec0
<1>2. TypeOK
  BY <1>1 DEF Init, TypeOK, Roles
<1>3. RequestsFit
  BY DEF Init, RequestsFit, RequestFits, NoRequest
<1>4. BindingsFollowSpec /\ VersionsAreWhole
  BY DEF Init, BindingsFollowSpec, VersionsAreWhole, Spec0
<1> QED BY <1>2, <1>3, <1>4 DEF IInv

\* Request q does not notice a step of another.
Undisturbed(q) ==
  /\ requests'[q].pc = requests[q].pc /\ requests'[q].op = requests[q].op
  /\ requests'[q].gone = requests[q].gone /\ requests'[q].waited = requests[q].waited
  /\ requests'[q].spec = requests[q].spec
  /\ agent.lock = q =>
       agent'.lock = q /\ bindings' \subseteq bindings /\ draft'.spec = draft.spec /\ (Exists => Exists')

LEMMA FitsStays ==
  ASSUME NEW q, RequestFits(q), Undisturbed(q)
  PROVE  RequestFits(q)'
BY DEF RequestFits, Undisturbed

\* A step of one request that writes no row but the agent's, or nothing.
LEMMA QuietStep ==
  ASSUME IInv, NEW r \in Requests, NEW x \in Request, requests' = [requests EXCEPT ![r] = x],
         UNCHANGED <<draft, bindings, versions, bases, roles>>,
         \/ agent' = agent
         \/ agent.lock = NoOne /\ agent' = [agent EXCEPT !.lock = r]
         \/ agent.lock = r /\ agent' = [agent EXCEPT !.lock = NoOne],
         NoOne \notin Requests, RequestFits(r)'
  PROVE  IInv'
<1>1. /\ agent'.state = agent.state /\ agent'.published = agent.published
      /\ agent'.lock \in Requests \cup {NoOne}
      /\ agent' \in [state : {"draft", "active", "archived", "deleted"}, published : Nat, lock : Requests \cup {NoOne}]
      /\ \A q \in Requests \ {r} : agent.lock = q => agent'.lock = q
  BY DEF IInv, TypeOK
<1>2. requests' \in [Requests -> Request] /\ \A q \in Requests \ {r} : requests'[q] = requests[q]
  BY DEF IInv, TypeOK
<1>3. TypeOK'
  BY <1>1, <1>2 DEF IInv, TypeOK
<1>4. \A q \in Requests \ {r} : RequestFits(q)'
  BY <1>1, <1>2, FitsStays DEF IInv, RequestsFit, Undisturbed, Exists
<1>5. BindingsFollowSpec' /\ VersionsAreWhole'
  BY <1>1 DEF IInv, BindingsFollowSpec, VersionsAreWhole, Exists
<1> QED BY <1>3, <1>4, <1>5 DEF IInv, RequestsFit

LEMMA RefuseStep ==
  ASSUME NoOne \notin Requests, IInv, NEW r \in Requests, Refuse(r)
  PROVE  IInv'
<1>1. /\ requests' = [requests EXCEPT ![r] = Over("failed")]
      /\ UNCHANGED <<draft, bindings, versions, bases, roles>>
      /\ agent' = agent \/ (agent.lock = r /\ agent' = [agent EXCEPT !.lock = NoOne])
  BY DEF Refuse
<1>2. requests'[r] = Over("failed")
  BY <1>1 DEF IInv, TypeOK
<1>3. RequestFits(r)'
  BY <1>2, OverTyped DEF RequestFits
<1> QED BY <1>1, <1>3, OverTyped, QuietStep

LEMMA ArriveStep ==
  ASSUME NoOne \notin Requests, IInv, NEW r \in Requests, NEW u \in Users \cup {Owner},
         NEW op \in {"spec", "state", "publish"}, NEW named \in SUBSET Bases, Arrive(r, u, op, named)
  PROVE  IInv'
<1> DEFINE spec == IF op = "spec" THEN [by |-> r, bases |-> named] ELSE Spec0
           x == IF CanEdit(u) THEN [NoRequest EXCEPT !.op = op, !.user = u, !.pc = "allowed", !.spec = spec]
                ELSE Over("failed")
<1>1. requests' = [requests EXCEPT ![r] = x] /\ UNCHANGED <<agent, draft, bindings, versions, bases, roles>>
  BY DEF Arrive
<1>2. spec \in Specs
  BY DEF Specs, Spec0
<1>3. NoRequest \in Request
  BY DEF NoRequest, Request, Specs, Spec0
<1>4. x \in Request /\ x.pc \in {"allowed", "failed"}
  <2> HIDE DEF spec
  <2> SUFFICES /\ [NoRequest EXCEPT !.op = op, !.user = u, !.pc = "allowed", !.spec = spec] \in Request
               /\ [NoRequest EXCEPT !.op = op, !.user = u, !.pc = "allowed", !.spec = spec].pc = "allowed"
    BY OverTyped
  <2> HIDE DEF NoRequest
  <2> QED BY <1>2, <1>3 DEF Request
<1> HIDE DEF x
<1>5. requests'[r] = x
  BY <1>1 DEF IInv, TypeOK
<1>6. RequestFits(r)'
  BY <1>4, <1>5 DEF RequestFits
<1> QED BY <1>1, <1>4, <1>6, QuietStep

\* Before it writes a row, a save only moves on; its spec stays a spec.
LEMMA BeforeWriting ==
  ASSUME NoOne \notin Requests, IInv, NEW r \in Requests, ReadDraft(r) \/ CheckBases(r) \/ LockAgent(r) \/ ClearBindings(r)
  PROVE  IInv'
<1>1. /\ requests \in [Requests -> Request] /\ requests[r] \in Request /\ draft.spec \in Specs /\ bindings \subseteq Bases
      /\ RequestFits(r)
  BY DEF IInv, TypeOK, RequestsFit
<1>2. CASE ReadDraft(r)
  <2> DEFINE spec == IF requests[r].op = "spec" THEN requests[r].spec
                      ELSE [by |-> r, bases |-> {}]
             x == [requests[r] EXCEPT !.pc = "read", !.spec = spec]
  <2>1. CASE Refuse(r)
    BY <2>1, RefuseStep
  <2>2. CASE requests' = [requests EXCEPT ![r] = x] /\ UNCHANGED <<agent, draft, bindings, versions, bases, roles>>
    <3>1. spec \in Specs
      BY <1>1, RequestTyped DEF Specs
    <3> HIDE DEF spec
    <3>2. x \in Request /\ x.pc = "read" /\ x.op # "publish"
      BY <1>1, <1>2, <3>1 DEF Request, ReadDraft
    <3> HIDE DEF x
    <3>3. requests'[r] = x
      BY <1>1, <2>2
    <3>4. RequestFits(r)'
      BY <3>2, <3>3 DEF RequestFits
    <3> QED BY <2>2, <3>2, <3>4, QuietStep
  <2> QED BY <1>2, <2>1, <2>2 DEF ReadDraft
<1>3. CASE CheckBases(r)
  <2> DEFINE spec == [requests[r].spec EXCEPT !.bases = @ \cap bases]
             x == [requests[r] EXCEPT !.pc = "checked", !.spec = spec]
  <2>1. requests' = [requests EXCEPT ![r] = x] /\ UNCHANGED <<agent, draft, bindings, versions, bases, roles>>
    BY <1>3 DEF CheckBases
  <2>2. spec \in Specs
    BY <1>1, RequestTyped DEF Specs
  <2> HIDE DEF spec
  <2>3. x \in Request /\ x.pc = "checked"
    BY <1>1, <2>2 DEF Request
  <2> HIDE DEF x
  <2>4. requests'[r] = x
    BY <1>1, <2>1
  <2>5. RequestFits(r)'
    BY <2>3, <2>4 DEF RequestFits
  <2> QED BY <2>1, <2>3, <2>5, QuietStep
<1>4. CASE LockAgent(r)
  <2> DEFINE x == [requests[r] EXCEPT !.pc = "locked"]
  <2>1. /\ requests' = [requests EXCEPT ![r] = x] /\ UNCHANGED <<draft, bindings, versions, bases, roles>>
        /\ agent.lock = NoOne /\ agent' = [agent EXCEPT !.lock = r] /\ requests[r].op # "publish"
    BY <1>4 DEF LockAgent
  <2>2. x \in Request /\ x.pc = "locked" /\ x.op = requests[r].op
    BY <1>1 DEF Request
  <2> HIDE DEF x
  <2>3. requests'[r] = x /\ agent'.lock = r
    BY <1>1, <2>1 DEF IInv, TypeOK
  <2>4. RequestFits(r)'
    BY <2>1, <2>2, <2>3 DEF RequestFits
  <2> QED BY <2>1, <2>2, <2>4, QuietStep
<1>5. CASE ClearBindings(r)
  <2> DEFINE x == [requests[r] EXCEPT !.pc = "cleared", !.gone = bindings]
  <2>1. /\ requests' = [requests EXCEPT ![r] = x] /\ UNCHANGED <<agent, draft, bindings, versions, bases, roles>>
        /\ requests[r].pc = "locked"
    BY <1>5 DEF ClearBindings
  <2>2. x \in Request /\ x.pc = "cleared" /\ x.gone = bindings
    BY <1>1 DEF Request
  <2> HIDE DEF x
  <2>3. requests'[r] = x
    BY <1>1, <2>1
  <2>4. RequestFits(r)'
    BY <1>1, <2>1, <2>2, <2>3 DEF RequestFits
  <2> QED BY <2>1, <2>2, <2>4, QuietStep
<1> QED BY <1>2, <1>3, <1>4, <1>5

\* The save: what is bound is what it has cleared, since it holds the row of the agent.
LEMMA SaveDraftStep ==
  ASSUME NoOne \notin Requests, IInv, NEW r \in Requests, SaveDraft(r)
  PROVE  IInv'
<1> DEFINE spec == requests[r].spec
<1>1. /\ requests \in [Requests -> Request] /\ requests[r] \in Request /\ RequestFits(r)
      /\ requests[r].pc = "cleared" /\ agent.lock = r
      /\ agent \in [state : {"draft", "active", "archived", "deleted"}, published : Nat, lock : Requests \cup {NoOne}]
  BY DEF IInv, TypeOK, RequestsFit, RequestFits, SaveDraft
<1>2. CASE Refuse(r)
  BY <1>2, RefuseStep
<1>3. CASE /\ agent' = [agent EXCEPT !.lock = IF @ = r THEN NoOne ELSE @]
           /\ requests' = [requests EXCEPT ![r] = Over("done")]
           /\ UNCHANGED <<draft, bindings, versions, bases, roles>>
  <2>1. requests'[r] = Over("done")
    BY <1>1, <1>3
  <2>2. RequestFits(r)'
    BY <2>1, OverTyped DEF RequestFits
  <2>3. agent' = [agent EXCEPT !.lock = NoOne]
    BY <1>1, <1>3
  <2> QED BY <1>1, <1>3, <2>2, <2>3, OverTyped, QuietStep
<1>4. CASE /\ spec.bases \subseteq bases
           /\ bindings' = (bindings \ requests[r].gone) \cup spec.bases
           /\ draft' = [spec |-> spec, revision |-> draft.revision + 1]
           /\ agent' = [agent EXCEPT !.lock = IF @ = r THEN NoOne ELSE @]
           /\ requests' = [requests EXCEPT ![r] = Over("done")]
           /\ UNCHANGED <<versions, bases, roles>>
  <2>1. bindings' = spec.bases /\ draft'.spec = spec
    BY <1>1, <1>4 DEF RequestFits
  <2>2. spec \in Specs /\ spec.bases \subseteq Bases
    BY <1>1, RequestTyped, SpecTyped
  <2>3. \A q \in Requests \ {r} : requests'[q] = requests[q]
    BY <1>1, <1>4
  <2>4. requests' \in [Requests -> Request] /\ requests'[r] = Over("done")
    BY <1>1, <1>4, OverTyped
  <2>5. /\ agent'.state = agent.state /\ agent'.published = agent.published
        /\ agent' \in [state : {"draft", "active", "archived", "deleted"}, published : Nat, lock : Requests \cup {NoOne}]
    BY <1>1, <1>4
  <2>6. TypeOK'
    <3>1. draft' \in [spec : Specs, revision : Nat \ {0}]
      BY <1>4, <2>2 DEF IInv, TypeOK
    <3> QED BY <1>4, <2>1, <2>2, <2>4, <2>5, <3>1 DEF IInv, TypeOK
  <2>7. \A q \in Requests \ {r} : RequestFits(q)'
    BY <1>1, <2>3, FitsStays DEF IInv, RequestsFit, Undisturbed
  <2>8. RequestFits(r)'
    BY <2>4, OverTyped DEF RequestFits
  <2>9. BindingsFollowSpec' /\ VersionsAreWhole'
    BY <1>4, <2>1, <2>5 DEF IInv, BindingsFollowSpec, VersionsAreWhole, Exists
  <2> QED BY <2>6, <2>7, <2>8, <2>9 DEF IInv, RequestsFit
<1> QED BY <1>2, <1>3, <1>4 DEF SaveDraft

-----------------------------------------------------------------------------
(* Publication.                                                            *)

LEMMA LockedForPublish ==
  ASSUME NoOne \notin Requests, IInv, NEW r \in Requests, ReadForPublish(r) \/ LockForPublish(r)
  PROVE  IInv'
<1>1. /\ requests \in [Requests -> Request] /\ requests[r] \in Request /\ draft.spec \in Specs
      /\ RequestFits(r)
  BY DEF IInv, TypeOK, RequestsFit
<1>2. CASE Refuse(r)
  BY <1>2, RefuseStep
<1>3. CASE /\ Exists /\ agent.lock = NoOne /\ agent' = [agent EXCEPT !.lock = r]
           /\ requests' = [requests EXCEPT ![r].pc = "locked", ![r].spec = draft.spec]
           /\ UNCHANGED <<draft, bindings, versions, bases, roles>>
  <2> DEFINE x == [requests[r] EXCEPT !.pc = "locked", !.spec = draft.spec]
  <2>1. x \in Request /\ x.pc = "locked" /\ x.spec = draft.spec
    BY <1>1 DEF Request
  <2>2. requests' = [requests EXCEPT ![r] = x] /\ requests'[r] = x
    BY <1>1, <1>3
  <2> HIDE DEF x
  <2>3. agent'.lock = r /\ agent'.state = agent.state
    BY <1>3 DEF IInv, TypeOK
  <2>4. RequestFits(r)'
    BY <1>3, <2>1, <2>2, <2>3 DEF RequestFits, Exists
  <2> QED BY <1>3, <2>1, <2>2, <2>4, QuietStep
<1>4. CASE /\ requests' = [requests EXCEPT ![r].pc = "read", ![r].spec = draft.spec, ![r].waited = TRUE]
           /\ UNCHANGED <<agent, draft, bindings, versions, bases, roles>>
  <2> DEFINE x == [requests[r] EXCEPT !.pc = "read", !.spec = draft.spec, !.waited = TRUE]
  <2>1. x \in Request /\ x.pc = "read" /\ x.waited = TRUE
    BY <1>1 DEF Request
  <2>2. requests' = [requests EXCEPT ![r] = x] /\ requests'[r] = x
    BY <1>1, <1>4
  <2> HIDE DEF x
  <2>3. RequestFits(r)'
    BY <2>1, <2>2 DEF RequestFits
  <2> QED BY <1>4, <2>1, <2>2, <2>3, QuietStep
<1>5. CASE /\ requests[r].pc = "read" /\ requests[r].op = "publish"
           /\ Exists /\ agent.lock = NoOne /\ agent' = [agent EXCEPT !.lock = r]
           /\ requests' = [requests EXCEPT ![r].pc = "locked"]
           /\ UNCHANGED <<draft, bindings, versions, bases, roles>>
  <2> DEFINE x == [requests[r] EXCEPT !.pc = "locked"]
  <2>1. x \in Request /\ x.pc = "locked" /\ x.waited = requests[r].waited
    BY <1>1 DEF Request
  <2>2. requests' = [requests EXCEPT ![r] = x] /\ requests'[r] = x
    BY <1>1, <1>5
  <2> HIDE DEF x
  <2>3. agent'.lock = r /\ agent'.state = agent.state
    BY <1>5 DEF IInv, TypeOK
  <2>4. RequestFits(r)'
    BY <1>1, <1>5, <2>1, <2>2, <2>3 DEF RequestFits, Exists
  <2> QED BY <1>5, <2>1, <2>2, <2>4, QuietStep
<1>6. ReadForPublish(r) => IInv'
  BY <1>2, <1>3, <1>4 DEF ReadForPublish
<1>7. LockForPublish(r) => IInv'
  BY <1>2, <1>5 DEF LockForPublish
<1> QED BY <1>6, <1>7

LEMMA PublishStep ==
  ASSUME NoOne \notin Requests, IInv, NEW r \in Requests, Publish(r)
  PROVE  IInv'
<1> DEFINE v == [spec |-> requests[r].spec, bindings |-> bindings, waited |-> requests[r].waited]
<1>1. /\ requests \in [Requests -> Request] /\ requests[r] \in Request /\ RequestFits(r)
      /\ requests[r].pc = "locked" /\ requests[r].op = "publish" /\ agent.lock = r
      /\ agent \in [state : {"draft", "active", "archived", "deleted"}, published : Nat, lock : Requests \cup {NoOne}]
      /\ versions \in Seq(Version) /\ bindings \subseteq Bases
  BY DEF IInv, TypeOK, RequestsFit, RequestFits, Publish
<1>2. /\ versions' = Append(versions, v)
      /\ agent' = [Unlocked EXCEPT !.published = Len(versions'), !.state = "active"]
      /\ requests' = [requests EXCEPT ![r] = Over("done")]
      /\ UNCHANGED <<draft, bindings, bases, roles>>
  BY DEF Publish
<1>3. v \in Version /\ v.bindings = bindings /\ v.spec = requests[r].spec /\ v.waited = requests[r].waited
  BY <1>1, RequestTyped DEF Version
<1> HIDE DEF v
<1>4. Exists /\ (v.waited \/ v.bindings = v.spec.bases \cap bases)
  BY <1>1, <1>3 DEF RequestFits, IInv, BindingsFollowSpec
<1>5. /\ versions' \in Seq(Version) /\ Len(versions') \in Nat
      /\ \A i \in DOMAIN versions' : versions'[i] = v \/ (i \in DOMAIN versions /\ versions'[i] = versions[i])
  BY <1>1, <1>2, <1>3, SeqAppended
<1>6. /\ agent' \in [state : {"draft", "active", "archived", "deleted"}, published : Nat, lock : Requests \cup {NoOne}]
      /\ agent'.published = Len(versions') /\ agent'.state = "active"
  BY <1>1, <1>2, <1>5 DEF Unlocked
<1>7. /\ requests' \in [Requests -> Request] /\ requests'[r] = Over("done")
      /\ \A q \in Requests \ {r} : requests'[q] = requests[q]
  BY <1>1, <1>2, OverTyped
<1>8. TypeOK'
  BY <1>2, <1>5, <1>6, <1>7 DEF IInv, TypeOK
<1>9. \A q \in Requests \ {r} : RequestFits(q)'
  BY <1>1, <1>7, FitsStays DEF IInv, RequestsFit, Undisturbed
<1>10. RequestFits(r)'
  BY <1>7, OverTyped DEF RequestFits
<1>11. BindingsFollowSpec'
  BY <1>2, <1>4 DEF IInv, BindingsFollowSpec
<1>12. VersionsAreWhole'
  <2>1. ASSUME NEW i \in DOMAIN versions'
        PROVE  versions'[i].waited \/ versions'[i].bindings = versions'[i].spec.bases \cap bases'
    BY <1>2, <1>4, <1>5, <2>1 DEF IInv, VersionsAreWhole
  <2> QED BY <1>6, <2>1 DEF VersionsAreWhole
<1> QED BY <1>8, <1>9, <1>10, <1>11, <1>12 DEF IInv, RequestsFit

-----------------------------------------------------------------------------
(* The other writers.                                                      *)

LEMMA SetStatusStep ==
  ASSUME NoOne \notin Requests, IInv, NEW state \in {"draft", "active", "archived"}, SetStatus(state)
  PROVE  IInv'
<1>1. /\ agent' \in [state : {"draft", "active", "archived", "deleted"}, published : Nat, lock : Requests \cup {NoOne}]
      /\ agent'.published = agent.published /\ agent.lock = NoOne /\ Exists /\ Exists'
      /\ UNCHANGED <<draft, bindings, versions, bases, roles, requests>>
  BY DEF IInv, TypeOK, SetStatus, Exists
<1>2. TypeOK'
  BY <1>1 DEF IInv, TypeOK
<1>3. \A q \in Requests : RequestFits(q)'
  BY <1>1, FitsStays DEF IInv, RequestsFit, Undisturbed
<1>4. BindingsFollowSpec' /\ VersionsAreWhole'
  BY <1>1 DEF IInv, BindingsFollowSpec, VersionsAreWhole
<1> QED BY <1>2, <1>3, <1>4 DEF IInv, RequestsFit

LEMMA DeleteAgentStep ==
  ASSUME NoOne \notin Requests, IInv, DeleteAgent
  PROVE  IInv'
<1>1. /\ agent' \in [state : {"draft", "active", "archived", "deleted"}, published : Nat, lock : Requests \cup {NoOne}]
      /\ agent.lock = NoOne /\ ~Exists' /\ bindings' = {} /\ versions' = <<>>
      /\ roles' \in [Users -> Roles]
      /\ UNCHANGED <<draft, bases, requests>>
  BY DEF IInv, TypeOK, DeleteAgent, Exists, Roles
<1>2. TypeOK'
  BY <1>1 DEF IInv, TypeOK
<1>3. \A q \in Requests : RequestFits(q)'
  BY <1>1, FitsStays DEF IInv, RequestsFit, Undisturbed
<1>4. BindingsFollowSpec' /\ VersionsAreWhole'
  BY <1>1 DEF IInv, BindingsFollowSpec, VersionsAreWhole
<1> QED BY <1>2, <1>3, <1>4 DEF IInv, RequestsFit

LEMMA SetRoleStep ==
  ASSUME IInv, NEW by, NEW u \in Users, NEW role \in Roles, SetRole(by, u, role)
  PROVE  IInv'
<1>1. roles' \in [Users -> Roles] /\ UNCHANGED <<agent, draft, bindings, versions, bases, requests>>
  BY DEF IInv, TypeOK, SetRole
<1>2. TypeOK'
  BY <1>1 DEF IInv, TypeOK
<1>3. RequestsFit'
  BY <1>1 DEF IInv, RequestsFit, RequestFits, Exists
<1>4. BindingsFollowSpec' /\ VersionsAreWhole'
  BY <1>1 DEF IInv, BindingsFollowSpec, VersionsAreWhole, Exists
<1> QED BY <1>2, <1>3, <1>4 DEF IInv

\* A base goes from the bindings of the draft, and of every version.
LEMMA DeleteBaseStep ==
  ASSUME IInv, NEW b \in bases, DeleteBase(b)
  PROVE  IInv'
<1>1. /\ versions \in Seq(Version) /\ bases' = bases \ {b} /\ bindings' = bindings \ {b}
      /\ versions' = [i \in DOMAIN versions |-> [versions[i] EXCEPT !.bindings = @ \ {b}]]
      /\ UNCHANGED <<agent, draft, roles, requests>>
  BY DEF IInv, TypeOK, DeleteBase
<1>2. \A i \in DOMAIN versions :
        /\ [versions[i] EXCEPT !.bindings = @ \ {b}] \in Version
        /\ [versions[i] EXCEPT !.bindings = @ \ {b}].bindings = versions[i].bindings \ {b}
        /\ [versions[i] EXCEPT !.bindings = @ \ {b}].spec = versions[i].spec
        /\ [versions[i] EXCEPT !.bindings = @ \ {b}].waited = versions[i].waited
  <2> SUFFICES ASSUME NEW i \in DOMAIN versions, NEW v \in Version, versions[i] = v
               PROVE  /\ [v EXCEPT !.bindings = @ \ {b}] \in Version
                      /\ [v EXCEPT !.bindings = @ \ {b}].bindings = v.bindings \ {b}
                      /\ [v EXCEPT !.bindings = @ \ {b}].spec = v.spec
                      /\ [v EXCEPT !.bindings = @ \ {b}].waited = v.waited
    BY <1>1
  <2> QED BY DEF Version
<1>3. versions' \in [DOMAIN versions -> Version]
  BY <1>1, <1>2
<1>4. versions' \in Seq(Version) /\ Len(versions') = Len(versions) /\ DOMAIN versions' = DOMAIN versions
  BY <1>1, <1>3, SeqMapped
<1>5. TypeOK'
  BY <1>1, <1>4 DEF IInv, TypeOK
<1>6. \A q \in Requests : RequestFits(q)'
  BY <1>1, FitsStays DEF IInv, RequestsFit, Undisturbed, Exists
<1>7. BindingsFollowSpec'
  BY <1>1 DEF IInv, BindingsFollowSpec, Exists
<1>8. VersionsAreWhole'
  <2>1. ASSUME NEW i \in DOMAIN versions
        PROVE  versions'[i].waited \/ versions'[i].bindings = versions'[i].spec.bases \cap bases'
    <3>1. versions[i].waited \/ versions[i].bindings = versions[i].spec.bases \cap bases
      BY DEF IInv, VersionsAreWhole
    <3>2. /\ versions'[i].bindings = versions[i].bindings \ {b}
          /\ versions'[i].spec = versions[i].spec /\ versions'[i].waited = versions[i].waited
      BY <1>1, <1>2
    <3> QED BY <1>1, <3>1, <3>2
  <2> QED BY <1>1, <1>4, <2>1 DEF IInv, VersionsAreWhole, Exists
<1> QED BY <1>5, <1>6, <1>7, <1>8 DEF IInv, RequestsFit

-----------------------------------------------------------------------------
LEMMA IInvNext == ASSUME NoOne \notin Requests, IInv, [Next]_vars PROVE IInv'
<1>1. CASE UNCHANGED vars
  BY <1>1 DEF vars, IInv, TypeOK, RequestsFit, RequestFits, BindingsFollowSpec, VersionsAreWhole, Exists
<1>2. (\E r \in Requests, u \in Users \cup {Owner}, op \in {"spec", "state", "publish"}, named \in SUBSET Bases :
         Arrive(r, u, op, named)) => IInv'
  BY ArriveStep
<1>3. (\E r \in Requests : Save(r)) => IInv'
  BY BeforeWriting, SaveDraftStep DEF Save
<1>4. (\E r \in Requests : Publication(r)) => IInv'
  BY LockedForPublish, PublishStep DEF Publication
<1>5. (\E r \in Requests : Crash(r)) => IInv'
  BY RefuseStep DEF Crash
<1>6. (\E state \in {"draft", "active", "archived"} : SetStatus(state)) => IInv'
  BY SetStatusStep
<1>7. DeleteAgent => IInv'
  BY DeleteAgentStep
<1>8. (\E by \in Users \cup {Owner}, u \in Users, role \in Roles : SetRole(by, u, role)) => IInv'
  BY SetRoleStep
<1>9. (\E b \in bases : DeleteBase(b)) => IInv'
  BY DeleteBaseStep
<1>10. Manage => IInv'
  BY <1>6, <1>7, <1>8, <1>9 DEF Manage
<1> QED BY <1>1, <1>2, <1>3, <1>4, <1>5, <1>10 DEF Next

LEMMA SpecIInv == ASSUME NoOne \notin Requests PROVE Spec => []IInv
BY InitIInv, IInvNext, PTL DEF Spec

\* The state of AgentDrafts keeps its types.
THEOREM TypeCorrect == ASSUME NoOne \notin Requests PROVE Spec => []TypeOK
<1>1. IInv => TypeOK
  BY DEF IInv
<1> QED BY <1>1, SpecIInv, PTL

\* Whatever saves meet and wherever one stops, the bindings of the draft are the bases of
\* its spec that still exist (draft/route.ts:166-223).
THEOREM DraftIsBound == ASSUME NoOne \notin Requests PROVE Spec => []BindingsFollowSpec
<1>1. IInv => BindingsFollowSpec
  BY DEF IInv
<1> QED BY <1>1, SpecIInv, PTL

\* The agent runs its newest version, and a version that did not wait for a save is bound
\* to the bases its own spec names (publish/route.ts:28-64).
THEOREM PublishedWhole == ASSUME NoOne \notin Requests PROVE Spec => []VersionsAreWhole
<1>1. IInv => VersionsAreWhole
  BY DEF IInv
<1> QED BY <1>1, SpecIInv, PTL

-----------------------------------------------------------------------------
(* The editor.                                                             *)

\* What the constants must be.
EditorFits == NoAgent \notin Agents /\ NoTask \notin Tasks /\ MaxRuns \in Nat

\* A load of a draft that is not given up.
Wants(t) == tasks[t].step = "draft" /\ ~tasks[t].cancelled

TaskFits(t) ==
  /\ tasks[t].step # "free" => tasks[t].agent \in Agents
  /\ tasks[t].step \in {"free", "draft"} => ~tasks[t].holds
  /\ tasks[t].then = "latest" => tasks[t].step = "list" /\ ~tasks[t].holds
  /\ Wants(t) => editor.open /\ editor.loading = t /\ tasks[t].agent = editor.agent

PollingFits ==
  editor.polling # NoTask => tasks[editor.polling].step \in {"post", "poll", "sleep", "detail", "list"}

\* What is known of the page, whatever has crossed;
PageFits ==
  /\ editor.open => editor.agent \in Agents
  /\ editor.run \in {NoRun} \cup Runs
  /\ ~editor.lost => editor.detail \in {NoRun, editor.run}

BusyInv == PollingFits /\ PageFits /\ BusyIsWork /\ \A t \in Tasks : TaskFits(t)

\* of the run that is shown or asked for, that it is one of the agent that is edited;
Ours(r) == r # NoRun => runs[r].agent = editor.agent

\* of a handler, when none has been left over by an editor that was closed;
HandlerFits(t) ==
  /\ tasks[t].step = "draft" => tasks[t].cancelled \/ editor.draft = NoAgent
  /\ tasks[t].step \notin {"free", "draft"} =>
       editor.open /\ editor.draft # NoAgent /\ tasks[t].agent = editor.agent /\ Ours(tasks[t].run)

\* and of what is shown.
MonitorFits ==
  /\ ~editor.open => editor.draft = NoAgent
  /\ editor.draft # NoAgent =>
       editor.draft = editor.agent /\ editor.listed \in {NoAgent, editor.agent} /\ Ours(editor.run)

MonitorInv == ~editor.crossed => MonitorFits /\ \A t \in Tasks : HandlerFits(t)

-----------------------------------------------------------------------------
(* Records.                                                                *)

LEMMA EditorTyped ==
  ASSUME NEW e \in Editor
  PROVE  /\ e.open \in BOOLEAN /\ e.busy \in BOOLEAN
         /\ e.agent \in Agents \cup {NoAgent} /\ e.draft \in Agents \cup {NoAgent} /\ e.listed \in Agents \cup {NoAgent}
         /\ e.loading \in Tasks \cup {NoTask} /\ e.polling \in Tasks \cup {NoTask}
         /\ e.selected \in Runs \cup {NoRun} /\ e.run \in Runs \cup {NoRun} /\ e.detail \in Runs \cup {NoRun}
         /\ e.abandoned \in BOOLEAN /\ e.crossed \in BOOLEAN /\ e.lost \in BOOLEAN
BY DEF Editor

LEMMA TaskTyped ==
  ASSUME NEW x \in Task
  PROVE  /\ x.step \in {"free", "draft", "save", "post", "poll", "sleep", "detail", "list", "cancel"}
         /\ x.agent \in Agents \cup {NoAgent} /\ x.run \in Runs \cup {NoRun}
         /\ x.apply \in BOOLEAN /\ x.cancelled \in BOOLEAN /\ x.holds \in BOOLEAN
         /\ x.then \in {"none", "detail", "list", "latest", "poll"}
BY DEF Task

LEMMA FreeTyped ==
  /\ Free \in Task /\ Free.step = "free" /\ Free.agent = NoAgent /\ Free.run = NoRun
  /\ Free.apply = FALSE /\ Free.cancelled = FALSE /\ Free.then = "none" /\ Free.holds = FALSE
BY DEF Free, Task

\* What an action that only moves one handler does.
LEMMA GoesOn ==
  ASSUME EditorTypeOK, NEW t \in Tasks, NEW e \in Editor, NEW x \in Task, GoOn(t, e, x)
  PROVE  /\ EditorTypeOK' /\ editor' = e /\ runs' = runs
         /\ tasks'[t] = x /\ \A u \in Tasks \ {t} : tasks'[u] = tasks[u]
BY DEF EditorTypeOK, GoOn

LEMMA Begins ==
  ASSUME EditorTypeOK, NEW t \in Tasks, NEW e \in Editor, NEW x \in Task, Begin(t, e, x)
  PROVE  GoOn(t, e, x) /\ tasks[t].step = "free"
BY DEF Begin, GoOn

LEMMA Returns ==
  ASSUME EditorTypeOK, NEW t \in Tasks, NEW e \in Editor, Return(t, e, tasks)
  PROVE  /\ EditorTypeOK' /\ runs' = runs
         /\ tasks'[t] = Free /\ \A u \in Tasks \ {t} : tasks'[u] = tasks[u]
         /\ editor'.busy = (e.busy /\ ~tasks[t].holds)
         /\ editor'.loading \in {e.loading, NoTask} /\ (e.loading # t => editor'.loading = e.loading)
         /\ editor'.polling \in {e.polling, NoTask} /\ (editor'.polling = t => t = NoTask)
         /\ editor'.open = e.open /\ editor'.agent = e.agent /\ editor'.draft = e.draft /\ editor'.listed = e.listed
         /\ editor'.selected = e.selected /\ editor'.run = e.run /\ editor'.detail = e.detail
         /\ editor'.abandoned = e.abandoned /\ editor'.crossed = e.crossed /\ editor'.lost = e.lost
<1>1. tasks' = [tasks EXCEPT ![t] = Free] /\ runs' = runs
  BY DEF Return
<1>2. EditorTypeOK' /\ tasks'[t] = Free /\ \A u \in Tasks \ {t} : tasks'[u] = tasks[u]
  <2>1. e.busy \in BOOLEAN /\ e.loading \in Tasks \cup {NoTask} /\ e.polling \in Tasks \cup {NoTask} /\ tasks[t].holds \in BOOLEAN
    BY EditorTyped, TaskTyped DEF EditorTypeOK
  <2> DEFINE b == e.busy /\ ~tasks[t].holds
             l == IF e.loading = t THEN NoTask ELSE e.loading
             p == IF e.polling = t THEN NoTask ELSE e.polling
  <2>2. editor' = [e EXCEPT !.busy = b, !.loading = l, !.polling = p]
    BY DEF Return
  <2>3. b \in BOOLEAN /\ l \in Tasks \cup {NoTask} /\ p \in Tasks \cup {NoTask}
    BY <2>1
  <2>4. editor' \in Editor
    <3> HIDE DEF b, l, p
    <3> QED BY <2>2, <2>3, ZenonT(40) DEF Editor
  <2> QED BY <1>1, <2>4, FreeTyped DEF EditorTypeOK
<1> QED BY <1>1, <1>2 DEF Return, Editor

-----------------------------------------------------------------------------
(* A step of one handler.                                                  *)

\* The others go on, but for a token of a poll that is cancelled.
Alike(u) ==
  /\ tasks'[u].step = tasks[u].step /\ tasks'[u].agent = tasks[u].agent /\ tasks'[u].run = tasks[u].run
  /\ tasks'[u].then = tasks[u].then /\ tasks'[u].holds = tasks[u].holds
  /\ tasks[u].step = "draft" => tasks'[u].cancelled = tasks[u].cancelled

PollSteps == {"post", "poll", "sleep", "detail", "list"}

HandlerMoves(t) ==
  /\ EditorTypeOK'
  /\ \A u \in Tasks \ {t} : Alike(u)
  /\ \A r \in Runs : runs'[r].agent = runs[r].agent \/ runs[r].agent = NoAgent
  /\ editor'.open = editor.open /\ editor'.agent = editor.agent
  /\ editor'.abandoned = editor.abandoned /\ editor'.crossed = editor.crossed
  /\ editor'.loading = editor.loading \/ editor.loading = t \/ Wants(t)
  /\ editor'.polling \in {editor.polling, NoTask, t} /\ (editor'.polling = t => tasks'[t].step \in PollSteps)
  /\ ~editor'.lost => editor'.detail \in {NoRun, editor'.run}
  /\ editor'.busy => tasks'[t].holds \/ Wants(t)' \/ (editor.busy /\ ~tasks[t].holds /\ ~Wants(t))
  /\ TaskFits(t)'

LEMMA BusyKept ==
  ASSUME EditorFits, EditorTypeOK, BusyInv, NEW t \in Tasks, HandlerMoves(t)
  PROVE  BusyInv'
<1>1. \A u \in Tasks \ {t} : TaskFits(u)'
  BY DEF BusyInv, TaskFits, Wants, HandlerMoves, Alike
<1>2. PollingFits'
  BY EditorTyped DEF EditorFits, EditorTypeOK, BusyInv, PollingFits, HandlerMoves, Alike, PollSteps
<1>3. PageFits'
  BY EditorTyped DEF EditorTypeOK, BusyInv, PageFits, HandlerMoves
<1>4. BusyIsWork'
  BY DEF BusyInv, BusyIsWork, HandlerMoves, Alike, Wants
<1> QED BY <1>1, <1>2, <1>3, <1>4 DEF BusyInv, HandlerMoves

\* and what it does to the monitor.
MonitorMoves(t) ==
  ~editor.crossed =>
    /\ MonitorFits' /\ HandlerFits(t)'
    /\ \/ editor'.draft = editor.draft
       \/ Wants(t)
       \/ tasks[t].step \notin {"free", "draft"} /\ editor'.draft # NoAgent

LEMMA MonitorKept ==
  ASSUME EditorFits, EditorTypeOK, BusyInv, MonitorInv, NEW t \in Tasks, HandlerMoves(t), MonitorMoves(t)
  PROVE  MonitorInv'
<1> SUFFICES ASSUME ~editor.crossed PROVE MonitorFits' /\ \A u \in Tasks : HandlerFits(u)'
  BY DEF MonitorInv, HandlerMoves
<1> SUFFICES ASSUME NEW u \in Tasks \ {t} PROVE HandlerFits(u)'
  BY DEF MonitorMoves
<1>1. HandlerFits(t) /\ HandlerFits(u) /\ Alike(u) /\ (editor.open => editor.agent \in Agents)
  BY DEF MonitorInv, BusyInv, PageFits, HandlerMoves
<1>2. TaskFits(u) /\ TaskFits(t)
  BY DEF BusyInv
<1>3. tasks[u].run \in Runs \cup {NoRun}
  BY TaskTyped DEF EditorTypeOK
<1>4. tasks[u].step \notin {"free", "draft"} => Ours(tasks[u].run)'
  BY <1>1, <1>3 DEF HandlerFits, Ours, HandlerMoves, EditorFits, Alike
<1>5. CASE tasks[u].step = "draft"
  BY <1>1, <1>2, <1>5 DEF HandlerFits, Alike, TaskFits, Wants, MonitorMoves
<1>6. CASE tasks[u].step # "draft"
  BY <1>1, <1>2, <1>4, <1>6 DEF HandlerFits, Alike, TaskFits, Wants, HandlerMoves, MonitorMoves
<1> QED BY <1>5, <1>6

EditorInv == EditorFits /\ EditorTypeOK /\ BusyInv /\ MonitorInv

LEMMA Known ==
  ASSUME EditorInv, NEW t \in Tasks
  PROVE  /\ editor \in Editor /\ tasks[t] \in Task /\ NoAgent \notin Agents /\ NoTask \notin Tasks
         /\ TaskFits(t) /\ PollingFits /\ PageFits
         /\ ~editor.crossed => MonitorFits /\ HandlerFits(t)
BY DEF EditorInv, EditorFits, EditorTypeOK, BusyInv, MonitorInv

\* What a page looks like of which only the draft, the list and the run shown have changed.
Shows(e) ==
  /\ e \in Editor
  /\ e.open = editor.open /\ e.agent = editor.agent
  /\ e.abandoned = editor.abandoned /\ e.crossed = editor.crossed
  /\ ~e.lost => e.detail \in {NoRun, e.run}

Follows(t, e) ==
  ~editor.crossed =>
    /\ ~e.open => e.draft = NoAgent
    /\ e.draft # NoAgent =>
         e.draft = e.agent /\ e.listed \in {NoAgent, e.agent} /\ Ours(e.run)
    /\ \/ e.draft = editor.draft
       \/ Wants(t)
       \/ tasks[t].step \notin {"free", "draft"} /\ e.draft # NoAgent

LEMMA ReturnMoves ==
  ASSUME EditorInv, NEW t \in Tasks, NEW e, Return(t, e, tasks), Shows(e), Follows(t, e),
         e.loading = editor.loading, e.polling = editor.polling,
         e.busy => editor.busy /\ ~Wants(t)
  PROVE  HandlerMoves(t) /\ MonitorMoves(t)
<1>1. e \in Editor /\ EditorTypeOK /\ NoTask \notin Tasks
  BY DEF Shows, EditorInv, EditorFits
<1>2. /\ EditorTypeOK' /\ runs' = runs
      /\ tasks'[t] = Free /\ \A u \in Tasks \ {t} : tasks'[u] = tasks[u]
      /\ editor'.busy = (e.busy /\ ~tasks[t].holds)
      /\ editor'.loading \in {e.loading, NoTask} /\ (e.loading # t => editor'.loading = e.loading)
      /\ editor'.polling \in {e.polling, NoTask} /\ (editor'.polling = t => t = NoTask)
      /\ editor'.open = e.open /\ editor'.agent = e.agent /\ editor'.draft = e.draft /\ editor'.listed = e.listed
      /\ editor'.selected = e.selected /\ editor'.run = e.run /\ editor'.detail = e.detail
      /\ editor'.abandoned = e.abandoned /\ editor'.crossed = e.crossed /\ editor'.lost = e.lost
  BY <1>1, Returns
<1>3. TaskFits(t)' /\ HandlerFits(t)'
  BY <1>2, FreeTyped DEF TaskFits, Wants, HandlerFits
<1>4. \A u \in Tasks \ {t} : Alike(u)
  BY <1>2 DEF Alike
<1>5. HandlerMoves(t)
  BY <1>1, <1>2, <1>3, <1>4 DEF HandlerMoves, Shows
<1>6. MonitorMoves(t)
  BY <1>2, <1>3 DEF MonitorMoves, MonitorFits, Follows, Ours, Shows
<1> QED BY <1>5, <1>6

LEMMA GoOnMoves ==
  ASSUME EditorInv, NEW t \in Tasks, NEW e, NEW x \in Task, GoOn(t, e, x), Shows(e), Follows(t, e),
         e.loading = editor.loading \/ editor.loading = t \/ Wants(t),
         e.polling = editor.polling,
         tasks[t].step = "free" \/ x.step \in PollSteps,
         x.step # "draft" /\ x.step # "free" /\ x.agent \in Agents,
         x.then = "latest" => x.step = "list" /\ ~x.holds,
         e.busy => x.holds \/ (editor.busy /\ ~tasks[t].holds /\ ~Wants(t)),
         ~editor.crossed => e.open /\ e.draft # NoAgent /\ x.agent = e.agent /\ Ours(x.run)
  PROVE  HandlerMoves(t) /\ MonitorMoves(t)
<1>1. e \in Editor /\ EditorTypeOK /\ NoTask \notin Tasks /\ PollingFits
  BY DEF Shows, EditorInv, EditorFits, BusyInv
<1>2. /\ EditorTypeOK' /\ editor' = e /\ runs' = runs
      /\ tasks'[t] = x /\ \A u \in Tasks \ {t} : tasks'[u] = tasks[u]
  BY <1>1, GoesOn
<1>3. TaskFits(t)' /\ ~Wants(t)'
  BY <1>2 DEF TaskFits, Wants
<1>4. ~editor.crossed => HandlerFits(t)'
  BY <1>2 DEF HandlerFits, Ours, Shows
<1>5. \A u \in Tasks \ {t} : Alike(u)
  BY <1>2 DEF Alike
<1>6. editor'.polling = t => tasks'[t].step \in PollSteps
  BY <1>1, <1>2 DEF PollingFits, PollSteps
<1>7. HandlerMoves(t)
  BY <1>2, <1>3, <1>5, <1>6 DEF HandlerMoves, Shows
<1>8. MonitorMoves(t)
  BY <1>2, <1>4 DEF MonitorMoves, MonitorFits, Follows, Ours, Shows
<1> QED BY <1>7, <1>8

-----------------------------------------------------------------------------
(* The actions.                                                            *)

LEMMA DraftLoadedMoves ==
  ASSUME EditorInv, NEW t \in Tasks, DraftLoaded(t)
  PROVE  HandlerMoves(t) /\ MonitorMoves(t)
<1> USE Known
<1>1. CASE (tasks[t].cancelled \/ ~editor.open) /\ Return(t, [editor EXCEPT !.busy = @ /\ tasks[t].cancelled], tasks)
  <2> DEFINE e == [editor EXCEPT !.busy = @ /\ tasks[t].cancelled]
  <2>1. e \in Editor
    BY EditorTyped, TaskTyped DEF Editor
  <2>2. Shows(e) /\ Follows(t, e) /\ e.loading = editor.loading /\ e.polling = editor.polling
    BY <2>1 DEF Shows, Follows, Editor, PageFits, MonitorFits
  <2>3. e.busy => editor.busy /\ ~Wants(t)
    BY EditorTyped DEF Wants, Editor
  <2> QED BY <1>1, <2>2, <2>3, ReturnMoves
<1>2. CASE /\ ~tasks[t].cancelled /\ editor.open
           /\ GoOn(t, [editor EXCEPT !.draft = tasks[t].agent, !.selected = NoRun, !.run = NoRun, !.detail = NoRun,
                                     !.listed = NoAgent, !.loading = NoTask, !.busy = FALSE],
                   [Free EXCEPT !.step = "list", !.agent = tasks[t].agent, !.then = "latest"])
  <2> DEFINE e == [editor EXCEPT !.draft = tasks[t].agent, !.selected = NoRun, !.run = NoRun, !.detail = NoRun,
                                 !.listed = NoAgent, !.loading = NoTask, !.busy = FALSE]
             x == [Free EXCEPT !.step = "list", !.agent = tasks[t].agent, !.then = "latest"]
  <2>1. Wants(t) /\ tasks[t].agent \in Agents /\ tasks[t].agent = editor.agent
    BY <1>2 DEF DraftLoaded, TaskFits, Wants
  <2>2. e \in Editor /\ x \in Task
    <3>1. e \in Editor
      BY <2>1 DEF Editor
    <3>2. x \in Task
      BY <2>1, FreeTyped DEF Task
    <3> QED BY <3>1, <3>2
  <2>3. Shows(e) /\ Follows(t, e) /\ e.polling = editor.polling /\ ~e.busy /\ (e.open /\ e.draft = editor.agent /\ e.agent = editor.agent)
    BY <1>2, <2>1, <2>2 DEF Shows, Follows, Editor, Ours
  <2>4. x.step = "list" /\ x.agent = tasks[t].agent /\ x.run = NoRun /\ ~x.holds
    BY FreeTyped DEF Task
  <2> HIDE DEF e, x
  <2>5. GoOn(t, e, x)
    BY <1>2 DEF e, x
  <2> QED BY <2>1, <2>2, <2>3, <2>4, <2>5, GoOnMoves DEF PollSteps, Ours
<1>3. CASE /\ ~tasks[t].cancelled /\ editor.open
           /\ Return(t, [editor EXCEPT !.draft = NoAgent, !.listed = NoAgent, !.busy = FALSE], tasks)
  <2> DEFINE e == [editor EXCEPT !.draft = NoAgent, !.listed = NoAgent, !.busy = FALSE]
  <2>1. e \in Editor /\ Wants(t)
    BY <1>3 DEF Editor, DraftLoaded, Wants
  <2>2. Shows(e) /\ Follows(t, e) /\ e.loading = editor.loading /\ e.polling = editor.polling /\ ~e.busy
    BY <2>1 DEF Shows, Follows, Editor, PageFits
  <2> HIDE DEF e
  <2> QED BY <1>3, <2>2, ReturnMoves DEF e
<1> QED BY <1>1, <1>2, <1>3 DEF DraftLoaded

LEMMA SaveMoves ==
  ASSUME EditorInv, NEW t \in Tasks, SaveOrPublish(t)
  PROVE  HandlerMoves(t) /\ MonitorMoves(t)
<1> USE Known
<1> DEFINE e == [editor EXCEPT !.busy = TRUE]
           x == [Free EXCEPT !.step = "save", !.agent = editor.draft, !.holds = TRUE]
<1>1. GoOn(t, e, x) /\ tasks[t].step = "free" /\ editor.open /\ editor.draft # NoAgent /\ editor.draft \in Agents
  BY EditorTyped DEF SaveOrPublish, Begin, GoOn
<1>2. e \in Editor /\ x \in Task
  BY <1>1, FreeTyped DEF Editor, Task
<1>3. Shows(e) /\ Follows(t, e) /\ e.loading = editor.loading /\ e.polling = editor.polling
      /\ e.open = editor.open /\ e.draft = editor.draft /\ e.agent = editor.agent
  BY <1>2 DEF Shows, Follows, Editor, PageFits, MonitorFits
<1>4. x.step = "save" /\ x.agent = editor.draft /\ x.run = NoRun /\ x.holds = TRUE /\ x.then = "none"
  BY FreeTyped DEF Task
<1>5. ~editor.crossed => editor.draft = editor.agent
  BY <1>1 DEF MonitorFits
<1> HIDE DEF e, x
<1> QED BY <1>1, <1>2, <1>3, <1>4, <1>5, GoOnMoves DEF PollSteps, Ours

LEMMA DraftSavedMoves ==
  ASSUME EditorInv, NEW t \in Tasks, DraftSaved(t)
  PROVE  HandlerMoves(t) /\ MonitorMoves(t)
<1> USE Known
<1>1. tasks[t].step = "save" /\ tasks[t].agent \in Agents /\ ~Wants(t)
  BY DEF DraftSaved, TaskFits, Wants
<1>2. CASE Return(t, [editor EXCEPT !.draft = tasks[t].agent], tasks)
  <2> DEFINE e == [editor EXCEPT !.draft = tasks[t].agent]
  <2>1. e \in Editor
    BY <1>1 DEF Editor
  <2>2. Shows(e) /\ Follows(t, e) /\ e.loading = editor.loading /\ e.polling = editor.polling /\ e.busy = editor.busy
    BY <1>1, <2>1 DEF Shows, Follows, Editor, PageFits, MonitorFits, HandlerFits
  <2> HIDE DEF e
  <2> QED BY <1>1, <1>2, <2>2, ReturnMoves DEF e
<1>3. CASE Return(t, editor, tasks)
  <2>1. Shows(editor) /\ Follows(t, editor)
    BY DEF Shows, Follows, PageFits, MonitorFits
  <2> QED BY <1>1, <1>3, <2>1, ReturnMoves
<1> QED BY <1>2, <1>3 DEF DraftSaved

-----------------------------------------------------------------------------
(* The actions of the monitor.                                             *)

LEMMA Working ==
  ASSUME EditorInv, NEW t \in Tasks, tasks[t].step \notin {"free", "draft"}
  PROVE  /\ tasks[t].agent \in Agents /\ tasks[t].run \in Runs \cup {NoRun} /\ ~Wants(t)
         /\ ~editor.crossed =>
              /\ editor.open /\ editor.draft # NoAgent /\ editor.draft = editor.agent
              /\ tasks[t].agent = editor.agent /\ editor.listed \in {NoAgent, editor.agent}
              /\ Ours(tasks[t].run) /\ Ours(editor.run)
BY Known, TaskTyped DEF TaskFits, Wants, HandlerFits, MonitorFits

\* A page of which only the monitor has changed.
Alters(t, e) ==
  /\ Shows(e)
  /\ e.loading = editor.loading /\ e.polling = editor.polling /\ e.busy = editor.busy /\ e.draft = editor.draft
  /\ ~editor.crossed /\ editor.draft # NoAgent => e.listed \in {NoAgent, editor.agent} /\ Ours(e.run)

LEMMA AltersFollows ==
  ASSUME EditorInv, NEW t \in Tasks, NEW e, Alters(t, e)
  PROVE  Shows(e) /\ Follows(t, e)
BY Known DEF Alters, Shows, Follows, MonitorFits

LEMMA SameAlters ==
  ASSUME EditorInv, NEW t \in Tasks
  PROVE  Alters(t, editor)
BY Known DEF Alters, Shows, PageFits, MonitorFits

LEMMA FailedAlters ==
  ASSUME EditorInv, NEW t \in Tasks
  PROVE  Alters(t, [editor EXCEPT !.lost = TRUE])
<1> DEFINE e == [editor EXCEPT !.lost = TRUE]
<1>1. e \in Editor
  BY Known DEF Editor
<1> QED BY <1>1, Known DEF Alters, Shows, PageFits, MonitorFits, Editor

LEMMA AppliedAlters ==
  ASSUME EditorInv, NEW t \in Tasks, tasks[t].step \notin {"free", "draft"}
  PROVE  Alters(t, Applied(t))
<1>1. CASE ~tasks[t].apply
  BY <1>1, SameAlters DEF Applied
<1>2. CASE tasks[t].apply
  <2> DEFINE e == [editor EXCEPT !.selected = tasks[t].run, !.run = tasks[t].run, !.detail = tasks[t].run]
  <2>1. e \in Editor
    BY Known, Working DEF Editor
  <2>2. Alters(t, e)
    BY <2>1, Known, Working DEF Alters, Shows, Editor
  <2> QED BY <1>2, <2>2 DEF Applied
<1> QED BY <1>1, <1>2

LEMMA ReturnKeeps ==
  ASSUME EditorInv, NEW t \in Tasks, tasks[t].step \notin {"free", "draft"},
         NEW e, Alters(t, e), Return(t, e, tasks)
  PROVE  HandlerMoves(t) /\ MonitorMoves(t)
BY AltersFollows, ReturnMoves, Working DEF Alters

LEMMA GoOnKeeps ==
  ASSUME EditorInv, NEW t \in Tasks, tasks[t].step \notin {"free", "draft"},
         NEW e, Alters(t, e), NEW x \in Task, GoOn(t, e, x),
         x.step \in PollSteps, x.agent = tasks[t].agent, x.run = tasks[t].run, x.holds = tasks[t].holds,
         x.then # "latest"
  PROVE  HandlerMoves(t) /\ MonitorMoves(t)
<1>1. Shows(e) /\ Follows(t, e)
  BY AltersFollows
<1>2. tasks[t].holds \in BOOLEAN /\ x.step # "free" /\ x.step # "draft"
  BY Known, TaskTyped DEF PollSteps
<1> QED BY <1>1, <1>2, GoOnMoves, Working DEF Alters, Shows

LEMMA BeginKeeps ==
  ASSUME EditorInv, NEW t \in Tasks, NEW e, Alters(t, e), NEW x \in Task, Begin(t, e, x),
         editor.open, editor.draft # NoAgent, x.agent = editor.draft,
         x.step \notin {"free", "draft"}, x.then # "latest", ~x.holds,
         ~editor.crossed => Ours(x.run)
  PROVE  HandlerMoves(t) /\ MonitorMoves(t)
<1>1. Shows(e) /\ Follows(t, e)
  BY AltersFollows
<1>2. GoOn(t, e, x) /\ tasks[t].step = "free" /\ ~Wants(t) /\ ~tasks[t].holds /\ editor.draft \in Agents
  BY Known, EditorTyped DEF Begin, GoOn, Wants, TaskFits
<1>3. ~editor.crossed => editor.draft = editor.agent
  BY Known DEF MonitorFits
<1> QED BY <1>1, <1>2, <1>3, GoOnMoves DEF Alters, Shows

LEMMA ListedMoves ==
  ASSUME EditorInv, NEW t \in Tasks, Listed(t)
  PROVE  HandlerMoves(t) /\ MonitorMoves(t)
<1> DEFINE a == tasks[t].agent
           e == [editor EXCEPT !.listed = a]
<1>1. tasks[t].step = "list" /\ a \in Agents
  BY Working DEF Listed
<1>2. CASE Return(t, [e EXCEPT !.selected = NoRun, !.run = NoRun, !.detail = NoRun], tasks)
  <2> DEFINE f == [e EXCEPT !.selected = NoRun, !.run = NoRun, !.detail = NoRun]
  <2>1. f \in Editor
    BY <1>1, Known DEF Editor
  <2>2. Alters(t, f)
    BY <1>1, <2>1, Known, Working DEF Alters, Shows, Editor, Ours
  <2> HIDE DEF f
  <2> QED BY <1>1, <1>2, <2>2, ReturnKeeps DEF f
<1>3. CASE /\ tasks[t].then = "latest"
           /\ \E r \in Latest(a) :
                GoOn(t, [e EXCEPT !.selected = r, !.run = r, !.lost = @ \/ editor.detail # NoRun],
                     [Free EXCEPT !.step = "detail", !.agent = a, !.run = r, !.apply = TRUE])
  <2>1. PICK r \in Latest(a) :
               GoOn(t, [e EXCEPT !.selected = r, !.run = r, !.lost = @ \/ editor.detail # NoRun],
                    [Free EXCEPT !.step = "detail", !.agent = a, !.run = r, !.apply = TRUE])
    BY <1>3
  <2> DEFINE f == [e EXCEPT !.selected = r, !.run = r, !.lost = @ \/ editor.detail # NoRun]
             x == [Free EXCEPT !.step = "detail", !.agent = a, !.run = r, !.apply = TRUE]
  <2>2. r \in Runs /\ runs[r].agent = a
    BY DEF Latest, RunsOf
  <2>3. f \in Editor
    <3> DEFINE l == editor.lost \/ editor.detail # NoRun
    <3>1. l \in BOOLEAN /\ f = [editor EXCEPT !.listed = a, !.selected = r, !.run = r, !.lost = l]
      BY Known DEF Editor
    <3> HIDE DEF l
    <3> QED BY <1>1, <2>2, <3>1, Known, ZenonT(40) DEF Editor
  <2>4. x \in Task
    BY <1>1, <2>2, FreeTyped DEF Task
  <2>5. Alters(t, f)
    BY <1>1, <2>2, <2>3, Known, Working, EditorTyped DEF Alters, Shows, Editor, Ours
  <2>6. Shows(f) /\ Follows(t, f)
    BY <2>5, AltersFollows
  <2>7. x.step = "detail" /\ x.agent = a /\ x.run = r /\ ~x.holds /\ x.then = "none"
    BY FreeTyped DEF Task
  <2>8. ~tasks[t].holds /\ ~Wants(t)
    BY <1>1, <1>3, Known DEF TaskFits, Wants
  <2>9. GoOn(t, f, x)
    BY <2>1
  <2> HIDE DEF f, x
  <2> QED BY <1>1, <2>2, <2>4, <2>5, <2>6, <2>7, <2>8, <2>9, Working, GoOnMoves DEF Alters, Shows, PollSteps, Ours
<1>4. CASE Return(t, e, tasks)
  <2>1. e \in Editor
    BY <1>1, Known DEF Editor
  <2>2. Alters(t, e)
    BY <1>1, <2>1, Known, Working DEF Alters, Shows, Editor, PageFits
  <2> HIDE DEF e
  <2> QED BY <1>1, <1>4, <2>2, ReturnKeeps
<1>5. CASE Return(t, editor, tasks)
  BY <1>1, <1>5, SameAlters, ReturnKeeps
<1> QED BY <1>2, <1>3, <1>4, <1>5 DEF Listed

LEMMA RefreshMoves ==
  ASSUME EditorInv, NEW t \in Tasks, RefreshHistory(t)
  PROVE  HandlerMoves(t) /\ MonitorMoves(t)
<1> DEFINE x == [Free EXCEPT !.step = "list", !.agent = editor.draft]
<1>1. x \in Task /\ x.step = "list" /\ x.agent = editor.draft /\ ~x.holds /\ x.then = "none" /\ x.run = NoRun
  BY Known, EditorTyped, FreeTyped DEF Task
<1>2. Begin(t, editor, x) /\ editor.open /\ editor.draft # NoAgent
  BY DEF RefreshHistory
<1> HIDE DEF x
<1> QED BY <1>1, <1>2, SameAlters, BeginKeeps DEF Ours

LEMMA OpenRunMoves ==
  ASSUME EditorInv, NEW t \in Tasks, NEW r \in Runs, OpenRun(t, r)
  PROVE  HandlerMoves(t) /\ MonitorMoves(t)
<1> DEFINE e == [editor EXCEPT !.selected = r, !.run = r, !.detail = NoRun]
           x == [Free EXCEPT !.step = "detail", !.agent = editor.draft, !.run = r, !.apply = TRUE]
<1>1. x \in Task /\ x.step = "detail" /\ x.agent = editor.draft /\ ~x.holds /\ x.then = "none" /\ x.run = r
  BY Known, EditorTyped, FreeTyped DEF Task
<1>2. Begin(t, e, x) /\ editor.open /\ editor.draft # NoAgent /\ runs[r].agent = editor.listed /\ runs[r].agent # NoAgent
  BY DEF OpenRun
<1>3. e \in Editor
  BY Known DEF Editor
<1>4. ~editor.crossed => runs[r].agent = editor.agent
  BY <1>2, Known DEF MonitorFits
<1>5. Alters(t, e)
  BY <1>2, <1>3, <1>4, Known DEF Alters, Shows, Editor, Ours, MonitorFits
<1> HIDE DEF e, x
<1> QED BY <1>1, <1>2, <1>4, <1>5, BeginKeeps DEF Ours

LEMMA FetchedMoves ==
  ASSUME EditorInv, NEW t \in Tasks, DetailFetched(t)
  PROVE  HandlerMoves(t) /\ MonitorMoves(t)
<1>1. tasks[t].step = "detail"
  BY DEF DetailFetched
<1>2. PICK fails \in BOOLEAN :
        LET e == IF fails THEN [editor EXCEPT !.lost = TRUE] ELSE Applied(t) IN
        IF tasks[t].then = "list"
        THEN GoOn(t, e, [tasks[t] EXCEPT !.step = "list", !.then = "none", !.apply = FALSE])
        ELSE Return(t, e, tasks)
  BY DEF DetailFetched
<1> DEFINE e == IF fails THEN [editor EXCEPT !.lost = TRUE] ELSE Applied(t)
           x == [tasks[t] EXCEPT !.step = "list", !.then = "none", !.apply = FALSE]
<1>3. Alters(t, e)
  BY <1>1, FailedAlters, AppliedAlters
<1>4. x \in Task /\ x.step = "list" /\ x.agent = tasks[t].agent /\ x.run = tasks[t].run
      /\ x.holds = tasks[t].holds /\ x.then = "none"
  BY Known DEF Task
<1>5. GoOn(t, e, x) \/ Return(t, e, tasks)
  BY <1>2
<1> HIDE DEF e, x
<1> QED BY <1>1, <1>3, <1>4, <1>5, GoOnKeeps, ReturnKeeps DEF PollSteps

LEMMA RunFailsMoves ==
  ASSUME EditorInv, NEW t \in Tasks, RunFails(t)
  PROVE  HandlerMoves(t) /\ MonitorMoves(t)
BY FailedAlters, ReturnKeeps DEF RunFails

LEMMA PollEndsMoves ==
  ASSUME EditorInv, NEW t \in Tasks, tasks[t].step \notin {"free", "draft"},
         NEW e, Alters(t, e), PollEnds(t, e)
  PROVE  HandlerMoves(t) /\ MonitorMoves(t)
<1> DEFINE x == [tasks[t] EXCEPT !.step = "detail", !.apply = TRUE, !.then = "list"]
           y == [tasks[t] EXCEPT !.step = "list", !.apply = FALSE, !.then = "none"]
<1>1. x \in Task /\ x.step = "detail" /\ x.agent = tasks[t].agent /\ x.run = tasks[t].run
      /\ x.holds = tasks[t].holds /\ x.then = "list"
  BY Known DEF Task
<1>2. y \in Task /\ y.step = "list" /\ y.agent = tasks[t].agent /\ y.run = tasks[t].run
      /\ y.holds = tasks[t].holds /\ y.then = "none"
  BY Known DEF Task
<1>3. Return(t, e, tasks) \/ GoOn(t, e, x) \/ GoOn(t, e, y)
  BY DEF PollEnds
<1> HIDE DEF x, y
<1> QED BY <1>1, <1>2, <1>3, GoOnKeeps, ReturnKeeps DEF PollSteps

LEMMA PolledMoves ==
  ASSUME EditorInv, NEW t \in Tasks, Polled(t) \/ PollFails(t) \/ PollAgain(t)
  PROVE  HandlerMoves(t) /\ MonitorMoves(t)
<1> DEFINE x == [tasks[t] EXCEPT !.step = "sleep", !.apply = FALSE]
           y == Polling(editor, tasks[t])
<1>1. tasks[t].step \in {"poll", "sleep"}
  BY DEF Polled, PollFails, PollAgain
<1>2. Alters(t, Applied(t)) /\ Alters(t, editor) /\ Alters(t, [editor EXCEPT !.lost = TRUE])
  BY <1>1, AppliedAlters, SameAlters, FailedAlters
<1>3. \/ \E e \in {Applied(t), editor} : PollEnds(t, e)
      \/ \E e \in {Applied(t), editor, [editor EXCEPT !.lost = TRUE]} : GoOn(t, e, x) \/ GoOn(t, e, y) \/ Return(t, e, tasks)
  BY DEF Polled, PollFails, PollAgain
<1>4. x \in Task /\ x.step = "sleep" /\ x.agent = tasks[t].agent /\ x.run = tasks[t].run
      /\ x.holds = tasks[t].holds /\ x.then = tasks[t].then
  BY Known DEF Task
<1>5. y \in Task /\ y.step = "poll" /\ y.agent = tasks[t].agent /\ y.run = tasks[t].run
      /\ y.holds = tasks[t].holds /\ y.then = tasks[t].then
  BY Known DEF Task, Polling
<1>6. tasks[t].then # "latest"
  BY <1>1, Known DEF TaskFits
<1> HIDE DEF x, y
<1>7. CASE \E e \in {Applied(t), editor} : PollEnds(t, e)
  BY <1>1, <1>2, <1>7, PollEndsMoves
<1>8. CASE \E e \in {Applied(t), editor, [editor EXCEPT !.lost = TRUE]} : GoOn(t, e, x) \/ GoOn(t, e, y) \/ Return(t, e, tasks)
  <2>1. PICK e \in {Applied(t), editor, [editor EXCEPT !.lost = TRUE]} : GoOn(t, e, x) \/ GoOn(t, e, y) \/ Return(t, e, tasks)
    BY <1>8
  <2>2. Alters(t, e)
    BY <1>2
  <2> QED BY <1>1, <1>4, <1>5, <1>6, <2>1, <2>2, GoOnKeeps, ReturnKeeps DEF PollSteps
<1> QED BY <1>3, <1>7, <1>8

LEMMA CancelRunMoves ==
  ASSUME EditorInv, NEW t \in Tasks, CancelRun(t)
  PROVE  HandlerMoves(t) /\ MonitorMoves(t)
<1> DEFINE x == [Free EXCEPT !.step = "cancel", !.agent = editor.draft, !.run = editor.run, !.then = "list"]
<1>1. x \in Task /\ x.step = "cancel" /\ x.agent = editor.draft /\ ~x.holds /\ x.then = "list" /\ x.run = editor.run
  BY Known, EditorTyped, FreeTyped DEF Task
<1>2. Begin(t, editor, x) /\ editor.open /\ editor.draft # NoAgent
  BY DEF CancelRun
<1>3. ~editor.crossed => Ours(editor.run)
  BY <1>2, Known DEF MonitorFits
<1> HIDE DEF x
<1> QED BY <1>1, <1>2, <1>3, SameAlters, BeginKeeps

\* A token that is cancelled changes nothing else of its handler.
LEMMA Cancelled ==
  ASSUME NEW ts \in [Tasks -> Task], NEW c
  PROVE  /\ CancelToken(ts, c) \in [Tasks -> Task]
         /\ \A u \in Tasks :
              /\ CancelToken(ts, c)[u].step = ts[u].step /\ CancelToken(ts, c)[u].agent = ts[u].agent
              /\ CancelToken(ts, c)[u].run = ts[u].run /\ CancelToken(ts, c)[u].then = ts[u].then
              /\ CancelToken(ts, c)[u].holds = ts[u].holds /\ CancelToken(ts, c)[u].apply = ts[u].apply
              /\ CancelToken(ts, c)[u].cancelled = (ts[u].cancelled \/ (u = c /\ ts[u].step # "free"))
<1> SUFFICES ASSUME NEW u \in Tasks
             PROVE  /\ CancelToken(ts, c)[u] \in Task
                    /\ CancelToken(ts, c)[u].step = ts[u].step /\ CancelToken(ts, c)[u].agent = ts[u].agent
                    /\ CancelToken(ts, c)[u].run = ts[u].run /\ CancelToken(ts, c)[u].then = ts[u].then
                    /\ CancelToken(ts, c)[u].holds = ts[u].holds /\ CancelToken(ts, c)[u].apply = ts[u].apply
                    /\ CancelToken(ts, c)[u].cancelled = (ts[u].cancelled \/ (u = c /\ ts[u].step # "free"))
  BY DEF CancelToken
<1>1. ts[u] \in Task
  OBVIOUS
<1>2. CASE u = c /\ ts[u].step # "free"
  <2>1. CancelToken(ts, c)[u] = [ts[u] EXCEPT !.cancelled = TRUE]
    BY <1>2 DEF CancelToken
  <2> QED BY <1>1, <1>2, <2>1 DEF Task
<1>3. CASE ~(u = c /\ ts[u].step # "free")
  <2>1. CancelToken(ts, c)[u] = ts[u]
    BY <1>3 DEF CancelToken
  <2> QED BY <1>1, <1>3, <2>1, TaskTyped
<1> QED BY <1>2, <1>3

LEMMA RunAgentMoves ==
  ASSUME EditorInv, NEW t \in Tasks, NEW mode \in {"sync", "async"}, RunAgent(t, mode)
  PROVE  HandlerMoves(t) /\ MonitorMoves(t)
<1> DEFINE e == [editor EXCEPT !.busy = TRUE, !.selected = NoRun, !.run = NoRun, !.detail = NoRun, !.polling = t]
           x == [Free EXCEPT !.step = "post", !.agent = editor.draft, !.holds = TRUE,
                             !.then = IF mode = "async" THEN "poll" ELSE "detail"]
           ts == CancelToken(tasks, editor.polling)
<1>1. tasks[t].step = "free" /\ editor.open /\ editor.draft \in Agents
      /\ editor' = e /\ tasks' = [ts EXCEPT ![t] = x] /\ runs' = runs
  BY Known, EditorTyped DEF RunAgent
<1>2. x \in Task /\ x.step = "post" /\ x.agent = editor.draft /\ x.run = NoRun /\ x.holds /\ x.then \in {"poll", "detail"}
  BY <1>1, FreeTyped DEF Task
<1>3. e \in Editor /\ e.open = editor.open /\ e.agent = editor.agent /\ e.draft = editor.draft /\ e.listed = editor.listed
      /\ e.abandoned = editor.abandoned /\ e.crossed = editor.crossed /\ e.loading = editor.loading
      /\ e.polling = t /\ e.detail = NoRun /\ e.run = NoRun
  BY Known DEF Editor
<1>4. tasks \in [Tasks -> Task] /\ runs \in [Runs -> [agent : Agents \cup {NoAgent}, over : BOOLEAN]]
  BY DEF EditorInv, EditorTypeOK
<1>5. ts \in [Tasks -> Task]
  BY <1>4, Cancelled
<1>6. \A u \in Tasks : ts[u].step = tasks[u].step /\ ts[u].agent = tasks[u].agent /\ ts[u].run = tasks[u].run
                    /\ ts[u].then = tasks[u].then /\ ts[u].holds = tasks[u].holds
                    /\ ts[u].cancelled = (tasks[u].cancelled \/ (u = editor.polling /\ tasks[u].step # "free"))
  BY <1>4, Cancelled
<1>7. \A u \in Tasks : tasks[u].step = "draft" => u # editor.polling
  BY Known DEF PollingFits
<1>8. \A u \in Tasks : tasks[u].step = "draft" => ts[u].cancelled = tasks[u].cancelled
  BY <1>4, <1>6, <1>7, TaskTyped
<1> HIDE DEF e, x, ts
<1>9. tasks'[t] = x /\ \A u \in Tasks \ {t} : tasks'[u] = ts[u]
  BY <1>1, <1>5
<1>10. EditorTypeOK' /\ \A u \in Tasks \ {t} : Alike(u)
  <2>1. tasks' \in [Tasks -> Task]
    BY <1>1, <1>2, <1>5
  <2>2. \A u \in Tasks \ {t} : Alike(u)
    BY <1>6, <1>8, <1>9 DEF Alike
  <2> QED BY <1>1, <1>3, <1>4, <2>1, <2>2 DEF EditorTypeOK
<1>11. TaskFits(t)'
  BY <1>1, <1>2, <1>9 DEF TaskFits, Wants
<1>12. HandlerMoves(t)
  BY <1>1, <1>2, <1>3, <1>9, <1>10, <1>11 DEF HandlerMoves, PollSteps
<1>13. MonitorMoves(t)
  BY <1>1, <1>2, <1>3, <1>9, Known DEF MonitorMoves, MonitorFits, HandlerFits, Ours
<1> QED BY <1>12, <1>13

LEMMA RunStartedMoves ==
  ASSUME EditorInv, NEW t \in Tasks, RunStarted(t)
  PROVE  HandlerMoves(t) /\ MonitorMoves(t)
<1>1. tasks[t].step = "post" /\ tasks[t].agent \in Agents /\ ~Wants(t)
  BY Working DEF RunStarted
<1>2. PICK r \in Unused, over \in BOOLEAN :
        LET e    == [editor EXCEPT !.selected = r, !.run = r, !.lost = @ \/ editor.detail # NoRun]
            task == [tasks[t] EXCEPT !.run = r]
        IN  /\ \A q \in Unused : r <= q
            /\ over => tasks[t].then # "poll"
            /\ runs' = [runs EXCEPT ![r] = [agent |-> tasks[t].agent, over |-> over]]
            /\ IF over /\ (task.cancelled \/ ~editor.open)
               THEN /\ editor' = [e EXCEPT !.busy = FALSE, !.polling = IF @ = t THEN NoTask ELSE @]
                    /\ tasks' = [tasks EXCEPT ![t] = Free]
               ELSE IF over
               THEN /\ editor' = e
                    /\ tasks' = [tasks EXCEPT ![t] = [task EXCEPT !.step = "detail", !.apply = TRUE, !.then = "list"]]
               ELSE /\ editor' = [e EXCEPT !.busy = task.then # "poll"]
                    /\ tasks' = [tasks EXCEPT ![t] = [Polling(e, task) EXCEPT !.holds = task.then # "poll"]]
  BY DEF RunStarted
<1> DEFINE l == editor.lost \/ editor.detail # NoRun
           e == [editor EXCEPT !.selected = r, !.run = r, !.lost = l]
           task == [tasks[t] EXCEPT !.run = r]
           waits == tasks[t].then # "poll"
           x == [task EXCEPT !.step = "detail", !.apply = TRUE, !.then = "list"]
           y == [Polling(e, task) EXCEPT !.holds = waits]
           p == IF editor.polling = t THEN NoTask ELSE editor.polling
           f == [e EXCEPT !.busy = FALSE, !.polling = p]
           g == [e EXCEPT !.busy = waits]
<1>3. r \in Runs /\ runs[r].agent = NoAgent
  BY DEF Unused
<1>4. l \in BOOLEAN /\ waits \in BOOLEAN /\ p \in Tasks \cup {NoTask} /\ task \in Task
  BY <1>3, Known, EditorTyped DEF Task
<1>5. e = [editor EXCEPT !.selected = r, !.run = r, !.lost = @ \/ editor.detail # NoRun] /\ task.then = tasks[t].then
      /\ f = [e EXCEPT !.busy = FALSE, !.polling = IF @ = t THEN NoTask ELSE @]
  BY Known DEF Editor, Task
<1>6. /\ runs' = [runs EXCEPT ![r] = [agent |-> tasks[t].agent, over |-> over]]
      /\ \/ editor' = f /\ tasks' = [tasks EXCEPT ![t] = Free]
         \/ editor' = e /\ tasks' = [tasks EXCEPT ![t] = x]
         \/ editor' = g /\ tasks' = [tasks EXCEPT ![t] = y]
  BY <1>2, <1>5
<1>7. l \/ editor.detail = NoRun
  OBVIOUS
<1>8. e \in Editor /\ e.open = editor.open /\ e.agent = editor.agent /\ e.draft = editor.draft /\ e.listed = editor.listed
      /\ e.abandoned = editor.abandoned /\ e.crossed = editor.crossed /\ e.loading = editor.loading
      /\ e.polling = editor.polling /\ e.busy = editor.busy /\ e.detail = editor.detail /\ e.run = r /\ e.lost = l
  <2> HIDE DEF l
  <2> QED BY <1>3, <1>4, Known DEF Editor
<1>9. \A h \in {e, f, g} :
         /\ h \in Editor /\ h.open = editor.open /\ h.agent = editor.agent /\ h.draft = editor.draft /\ h.listed = editor.listed
         /\ h.abandoned = editor.abandoned /\ h.crossed = editor.crossed /\ h.loading = editor.loading
         /\ h.detail = editor.detail /\ h.run = r /\ h.lost = l
  <2> HIDE DEF l, e, p, waits
  <2>1. /\ f \in Editor /\ f.open = editor.open /\ f.agent = editor.agent /\ f.draft = editor.draft /\ f.listed = editor.listed
        /\ f.abandoned = editor.abandoned /\ f.crossed = editor.crossed /\ f.loading = editor.loading
        /\ f.detail = editor.detail /\ f.run = r /\ f.lost = l
    <3> HIDE DEF g, x, y, task
    <3>1. f \in Editor
      BY <1>4, <1>8 DEF Editor
    <3>2. f.open = e.open /\ f.agent = e.agent /\ f.draft = e.draft /\ f.listed = e.listed
          /\ f.abandoned = e.abandoned /\ f.crossed = e.crossed /\ f.loading = e.loading
          /\ f.detail = e.detail /\ f.run = e.run /\ f.lost = e.lost
      BY <1>8 DEF Editor
    <3> HIDE DEF f
    <3> QED BY <1>8, <3>1, <3>2
  <2>2. /\ g \in Editor /\ g.open = editor.open /\ g.agent = editor.agent /\ g.draft = editor.draft /\ g.listed = editor.listed
        /\ g.abandoned = editor.abandoned /\ g.crossed = editor.crossed /\ g.loading = editor.loading
        /\ g.detail = editor.detail /\ g.run = r /\ g.lost = l
    BY <1>4, <1>8 DEF Editor
  <2> HIDE DEF f, g
  <2> QED BY <1>8, <2>1, <2>2
<1>10. f.busy = FALSE /\ f.polling = p /\ g.busy = waits /\ g.polling = editor.polling
  <2> HIDE DEF l, e, p, waits
  <2> QED BY <1>8 DEF Editor
<1>11. x \in Task /\ x.step = "detail" /\ x.agent = tasks[t].agent /\ x.run = r /\ x.holds = tasks[t].holds /\ x.then = "list"
  BY <1>3, <1>4, Known DEF Task
<1>12. y \in Task /\ y.step = "poll" /\ y.agent = tasks[t].agent /\ y.run = r /\ y.holds = waits /\ y.then = tasks[t].then
  <2> HIDE DEF e, waits
  <2>1. (e.selected = task.run) \in BOOLEAN
    OBVIOUS
  <2> QED BY <1>3, <1>4, <2>1, Known, ZenonT(40) DEF Task, Polling
<1>13. tasks \in [Tasks -> Task] /\ runs \in [Runs -> [agent : Agents \cup {NoAgent}, over : BOOLEAN]]
  BY DEF EditorInv, EditorTypeOK
<1>14. runs' \in [Runs -> [agent : Agents \cup {NoAgent}, over : BOOLEAN]]
       /\ runs'[r].agent = tasks[t].agent /\ \A q \in Runs : runs'[q].agent = runs[q].agent \/ runs[q].agent = NoAgent
  BY <1>1, <1>3, <1>6, <1>13
<1> HIDE DEF l, e, f, g, x, y, p, task, waits
<1>15. editor' \in {e, f, g} /\ EditorTypeOK' /\ tasks'[t] \in {Free, x, y} /\ \A u \in Tasks \ {t} : tasks'[u] = tasks[u]
  <2>1. tasks' \in [Tasks -> Task] /\ tasks'[t] \in {Free, x, y} /\ \A u \in Tasks \ {t} : tasks'[u] = tasks[u]
    BY <1>6, <1>11, <1>12, <1>13, FreeTyped
  <2> QED BY <1>6, <1>9, <1>14, <2>1 DEF EditorTypeOK
<1>16. \A u \in Tasks \ {t} : Alike(u)
  BY <1>15 DEF Alike
<1>17. TaskFits(t)'
  BY <1>1, <1>11, <1>12, <1>15, FreeTyped, Known DEF TaskFits, Wants, waits
<1>18. /\ editor'.polling \in {editor.polling, NoTask}
       /\ editor'.polling = t => tasks'[t].step \in PollSteps
       /\ editor'.busy => tasks'[t].holds \/ (editor.busy /\ ~tasks[t].holds)
  <2>1. CASE editor' = f /\ tasks' = [tasks EXCEPT ![t] = Free]
    BY <2>1, <1>10, Known DEF p
  <2>2. CASE editor' = e /\ tasks' = [tasks EXCEPT ![t] = x]
    BY <2>2, <1>8, <1>11, <1>13 DEF PollSteps
  <2>3. CASE editor' = g /\ tasks' = [tasks EXCEPT ![t] = y]
    BY <2>3, <1>10, <1>12, <1>13 DEF PollSteps
  <2> QED BY <1>6, <2>1, <2>2, <2>3
<1>19. HandlerMoves(t)
  <2>1. ~editor'.lost => editor'.detail \in {NoRun, editor'.run}
    BY <1>7, <1>9, <1>15
  <2> QED BY <1>1, <1>9, <1>14, <1>15, <1>16, <1>17, <1>18, <2>1 DEF HandlerMoves
<1>20. MonitorMoves(t)
  <2>1. ~editor.crossed => runs'[r].agent = editor.agent /\ editor.open /\ editor.draft # NoAgent
                           /\ editor.draft = editor.agent /\ editor.listed \in {NoAgent, editor.agent}
                           /\ tasks[t].agent = editor.agent
    BY <1>1, <1>14, Working
  <2>2. ~editor.crossed => MonitorFits'
    BY <1>9, <1>15, <2>1 DEF MonitorFits, Ours
  <2>3. ~editor.crossed => HandlerFits(t)'
    BY <1>9, <1>11, <1>12, <1>15, <2>1, FreeTyped DEF HandlerFits, Ours
  <2> QED BY <1>9, <1>15, <2>2, <2>3 DEF MonitorMoves
<1> QED BY <1>19, <1>20

LEMMA RunCancelledMoves ==
  ASSUME EditorInv, NEW t \in Tasks, RunCancelled(t)
  PROVE  HandlerMoves(t) /\ MonitorMoves(t)
<1>1. tasks[t].step = "cancel" /\ tasks[t].agent \in Agents /\ ~Wants(t)
  BY Working DEF RunCancelled
<1>2. CASE Return(t, [editor EXCEPT !.lost = TRUE], tasks)
  BY <1>1, <1>2, FailedAlters, ReturnKeeps
<1>3. CASE /\ runs[tasks[t].run].agent = tasks[t].agent
           /\ runs' = [runs EXCEPT ![tasks[t].run].over = TRUE]
           /\ tasks' = [CancelToken(tasks, editor.polling) EXCEPT ![t].step = "detail", ![t].apply = TRUE]
           /\ UNCHANGED editor
  <2> DEFINE ts == CancelToken(tasks, editor.polling)
             x == [ts[t] EXCEPT !.step = "detail", !.apply = TRUE]
  <2>1. tasks \in [Tasks -> Task] /\ runs \in [Runs -> [agent : Agents \cup {NoAgent}, over : BOOLEAN]]
    BY DEF EditorInv, EditorTypeOK
  <2>2. ts \in [Tasks -> Task]
    BY <2>1, Cancelled
  <2>3. \A u \in Tasks : ts[u].step = tasks[u].step /\ ts[u].agent = tasks[u].agent /\ ts[u].run = tasks[u].run
                      /\ ts[u].then = tasks[u].then /\ ts[u].holds = tasks[u].holds
                      /\ ts[u].cancelled = (tasks[u].cancelled \/ (u = editor.polling /\ tasks[u].step # "free"))
    BY <2>1, Cancelled
  <2>4. \A u \in Tasks : tasks[u].step = "draft" => ts[u].cancelled = tasks[u].cancelled
    BY <2>1, <2>3, Known, TaskTyped DEF PollingFits
  <2>5. x \in Task /\ x.step = "detail" /\ x.agent = tasks[t].agent /\ x.run = tasks[t].run
        /\ x.then = tasks[t].then /\ x.holds = tasks[t].holds
    BY <2>2, <2>3, ZenonT(40) DEF Task
  <2> HIDE DEF ts
  <2>6. tasks' = [ts EXCEPT ![t] = x]
    BY <1>3, <2>2 DEF ts
  <2> HIDE DEF x
  <2>7. tasks'[t] = x /\ (\A u \in Tasks \ {t} : tasks'[u] = ts[u]) /\ tasks' \in [Tasks -> Task]
    BY <2>2, <2>5, <2>6
  <2>8. \A u \in Tasks \ {t} : Alike(u)
    BY <2>3, <2>4, <2>7 DEF Alike
  <2>9. runs' \in [Runs -> [agent : Agents \cup {NoAgent}, over : BOOLEAN]] /\ \A q \in Runs : runs'[q].agent = runs[q].agent
    BY <1>3, <2>1
  <2>10. EditorTypeOK'
    BY <1>3, <2>7, <2>9 DEF EditorTypeOK, EditorInv
  <2>11. TaskFits(t)'
    BY <1>1, <2>5, <2>7, Known DEF TaskFits, Wants
  <2>12. HandlerMoves(t)
    <3>1. tasks[t].holds \in BOOLEAN /\ editor.busy \in BOOLEAN
      BY Known, TaskTyped, EditorTyped
    <3> QED BY <1>1, <1>3, <2>5, <2>7, <2>8, <2>9, <2>10, <2>11, <3>1, Known DEF HandlerMoves, PageFits, PollingFits, PollSteps
  <2>13. MonitorMoves(t)
    <3>1. ~editor.crossed => HandlerFits(t)'
      BY <1>1, <1>3, <2>5, <2>7, <2>9, Working DEF HandlerFits, Ours
    <3>2. ~editor.crossed => MonitorFits'
      BY <1>1, <1>3, <2>9, Known, EditorTyped DEF MonitorFits, Ours
    <3> QED BY <1>3, <3>1, <3>2 DEF MonitorMoves
  <2> QED BY <2>12, <2>13
<1> QED BY <1>2, <1>3 DEF RunCancelled

\* The editor is opened over loads that have been given up,
LEMMA OpenMoves ==
  ASSUME EditorInv, NEW t \in Tasks, NEW a \in Agents, OpenEditor(t, a)
  PROVE  EditorInv'
<1> DEFINE e == [editor EXCEPT !.open = TRUE, !.agent = a, !.loading = t, !.busy = TRUE]
           x == [Free EXCEPT !.step = "draft", !.agent = a]
           ts == CancelToken(tasks, editor.loading)
<1>1. ~editor.open /\ tasks[t].step = "free" /\ editor' = e /\ tasks' = [ts EXCEPT ![t] = x] /\ runs' = runs
  BY DEF OpenEditor
<1>2. x \in Task /\ x.step = "draft" /\ x.agent = a /\ x.run = NoRun /\ ~x.holds /\ ~x.cancelled /\ x.then = "none"
  BY FreeTyped DEF Task
<1>3. e \in Editor /\ e.open /\ e.agent = a /\ e.draft = editor.draft /\ e.listed = editor.listed
      /\ e.abandoned = editor.abandoned /\ e.crossed = editor.crossed /\ e.lost = editor.lost /\ e.loading = t
      /\ e.polling = editor.polling /\ e.detail = editor.detail /\ e.run = editor.run
  BY Known DEF Editor
<1>4. tasks \in [Tasks -> Task] /\ runs \in [Runs -> [agent : Agents \cup {NoAgent}, over : BOOLEAN]]
  BY DEF EditorInv, EditorTypeOK
<1>5. ts \in [Tasks -> Task]
  BY <1>4, Cancelled
<1>6. \A u \in Tasks : ts[u].step = tasks[u].step /\ ts[u].agent = tasks[u].agent /\ ts[u].run = tasks[u].run
                    /\ ts[u].then = tasks[u].then /\ ts[u].holds = tasks[u].holds
                    /\ ts[u].cancelled = (tasks[u].cancelled \/ (u = editor.loading /\ tasks[u].step # "free"))
  BY <1>4, Cancelled
<1> HIDE DEF e, x, ts
<1>7. tasks'[t] = x /\ (\A u \in Tasks \ {t} : tasks'[u] = ts[u]) /\ tasks' \in [Tasks -> Task]
  BY <1>1, <1>2, <1>5
<1>8. EditorTypeOK' /\ EditorFits
  BY <1>1, <1>3, <1>4, <1>7 DEF EditorTypeOK, EditorInv
<1>9. \A u \in Tasks : TaskFits(u) /\ (~editor.crossed => MonitorFits /\ HandlerFits(u))
  BY Known
<1>10. \A u \in Tasks : TaskFits(u)'
  <2> SUFFICES ASSUME NEW u \in Tasks PROVE TaskFits(u)'
    OBVIOUS
  <2>1. CASE u = t
    BY <1>1, <1>2, <1>3, <1>7, <2>1 DEF TaskFits, Wants
  <2>2. CASE u # t
    <3>1. tasks[u].cancelled \in BOOLEAN /\ ts[u].cancelled \in BOOLEAN
      BY <1>4, <1>5, TaskTyped
    <3> QED BY <1>1, <1>6, <1>7, <1>9, <2>2, <3>1 DEF TaskFits, Wants
  <2> QED BY <2>1, <2>2
<1>11. PollingFits' /\ PageFits'
  <2>1. editor.polling # NoTask => editor.polling \in Tasks \ {t}
    BY <1>1, Known, EditorTyped DEF PollingFits
  <2> QED BY <1>1, <1>3, <1>6, <1>7, <2>1, Known DEF PollingFits, PageFits
<1>12. BusyIsWork'
  BY <1>2, <1>7 DEF BusyIsWork
<1>13. MonitorInv'
  <2> SUFFICES ASSUME ~editor.crossed PROVE MonitorFits' /\ \A u \in Tasks : HandlerFits(u)'
    BY <1>1, <1>3 DEF MonitorInv
  <2>1. editor.draft = NoAgent
    BY <1>1, <1>9 DEF MonitorFits
  <2>2. MonitorFits'
    BY <1>1, <1>3, <2>1 DEF MonitorFits
  <2>3. ASSUME NEW u \in Tasks PROVE HandlerFits(u)'
    BY <1>1, <1>2, <1>3, <1>6, <1>7, <1>9, <2>1 DEF HandlerFits
  <2> QED BY <2>2, <2>3
<1> QED BY <1>8, <1>10, <1>11, <1>12, <1>13 DEF EditorInv, BusyInv

\* and closed over handlers that may go on.
LEMMA CloseMoves ==
  ASSUME EditorInv, CloseEditor
  PROVE  EditorInv'
<1> DEFINE gone == editor.abandoned \/ editor.loading # NoTask
           over == editor.crossed \/ \E t \in Waiting : tasks[t].step # "draft"
           e == [editor EXCEPT !.open = FALSE, !.draft = NoAgent, !.listed = NoAgent, !.abandoned = gone, !.crossed = over]
           ts == CancelToken(tasks, editor.polling)
           us == CancelToken(ts, editor.loading)
<1>1. tasks \in [Tasks -> Task] /\ runs \in [Runs -> [agent : Agents \cup {NoAgent}, over : BOOLEAN]] /\ editor \in Editor
      /\ EditorFits /\ PollingFits /\ PageFits /\ BusyIsWork
  BY DEF EditorInv, EditorTypeOK, BusyInv
<1>2. editor.open /\ editor' = e /\ tasks' = us /\ runs' = runs
  BY <1>1 DEF CloseEditor, Editor
<1>3. gone \in BOOLEAN /\ over \in BOOLEAN
  BY <1>1, EditorTyped
<1>4. e \in Editor /\ ~e.open /\ e.agent = editor.agent /\ e.draft = NoAgent /\ e.busy = editor.busy
      /\ e.abandoned = gone /\ e.crossed = over /\ e.lost = editor.lost /\ e.loading = editor.loading
      /\ e.polling = editor.polling /\ e.detail = editor.detail /\ e.run = editor.run
  <2> HIDE DEF gone, over, ts, us
  <2>1. e \in Editor
    BY <1>1, <1>3 DEF Editor
  <2>2. ~e.open /\ e.agent = editor.agent /\ e.draft = NoAgent /\ e.busy = editor.busy
        /\ e.lost = editor.lost /\ e.loading = editor.loading
    BY <1>1 DEF Editor
  <2>3. e.abandoned = gone /\ e.crossed = over
        /\ e.polling = editor.polling /\ e.detail = editor.detail /\ e.run = editor.run
    BY <1>1 DEF Editor
  <2> QED BY <2>1, <2>2, <2>3
<1>5. ts \in [Tasks -> Task]
  BY <1>1, Cancelled
<1>6. us \in [Tasks -> Task]
  BY <1>5, Cancelled
<1>7. \A u \in Tasks : ts[u].step = tasks[u].step /\ ts[u].agent = tasks[u].agent
                    /\ ts[u].then = tasks[u].then /\ ts[u].holds = tasks[u].holds
                    /\ ts[u].cancelled = (tasks[u].cancelled \/ (u = editor.polling /\ tasks[u].step # "free"))
  BY <1>1, Cancelled
<1>8. \A u \in Tasks : us[u].step = ts[u].step /\ us[u].agent = ts[u].agent
                    /\ us[u].then = ts[u].then /\ us[u].holds = ts[u].holds
                    /\ us[u].cancelled = (ts[u].cancelled \/ (u = editor.loading /\ ts[u].step # "free"))
  BY <1>5, Cancelled
<1> HIDE DEF e, ts, us
<1>9. EditorTypeOK'
  BY <1>1, <1>2, <1>4, <1>6 DEF EditorTypeOK
<1>10. \A u \in Tasks : TaskFits(u) /\ (~editor.crossed => MonitorFits /\ HandlerFits(u))
  BY Known
<1>11. \A u \in Tasks : tasks'[u].cancelled \/ tasks'[u].step # "draft"
  <2> SUFFICES ASSUME NEW u \in Tasks, tasks[u].step = "draft" PROVE us[u].cancelled
    BY <1>2, <1>7, <1>8
  <2>1. tasks[u].cancelled \/ editor.loading = u
    BY <1>10 DEF TaskFits, Wants
  <2>2. tasks[u].cancelled \in BOOLEAN /\ ts[u].cancelled \in BOOLEAN /\ us[u].cancelled \in BOOLEAN
    BY <1>1, <1>5, <1>6, TaskTyped
  <2> QED BY <1>7, <1>8, <2>1, <2>2
<1>12. \A u \in Tasks : TaskFits(u)'
  BY <1>2, <1>7, <1>8, <1>10, <1>11 DEF TaskFits, Wants
<1>13. PollingFits' /\ PageFits'
  <2>1. editor.polling # NoTask => editor.polling \in Tasks
    BY <1>1, EditorTyped
  <2> QED BY <1>1, <1>2, <1>4, <1>7, <1>8, <2>1 DEF PollingFits, PageFits
<1>14. BusyIsWork'
  <2> SUFFICES ASSUME editor.busy, ~gone PROVE \E u \in Tasks : tasks'[u].holds
    BY <1>2, <1>4 DEF BusyIsWork
  <2>1. \A u \in Tasks : ~(tasks[u].step = "draft" /\ ~tasks[u].cancelled)
    BY <1>1, <1>10 DEF TaskFits, Wants, EditorFits
  <2>2. PICK u \in Tasks : tasks[u].holds
    BY <1>1, <2>1 DEF BusyIsWork
  <2> QED BY <1>2, <1>7, <1>8, <2>2
<1>15. MonitorInv'
  <2> SUFFICES ASSUME ~over PROVE MonitorFits' /\ \A u \in Tasks : HandlerFits(u)'
    BY <1>2, <1>4 DEF MonitorInv
  <2>1. \A u \in Tasks : tasks[u].step \in {"free", "draft"}
    BY DEF Waiting
  <2> QED BY <1>2, <1>4, <1>7, <1>8, <2>1 DEF MonitorFits, HandlerFits
<1> QED BY <1>1, <1>9, <1>12, <1>13, <1>14, <1>15 DEF EditorInv, BusyInv

LEMMA RunEndsMoves ==
  ASSUME EditorInv, NEW r \in Runs, RunEnds(r)
  PROVE  EditorInv'
<1>1. EditorTypeOK' /\ \A q \in Runs : runs'[q].agent = runs[q].agent
  BY DEF EditorInv, EditorTypeOK, RunEnds
<1>2. BusyInv'
  BY DEF EditorInv, BusyInv, RunEnds, PollingFits, PageFits, BusyIsWork, TaskFits, Wants
<1>3. MonitorInv'
  <2>1. \A u \in Tasks : tasks[u].run \in Runs \cup {NoRun}
    BY TaskTyped DEF EditorInv, EditorTypeOK
  <2>2. editor.run \in Runs \cup {NoRun}
    BY EditorTyped DEF EditorInv, EditorTypeOK
  <2> QED BY <1>1, <2>1, <2>2 DEF EditorInv, MonitorInv, MonitorFits, HandlerFits, Ours, RunEnds
<1> QED BY <1>1, <1>2, <1>3 DEF EditorInv

LEMMA EditorBegins ==
  ASSUME EditorFits, EditorInit
  PROVE  EditorInv
<1>1. EditorTypeOK
  <2>1. editor \in Editor
    BY DEF EditorInit, Editor
  <2> QED BY <2>1, FreeTyped DEF EditorInit, EditorTypeOK
<1>2. \A t \in Tasks : tasks[t] = Free
  BY DEF EditorInit
<1>3. \A t \in Tasks : TaskFits(t) /\ HandlerFits(t)
  BY <1>2, FreeTyped DEF TaskFits, Wants, HandlerFits
<1> QED BY <1>1, <1>3 DEF EditorInit, EditorInv, BusyInv, MonitorInv, MonitorFits, PollingFits, PageFits, BusyIsWork

LEMMA EditorStep ==
  ASSUME EditorInv, [EditorNext]_editorVars
  PROVE  EditorInv'
<1>1. ASSUME NEW t \in Tasks, HandlerMoves(t) /\ MonitorMoves(t) PROVE EditorInv'
  BY <1>1, BusyKept, MonitorKept DEF EditorInv, HandlerMoves
<1>2. ASSUME NEW t \in Tasks, Click(t) PROVE EditorInv'
  <2>1. CASE \E a \in Agents : OpenEditor(t, a)
    BY <2>1, OpenMoves
  <2>2. CASE ~\E a \in Agents : OpenEditor(t, a)
    <3>1. HandlerMoves(t) /\ MonitorMoves(t)
      BY <1>2, <2>2, SaveMoves, RefreshMoves, CancelRunMoves, OpenRunMoves, RunAgentMoves DEF Click
    <3> QED BY <3>1, <1>1
  <2> QED BY <2>1, <2>2
<1>3. ASSUME NEW t \in Tasks, Answered(t) PROVE EditorInv'
  <2>1. HandlerMoves(t) /\ MonitorMoves(t)
    BY <1>3, DraftLoadedMoves, DraftSavedMoves, ListedMoves, FetchedMoves, RunStartedMoves, RunFailsMoves,
       PolledMoves, RunCancelledMoves DEF Answered
  <2> QED BY <2>1, <1>1
<1>4. CASE UNCHANGED editorVars
  BY <1>4 DEF editorVars, EditorInv, EditorTypeOK, BusyInv, TaskFits, Wants, PollingFits, PageFits, BusyIsWork,
              MonitorInv, MonitorFits, HandlerFits, Ours
<1> QED BY <1>2, <1>3, <1>4, CloseMoves, RunEndsMoves DEF EditorNext

\* In an editor that is open, what was shown is shown together (page.tsx:532-1046).
LEMMA EditorShows ==
  ASSUME EditorInv
  PROVE  EditorTypeOK /\ BusyIsWork /\ MonitorIsOfAgent
BY DEF EditorInv, BusyInv, PageFits, MonitorInv, MonitorFits, MonitorIsOfAgent, Ours

\* However the handlers of an editor overlap, its buttons come back and what it shows is of
\* its agent, one run at a time (agents/page.tsx:532-1046).
THEOREM EditorsStayCurrent ==
  ASSUME EditorFits PROVE EditorSpec => [](EditorTypeOK /\ BusyIsWork /\ MonitorIsOfAgent)
<1>1. EditorInit => EditorInv
  BY EditorBegins
<1>2. EditorInv /\ [EditorNext]_editorVars => EditorInv'
  BY EditorStep
<1>3. EditorInv => EditorTypeOK /\ BusyIsWork /\ MonitorIsOfAgent
  BY EditorShows
<1> QED BY <1>1, <1>2, <1>3, PTL DEF EditorSpec
=============================================================================
