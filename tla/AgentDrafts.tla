---------------------------- MODULE AgentDrafts ----------------------------
(***************************************************************************)
(* The draft of an agent, the versions published from it, and who may      *)
(* change them.  A request checks the role of its user once, and reads     *)
(* before it opens its transaction.  The transactions are READ COMMITTED   *)
(* and meet on the row of the agent, which both kinds lock; the draft and  *)
(* the knowledge bindings have no lock of their own.                       *)
(***************************************************************************)
EXTENDS Naturals, Sequences, FiniteSets, TLC

CONSTANTS Requests,    \* requests to save or to publish
          Users,       \* users other than the owner
          Bases,       \* knowledge bases of the owner
          NoOne        \* the lock is free

VARIABLES agent,       \* its row, with what deleted it; the lock on it
          draft,       \* the agent_drafts row
          bindings,    \* agent_knowledge_bindings of the draft
          versions,    \* agent_versions with their bindings, by number
          bases,       \* knowledge bases that exist
          roles,       \* agent_permissions
          requests

vars == <<agent, draft, bindings, versions, bases, roles, requests>>

-----------------------------------------------------------------------------
Owner == "owner"

Roles == {"none", "viewer", "runner", "editor", "owner"}

Rank(role) == [none |-> 0, viewer |-> 1, runner |-> 2, editor |-> 3, owner |-> 4][role]

\* The spec of a draft: who wrote it, and the bases it names.
Spec0 == [by |-> NoOne, bases |-> {}]

Specs == [by : Requests \cup {NoOne}, bases : SUBSET Bases]

\* gone: the bindings that the transaction has deleted; waited: the lock was another's when
\* the statement began (history).
Request == [op : {"none", "spec", "state", "publish"}, user : Users \cup {Owner},
            pc : {"unused", "allowed", "read", "checked", "locked", "cleared", "done", "failed"},
            spec : Specs, gone : SUBSET Bases, waited : BOOLEAN]

NoRequest == [op |-> "none", user |-> Owner, pc |-> "unused", spec |-> Spec0, gone |-> {},
              waited |-> FALSE]

Over(pc) == [NoRequest EXCEPT !.pc = pc]

Version == [spec : Specs, bindings : SUBSET Bases, waited : BOOLEAN]

TypeOK ==
  /\ agent \in [state : {"draft", "active", "archived", "deleted"}, published : Nat, lock : Requests \cup {NoOne}]
  /\ draft \in [spec : Specs, revision : Nat \ {0}]
  /\ bindings \subseteq Bases
  /\ versions \in Seq(Version)
  /\ bases \subseteq Bases
  /\ roles \in [Users -> Roles]
  /\ requests \in [Requests -> Request]

\* POST /api/agents inserts the agent and its draft in one transaction.
Init ==
  /\ agent = [state |-> "draft", published |-> 0, lock |-> NoOne]
  /\ draft = [spec |-> Spec0, revision |-> 1]
  /\ bindings = {}
  /\ versions = <<>>
  /\ bases = Bases
  /\ roles = [u \in Users |-> "none"]
  /\ requests = [r \in Requests |-> NoRequest]

-----------------------------------------------------------------------------
(* getAgentAccess.                                                         *)

Exists == agent.state # "deleted"

RoleOf(u) == IF u = Owner THEN "owner" ELSE roles[u]

CanEdit(u) == Exists /\ Rank(RoleOf(u)) >= Rank("editor")

CanShare(u) == Exists /\ Rank(RoleOf(u)) >= Rank("owner")

\* A save brings a spec or the state of the editor; it is turned away without the role.
Arrive(r, u, op, named) ==
  /\ requests[r].pc = "unused"
  /\ op = "spec" \/ named = {}
  /\ requests' = [requests EXCEPT
       ![r] = IF CanEdit(u) THEN [NoRequest EXCEPT !.op = op, !.user = u, !.pc = "allowed",
                                    !.spec = IF op = "spec" THEN [by |-> r, bases |-> named] ELSE Spec0]
              ELSE Over("failed")]
  /\ UNCHANGED <<agent, draft, bindings, versions, bases, roles>>

Refuse(r) ==
  /\ requests' = [requests EXCEPT ![r] = Over("failed")]
  /\ agent' = IF agent.lock = r THEN [agent EXCEPT !.lock = NoOne] ELSE agent
  /\ UNCHANGED <<draft, bindings, versions, bases, roles>>

-----------------------------------------------------------------------------
(* PATCH .../draft.                                                        *)

\* The draft is read, and what the request does not bring is taken from it.  The column's
\* spec was written as a JSON string and is read back as one: it names no base, and a
\* request without a spec goes on with that string's characters for its spec.
ReadDraft(r) ==
  /\ requests[r].pc = "allowed" /\ requests[r].op # "publish"
  /\ \/ ~Exists /\ Refuse(r)
     \/ /\ Exists
        /\ requests' = [requests EXCEPT ![r].pc = "read",
                                        ![r].spec = IF requests[r].op = "spec" THEN @
                                                    ELSE [by |-> r, bases |-> {}]]
        /\ UNCHANGED <<agent, draft, bindings, versions, bases, roles>>

\* The transaction begins: bases that are not the owner's are taken out of the spec.
CheckBases(r) ==
  /\ requests[r].pc = "read" /\ requests[r].op # "publish"
  /\ requests' = [requests EXCEPT ![r].pc = "checked", ![r].spec.bases = @ \cap bases]
  /\ UNCHANGED <<agent, draft, bindings, versions, bases, roles>>

\* Mutant of LockAgent: the row of the agent is not written.
NoLock(r) ==
  /\ requests[r].pc = "checked" /\ requests[r].op # "publish"
  /\ requests' = [requests EXCEPT ![r].pc = "locked"]
  /\ UNCHANGED <<agent, draft, bindings, versions, bases, roles>>

\* update agents set name ...: the row is locked until the end.
LockAgent(r) ==
  /\ requests[r].pc = "checked" /\ requests[r].op # "publish"
  /\ agent.lock = NoOne
  /\ agent' = [agent EXCEPT !.lock = r]
  /\ requests' = [requests EXCEPT ![r].pc = "locked"]
  /\ UNCHANGED <<draft, bindings, versions, bases, roles>>

\* delete from agent_knowledge_bindings: those that the statement sees.
ClearBindings(r) ==
  /\ requests[r].pc = "locked" /\ requests[r].op # "publish"
  /\ requests' = [requests EXCEPT ![r].pc = "cleared", ![r].gone = bindings]
  /\ UNCHANGED <<agent, draft, bindings, versions, bases, roles>>

\* Mutant of SaveDraft: the bindings are added to those of the last save.
SaveBeside(r) ==
  LET spec == requests[r].spec IN
  /\ requests[r].pc = "cleared"
  /\ Exists /\ spec.bases \subseteq bases
  /\ bindings' = bindings \cup spec.bases
  /\ draft' = [spec |-> spec, revision |-> draft.revision + 1]
  /\ agent' = [agent EXCEPT !.lock = IF @ = r THEN NoOne ELSE @]
  /\ requests' = [requests EXCEPT ![r] = Over("done")]
  /\ UNCHANGED <<versions, bases, roles>>

\* The bindings of the new spec, the draft, and the commit.  A base deleted since the check
\* fails the transaction; an agent deleted since then is saved to nothing.
SaveDraft(r) ==
  LET spec == requests[r].spec IN
  /\ requests[r].pc = "cleared"
  /\ \/ spec.bases # {} /\ ~(Exists /\ spec.bases \subseteq bases) /\ Refuse(r)
     \/ /\ spec.bases \subseteq bases
        /\ Exists
        /\ bindings' = (bindings \ requests[r].gone) \cup spec.bases
        /\ draft' = [spec |-> spec, revision |-> draft.revision + 1]
        /\ agent' = [agent EXCEPT !.lock = IF @ = r THEN NoOne ELSE @]
        /\ requests' = [requests EXCEPT ![r] = Over("done")]
        /\ UNCHANGED <<versions, bases, roles>>
     \/ /\ spec.bases = {} /\ ~Exists
        /\ agent' = [agent EXCEPT !.lock = IF @ = r THEN NoOne ELSE @]
        /\ requests' = [requests EXCEPT ![r] = Over("done")]
        /\ UNCHANGED <<draft, bindings, versions, bases, roles>>

-----------------------------------------------------------------------------
(* POST .../publish.                                                       *)

Unlocked == [agent EXCEPT !.lock = NoOne]

\* select ... for update of a: the statement sees the draft as it is when it begins, and
\* may then have to wait for the row of the agent.
ReadForPublish(r) ==
  /\ requests[r].pc = "allowed" /\ requests[r].op = "publish"
  /\ \/ ~Exists /\ Refuse(r)
     \/ /\ Exists
        /\ IF agent.lock = NoOne
           THEN /\ agent' = [agent EXCEPT !.lock = r]
                /\ requests' = [requests EXCEPT ![r].pc = "locked", ![r].spec = draft.spec]
           ELSE /\ requests' = [requests EXCEPT ![r].pc = "read", ![r].spec = draft.spec, ![r].waited = TRUE]
                /\ UNCHANGED agent
        /\ UNCHANGED <<draft, bindings, versions, bases, roles>>

\* The row is free: its new content is read, the draft is the one that was seen.
LockForPublish(r) ==
  /\ requests[r].pc = "read" /\ requests[r].op = "publish"
  /\ agent.lock = NoOne
  /\ \/ ~Exists /\ Refuse(r)
     \/ /\ Exists
        /\ agent' = [agent EXCEPT !.lock = r]
        /\ requests' = [requests EXCEPT ![r].pc = "locked"]
        /\ UNCHANGED <<draft, bindings, versions, bases, roles>>

\* Mutant of Publish: the agent keeps the version it has published first.
PublishOnce(r) ==
  /\ requests[r].pc = "locked" /\ requests[r].op = "publish"
  /\ versions' = Append(versions, [spec |-> requests[r].spec, bindings |-> bindings, waited |-> requests[r].waited])
  /\ agent' = [Unlocked EXCEPT !.published = IF @ = 0 THEN Len(versions') ELSE @, !.state = "active"]
  /\ requests' = [requests EXCEPT ![r] = Over("done")]
  /\ UNCHANGED <<draft, bindings, bases, roles>>

\* The next version, with the bindings of the draft; an archived agent is active again.
Publish(r) ==
  /\ requests[r].pc = "locked" /\ requests[r].op = "publish"
  /\ versions' = Append(versions, [spec |-> requests[r].spec, bindings |-> bindings, waited |-> requests[r].waited])
  /\ agent' = [Unlocked EXCEPT !.published = Len(versions'), !.state = "active"]
  /\ requests' = [requests EXCEPT ![r] = Over("done")]
  /\ UNCHANGED <<draft, bindings, bases, roles>>

\* The process stops, and an open transaction is rolled back.
Crash(r) == requests[r].pc \notin {"unused", "done", "failed"} /\ Refuse(r)

-----------------------------------------------------------------------------
(* The other writers, one statement or transaction each.                   *)

\* PATCH /api/agents/:id waits for the row.
SetStatus(state) ==
  /\ Exists /\ agent.lock = NoOne /\ agent.state # state
  /\ agent' = [agent EXCEPT !.state = state]
  /\ UNCHANGED <<draft, bindings, versions, bases, roles, requests>>

\* DELETE waits too, and takes the draft, the versions and the permissions with it.
DeleteAgent ==
  /\ Exists /\ agent.lock = NoOne
  /\ agent' = [agent EXCEPT !.state = "deleted", !.published = 0]
  /\ bindings' = {}
  /\ versions' = <<>>
  /\ roles' = [u \in Users |-> "none"]
  /\ UNCHANGED <<draft, bases, requests>>

\* PATCH .../permissions, by anybody whose role is owner; the owner's own is left alone.
SetRole(by, u, role) ==
  /\ CanShare(by)
  /\ roles[u] # role
  /\ roles' = [roles EXCEPT ![u] = role]
  /\ UNCHANGED <<agent, draft, bindings, versions, bases, requests>>

\* A knowledge base goes with its bindings, not with the specs that name it.
DeleteBase(b) ==
  /\ b \in bases
  /\ bases' = bases \ {b}
  /\ bindings' = bindings \ {b}
  /\ versions' = [i \in DOMAIN versions |-> [versions[i] EXCEPT !.bindings = @ \ {b}]]
  /\ UNCHANGED <<agent, draft, roles, requests>>

-----------------------------------------------------------------------------
Save(r) == ReadDraft(r) \/ CheckBases(r) \/ LockAgent(r) \/ ClearBindings(r) \/ SaveDraft(r)

Publication(r) == ReadForPublish(r) \/ LockForPublish(r) \/ Publish(r)

Manage ==
  \/ \E state \in {"draft", "active", "archived"} : SetStatus(state)
  \/ DeleteAgent
  \/ \E by \in Users \cup {Owner}, u \in Users, role \in Roles : SetRole(by, u, role)
  \/ \E b \in bases : DeleteBase(b)

Next ==
  \/ \E r \in Requests :
       \/ \E u \in Users \cup {Owner}, op \in {"spec", "state", "publish"}, named \in SUBSET Bases : Arrive(r, u, op, named)
       \/ Save(r) \/ Publication(r) \/ Crash(r)
  \/ Manage

Spec == Init /\ [][Next]_vars

DraftSymmetry == Permutations(Requests) \cup Permutations(Users) \cup Permutations(Bases)

-----------------------------------------------------------------------------
(* Properties.                                                             *)

\* The bindings of the draft are the bases of its spec that still exist, whatever saves
\* meet and wherever one fails (draft/route.ts:166-223).
BindingsFollowSpec == Exists => bindings = draft.spec.bases \cap bases

\* The agent runs its newest version, and the bindings of a version are the bases of its
\* spec that still exist, unless its publication had to wait for a save: the draft it then
\* publishes is the one from before the wait (publish/route.ts:28-64).
VersionsAreWhole ==
  /\ Exists => agent.published = Len(versions)
  /\ \A i \in DOMAIN versions :
       versions[i].waited \/ versions[i].bindings = versions[i].spec.bases \cap bases
=============================================================================
