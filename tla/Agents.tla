------------------------------- MODULE Agents -------------------------------
(***************************************************************************)
(* The lifecycle of remote agents: enrollment tokens in Redis, agent rows  *)
(* in PostgreSQL, the administrator's decisions, and the verification that *)
(* authorizes an agent and records its heartbeat.                          *)
(*                                                                         *)
(* A request reads the row, checks it, changes the object it read and      *)
(* commits; nothing it read is locked, an update locks the row until the   *)
(* transaction ends, and an attribute that did not change is not written.  *)
(***************************************************************************)
EXTENDS Naturals

CONSTANTS
    Tokens,     \* enrollment tokens
    Agents,     \* agent ids
    Clients,    \* concurrent API requests
    MaxFaults   \* bound on requests that fail after their first step

ASSUME MaxFaultsAssumption == MaxFaults \in Nat

VARIABLES
    tokens,     \* Redis: agent-enroll:<token>
    rows,       \* Postgres: the agents table
    req,        \* the API requests
    faults,
    decided,    \* history: the administrator's last committed decision
    approved    \* history: agents that an administrator has ever approved

history == <<decided, approved>>

vars == <<tokens, rows, req, faults, decided, approved>>

Decisions == {"approved", "revoked"}
Active == {"approved", "online"}
Statuses == {"pending_approval", "online"} \cup Decisions
Row == [status: Statuses, token: Tokens]
NoRow == [status |-> "absent"]
Request ==
    [op: {"register"}, at: {"commit"}, agent: Agents, token: Tokens]
    \cup [op: {"decide", "verify"}, at: {"flush", "commit"}, agent: Agents,
          status: Statuses, dirty: BOOLEAN]
Idle == [at |-> "idle"]

TypeOK ==
    /\ tokens \in [Tokens -> {"unissued", "issued", "gone"}]
    /\ rows \in [Agents -> Row \cup {NoRow}]
    /\ req \in [Clients -> Request \cup {Idle}]
    /\ faults \in 0..MaxFaults
    /\ decided \in [Agents -> Decisions \cup {"nothing"}]
    /\ approved \subseteq Agents

Init ==
    /\ tokens = [t \in Tokens |-> "unissued"]
    /\ rows = [a \in Agents |-> NoRow]
    /\ req = [c \in Clients |-> Idle]
    /\ faults = 0
    /\ decided = [a \in Agents |-> "nothing"]
    /\ approved = {}

Goto(c, r) == req' = [req EXCEPT ![c] = r]

-----------------------------------------------------------------------------
(* Enrollment *)

(* enroll_agent *)
Issue(t) ==
    /\ tokens[t] = "unissued"
    /\ tokens' = [tokens EXCEPT ![t] = "issued"]
    /\ UNCHANGED <<rows, req, faults, history>>

(* The token's time to live passes. *)
Expire(t) ==
    /\ tokens[t] = "issued"
    /\ tokens' = [tokens EXCEPT ![t] = "gone"]
    /\ UNCHANGED <<rows, req, faults, history>>

Registering(c, t, a) ==
    /\ req[c] = Idle
    /\ tokens[t] = "issued"
    /\ rows[a] = NoRow /\ \A d \in Clients : req[d] # Idle => req[d].agent # a
    /\ Goto(c, [op |-> "register", at |-> "commit", agent |-> a, token |-> t])
    /\ UNCHANGED <<rows, faults, history>>

(* Reading the token and deleting it later, or never: *)
ConsumeByGet(c, t, a) == Registering(c, t, a) /\ UNCHANGED tokens

(* register_agent: GETDEL, then a new row under a fresh id. *)
Consume(c, t, a) ==
    /\ Registering(c, t, a)
    /\ tokens' = [tokens EXCEPT ![t] = "gone"]

-----------------------------------------------------------------------------
(* Decisions and verifications: read, flush, commit *)

Begin(c, op, a, status) ==
    /\ req[c] = Idle /\ rows[a] # NoRow
    /\ Goto(c, [op |-> op, at |-> "flush", agent |-> a, status |-> status,
                dirty |-> status # rows[a].status])
    /\ UNCHANGED <<tokens, rows, faults, history>>

(* approve_agent, revoke_agent: whatever the agent's status is. *)
BeginDecide(c, a, decision) == Begin(c, "decide", a, decision)

(* Refusing revoked agents only: *)
NotRevoked(a) == rows[a].status # "revoked"

(* verify_agent *)
Authorized(a) == rows[a].status \in Active

(* Recording a status that the data model does not have: *)
BeginVerifyActive(c, a) == Authorized(a) /\ Begin(c, "verify", a, "active")

(* verify_agent and heartbeat *)
BeginVerify(c, a) == Authorized(a) /\ Begin(c, "verify", a, "online")

(* An invalid token, an unknown agent or one that is not authorized. *)
Refuse(c) ==
    /\ req[c] = Idle
    /\ (\E t \in Tokens : tokens[t] # "issued") \/ (\E a \in Agents : ~Authorized(a))
    /\ UNCHANGED vars

(* A heartbeat always changes its time and so locks the row. *)
Locks(r) == r.op = "verify" \/ (r.op = "decide" /\ r.dirty)

Flush(c) ==
    /\ req[c].at = "flush"
    /\ Locks(req[c]) => ~\E d \in Clients \ {c} :
            req[d].at = "commit" /\ req[d].agent = req[c].agent /\ Locks(req[d])
    /\ Goto(c, [req[c] EXCEPT !.at = "commit"])
    /\ UNCHANGED <<tokens, rows, faults, history>>

Commit(c) ==
    /\ req[c].at = "commit"
    /\ LET r == req[c] IN
        /\ rows' = [rows EXCEPT ![r.agent] =
                IF r.op = "register" THEN [status |-> "pending_approval", token |-> r.token]
                ELSE IF r.dirty THEN [@ EXCEPT !.status = r.status] ELSE @]
        /\ decided' = IF r.op = "decide"
                      THEN [decided EXCEPT ![r.agent] = r.status] ELSE decided
        /\ approved' = IF r.op = "decide" /\ r.status = "approved"
                       THEN approved \cup {r.agent} ELSE approved
    /\ Goto(c, Idle)
    /\ UNCHANGED <<tokens, faults>>

RollBack(c) ==
    /\ req[c] # Idle
    /\ faults < MaxFaults /\ faults' = faults + 1
    /\ Goto(c, Idle)
    /\ UNCHANGED <<tokens, rows, history>>

-----------------------------------------------------------------------------

Next ==
    \/ \E t \in Tokens : Issue(t) \/ Expire(t)
    \/ \E c \in Clients :
        \/ \E a \in Agents :
            \/ \E t \in Tokens : Consume(c, t, a)
            \/ \E decision \in Decisions : BeginDecide(c, a, decision)
            \/ BeginVerify(c, a)
        \/ Refuse(c) \/ Flush(c) \/ Commit(c) \/ RollBack(c)

Spec == Init /\ [][Next]_vars

-----------------------------------------------------------------------------
(* Properties *)

(* "Single-use" tokens (services/agents.py): two registrations that        *)
(* present one token at the same time never make two agents.               *)
TokensAreSingleUse ==
    \A a, b \in Agents :
        rows[a] # NoRow /\ rows[b] # NoRow /\ rows[a].token = rows[b].token => a = b

(* "Explicit approval, no trust-on-first-use" (USER-GUIDE): an agent that  *)
(* may work was approved by an administrator, however verifications and    *)
(* decisions interleave.                                                   *)
ActiveWasApproved ==
    \A a \in Agents : rows[a].status \in Active => a \in approved

-----------------------------------------------------------------------------
(* What the documentation says and the code does not do *)

(* "A revoked agent cannot operate (the revocation gate blocks it)"        *)
(* (USER-GUIDE): an agent whose last decision was its revocation is not    *)
(* active.                                                                 *)
RevokedCannotOperate ==
    \A a \in Agents : decided[a] = "revoked" => rows[a].status \notin Active

(* "pending_approval -> approved -> (online <-> offline) -> revoked"       *)
(* (data model): revoked is the last status.                               *)
RevokedIsFinal ==
    [][\A a \in Agents : rows[a].status = "revoked" => rows'[a].status = "revoked"]_vars
=============================================================================
