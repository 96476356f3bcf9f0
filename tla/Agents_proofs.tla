--------------------------- MODULE Agents_proofs ---------------------------
(***************************************************************************)
(* Proofs about Agents, for any tokens, agents, clients and bound on       *)
(* faults.  Both invariants need to know what requests in flight will      *)
(* write: which token and which new agent a registration holds, and that   *)
(* only an agent approved earlier is being verified.                       *)
(***************************************************************************)
EXTENDS Agents, TLAPS

Registers(c) == req[c].at # "idle" /\ req[c].op = "register"

(* A token that a row or a registration in flight holds is spent, and a    *)
(* registration's agent does not exist yet.                                *)
Spent ==
    /\ \A a \in Agents : rows[a] # NoRow => tokens[rows[a].token] = "gone"
    /\ \A c \in Clients : Registers(c) =>
        tokens[req[c].token] = "gone" /\ rows[req[c].agent] = NoRow

(* No two of them hold the same token. *)
Distinct ==
    /\ \A c, d \in Clients : c # d /\ Registers(c) /\ Registers(d) =>
        req[c].token # req[d].token /\ req[c].agent # req[d].agent
    /\ \A c \in Clients, a \in Agents : Registers(c) /\ rows[a] # NoRow =>
        rows[a].token # req[c].token

(* What a request in flight may write: a decision or online, to an agent   *)
(* that exists, and online only to one that was approved.                  *)
MayWrite(r) ==
    r.at # "idle" /\ r.op # "register" =>
        /\ rows[r.agent] # NoRow
        /\ r.op = "decide" => r.status \in Decisions
        /\ r.op = "verify" => r.status = "online" /\ r.agent \in approved

Writing == \A c \in Clients : MayWrite(req[c])

IInv == TypeOK /\ Spent /\ Distinct /\ TokensAreSingleUse /\ Writing /\ ActiveWasApproved

LEMMA InitInv == Init => IInv
<1> SUFFICES ASSUME Init PROVE IInv
  OBVIOUS
<1>1. TypeOK
  BY MaxFaultsAssumption DEF Init, TypeOK, Idle, NoRow
<1>2. Spent /\ Distinct /\ TokensAreSingleUse
  BY DEF Init, Spent, Distinct, TokensAreSingleUse, Registers, Idle, NoRow
<1>3. Writing /\ ActiveWasApproved
  BY DEF Init, Writing, MayWrite, ActiveWasApproved, Active, Idle, NoRow
<1> QED
  BY <1>1, <1>2, <1>3 DEF IInv

(* Tokens only move towards "gone", and nothing else changes. *)
LEMMA TokenSteps ==
    ASSUME IInv, NEW t \in Tokens, Issue(t) \/ Expire(t)
    PROVE  IInv'
<1>1. TypeOK'
  BY DEF IInv, TypeOK, Issue, Expire, history
<1>2. \A u \in Tokens : tokens[u] = "gone" => tokens'[u] = "gone"
  BY DEF IInv, TypeOK, Issue, Expire
<1>3. UNCHANGED <<rows, req, approved>>
  BY DEF Issue, Expire, history
<1>4. Spent'
  <2>1. \A a \in Agents : rows[a] # NoRow => rows[a].token \in Tokens
    BY DEF IInv, TypeOK, Row
  <2>2. \A c \in Clients : Registers(c) => req[c].token \in Tokens
    BY DEF IInv, TypeOK, Registers, Request, Idle
  <2> QED
    BY <1>2, <1>3, <2>1, <2>2 DEF IInv, Spent, Registers
<1>5. (Distinct /\ TokensAreSingleUse)'
  BY <1>3 DEF IInv, Distinct, TokensAreSingleUse, Registers
<1>6. (Writing /\ ActiveWasApproved)'
  BY <1>3 DEF IInv, Writing, MayWrite, ActiveWasApproved
<1> QED
  BY <1>1, <1>4, <1>5, <1>6 DEF IInv

(* The token is taken while it is still issued, so nobody holds it. *)
LEMMA ConsumeStep ==
    ASSUME IInv, NEW c \in Clients, NEW t \in Tokens, NEW a \in Agents, Consume(c, t, a)
    PROVE  IInv'
<1> DEFINE new == [op |-> "register", at |-> "commit", agent |-> a, token |-> t]
<1>1. /\ tokens[t] = "issued" /\ tokens' = [tokens EXCEPT ![t] = "gone"]
      /\ req' = [req EXCEPT ![c] = new]
      /\ rows[a] = NoRow /\ \A d \in Clients : req[d] # Idle => req[d].agent # a
      /\ UNCHANGED <<rows, faults, decided, approved>>
  BY DEF Consume, Registering, Goto, history
<1>2. TypeOK'
  <2>1. new \in Request
    BY DEF Request
  <2> QED
    BY <1>1, <2>1 DEF IInv, TypeOK
<1>3. \A d \in Clients : req'[d] = IF d = c THEN new ELSE req[d]
  BY <1>1 DEF IInv, TypeOK
<1>4. \A d \in Clients : Registers(d) => req[d].token # t /\ req[d].agent # a
  BY <1>1 DEF IInv, Spent, Registers, Idle
<1>5. \A b \in Agents : rows[b] # NoRow => rows[b].token # t
  BY <1>1 DEF IInv, Spent
<1>6. \A u \in Tokens : tokens[u] = "gone" => tokens'[u] = "gone"
  BY <1>1 DEF IInv, TypeOK
<1>7. tokens'[t] = "gone"
  BY <1>1 DEF IInv, TypeOK
<1>8. Spent'
  <2>1. \A b \in Agents : rows[b] # NoRow => rows[b].token \in Tokens
    BY DEF IInv, TypeOK, Row
  <2>2. \A d \in Clients : Registers(d) => req[d].token \in Tokens
    BY DEF IInv, TypeOK, Registers, Request, Idle
  <2> QED
    BY <1>1, <1>3, <1>6, <1>7, <2>1, <2>2 DEF IInv, Spent, Registers
<1>9. Distinct'
  BY <1>1, <1>3, <1>4, <1>5 DEF IInv, Distinct, Registers
<1>10. (TokensAreSingleUse /\ ActiveWasApproved)'
  BY <1>1 DEF IInv, TokensAreSingleUse, ActiveWasApproved
<1>11. Writing'
  BY <1>1, <1>3 DEF IInv, Writing, MayWrite
<1> QED
  BY <1>2, <1>8, <1>9, <1>10, <1>11 DEF IInv

(* Requests start, flush and roll back without touching rows or tokens.    *)
LEMMA RequestSteps ==
    ASSUME IInv, NEW c \in Clients, NEW r \in Request \cup {Idle}, Goto(c, r),
           UNCHANGED <<tokens, rows, decided, approved>>, faults' \in 0..MaxFaults,
           r.at # "idle" /\ r.op = "register" =>
                Registers(c) /\ r.agent = req[c].agent /\ r.token = req[c].token,
           MayWrite(r)
    PROVE  IInv'
<1>1. \A d \in Clients : req'[d] = IF d = c THEN r ELSE req[d]
  BY DEF Goto, IInv, TypeOK
<1>2. TypeOK'
  BY DEF Goto, IInv, TypeOK
<1>3. \A d \in Clients : Registers(d)' =>
        Registers(d) /\ req'[d].token = req[d].token /\ req'[d].agent = req[d].agent
  BY <1>1 DEF Registers
<1>4. Spent'
  BY <1>3 DEF IInv, Spent
<1>5. Distinct'
  BY <1>3 DEF IInv, Distinct
<1>6. (TokensAreSingleUse /\ ActiveWasApproved)'
  BY DEF IInv, TokensAreSingleUse, ActiveWasApproved
<1>7. Writing'
  BY <1>1 DEF IInv, Writing, MayWrite
<1> QED
  BY <1>2, <1>4, <1>5, <1>6, <1>7 DEF IInv

(* A commit: `row' is what it makes of the row of its agent.               *)
LEMMA CommitStep ==
    ASSUME IInv, NEW c \in Clients, Commit(c)
    PROVE  IInv'
<1> DEFINE r == req[c]
<1> DEFINE row == rows'[r.agent]
<1>1. r \in Request /\ r.at = "commit" /\ r.agent \in Agents
  BY DEF Commit, IInv, TypeOK, Idle, Request
<1>2. /\ req' = [req EXCEPT ![c] = Idle]
      /\ decided' = IF r.op = "decide" THEN [decided EXCEPT ![r.agent] = r.status] ELSE decided
      /\ approved' = IF r.op = "decide" /\ r.status = "approved"
                     THEN approved \cup {r.agent} ELSE approved
      /\ UNCHANGED <<tokens, faults>>
  BY DEF Commit, Goto
<1>3. /\ rows' \in [Agents -> {rows'[b] : b \in Agents}]
      /\ \A b \in Agents : b # r.agent => rows'[b] = rows[b]
      /\ r.op = "register" => row = [status |-> "pending_approval", token |-> r.token]
      /\ r.op # "register" => row = IF r.dirty THEN [rows[r.agent] EXCEPT !.status = r.status]
                                   ELSE rows[r.agent]
  BY <1>1 DEF Commit, IInv, TypeOK
<1>4. \A d \in Clients : req'[d] = IF d = c THEN Idle ELSE req[d]
  BY <1>2 DEF IInv, TypeOK
<1>5. \A d \in Clients : Registers(d)' => d # c /\ Registers(d) /\ req'[d] = req[d]
  BY <1>4 DEF Registers, Idle
<1>6. CASE r.op = "register"
  <2>1. row = [status |-> "pending_approval", token |-> r.token] /\ r.token \in Tokens
    BY <1>1, <1>3, <1>6 DEF Request
  <2>2. Registers(c) /\ rows[r.agent] = NoRow /\ tokens[r.token] = "gone"
    BY <1>1, <1>6 DEF Registers, IInv, Spent
  <2>3. UNCHANGED <<decided, approved>>
    BY <1>2, <1>6
  <2>4. TypeOK'
    <3>1. row \in Row /\ row # NoRow
      BY <2>1 DEF Row, Statuses, NoRow
    <3> QED
      BY <1>1, <1>2, <1>3, <2>3, <3>1 DEF IInv, TypeOK
  <2>5. Spent'
    <3>1. ASSUME NEW b \in Agents, rows'[b] # NoRow
          PROVE  tokens'[rows'[b].token] = "gone"
      <4>1. CASE b = r.agent
        BY <1>2, <2>1, <2>2, <4>1
      <4>2. CASE b # r.agent
        BY <1>2, <1>3, <3>1, <4>2 DEF IInv, Spent
      <4> QED
        BY <4>1, <4>2
    <3>2. ASSUME NEW d \in Clients, Registers(d)'
          PROVE  tokens'[req'[d].token] = "gone" /\ rows'[req'[d].agent] = NoRow
      <4>1. d # c /\ Registers(d) /\ req'[d] = req[d]
        BY <1>5, <3>2
      <4>2. req[d].agent \in Agents
        BY <4>1 DEF IInv, TypeOK, Registers, Request, Idle
      <4>3. req[d].agent # r.agent
        BY <2>2, <4>1 DEF IInv, Distinct
      <4> QED
        BY <1>2, <1>3, <4>1, <4>2, <4>3 DEF IInv, Spent
    <3> QED
      BY <3>1, <3>2 DEF Spent
  <2>6. Distinct'
    BY <1>1, <1>3, <1>5, <2>1, <2>2 DEF IInv, Distinct
  <2>7. TokensAreSingleUse'
    BY <1>1, <1>3, <2>1, <2>2 DEF IInv, Distinct, TokensAreSingleUse
  <2>8. Writing'
    <3>1. \A a \in Agents : rows[a] # NoRow => rows'[a] # NoRow
      BY <1>3, <2>2
    <3>2. \A d \in Clients : req[d].at # "idle" => req[d].agent \in Agents
      BY DEF IInv, TypeOK, Request, Idle
    <3> QED
      BY <1>4, <2>3, <3>1, <3>2 DEF IInv, Writing, MayWrite, Idle
  <2>9. ActiveWasApproved'
    BY <1>3, <2>1, <2>3 DEF IInv, ActiveWasApproved, Active
  <2> QED
    BY <2>4, <2>5, <2>6, <2>7, <2>8, <2>9 DEF IInv
<1>7. CASE r.op # "register"
  <2>1. r.op \in {"decide", "verify"} /\ r.status \in Statuses /\ r.dirty \in BOOLEAN
    BY <1>1, <1>7 DEF Request
  <2>2. rows[r.agent] \in Row /\ rows[r.agent] # NoRow
    BY <1>1, <1>7 DEF IInv, TypeOK, Writing, MayWrite
  <2>3. /\ row \in Row /\ row # NoRow
        /\ row.token = rows[r.agent].token
        /\ row.status = IF r.dirty THEN r.status ELSE rows[r.agent].status
    BY <1>3, <1>7, <2>1, <2>2 DEF Row, NoRow, Statuses
  <2>4. TypeOK'
    <3>1. rows' \in [Agents -> Row \cup {NoRow}]
      BY <1>1, <1>3, <2>3 DEF IInv, TypeOK
    <3>2. req' \in [Clients -> Request \cup {Idle}]
      BY <1>2 DEF IInv, TypeOK
    <3>3. decided' \in [Agents -> Decisions \cup {"nothing"}] /\ approved' \subseteq Agents
      BY <1>1, <1>2, <1>7 DEF IInv, TypeOK, Writing, MayWrite
    <3> QED
      BY <1>2, <3>1, <3>2, <3>3 DEF IInv, TypeOK
  <2>5. \A a \in Agents : /\ rows'[a] # NoRow <=> rows[a] # NoRow
                          /\ rows[a] # NoRow => rows'[a].token = rows[a].token
    BY <1>1, <1>3, <2>2, <2>3
  <2>6. \A d \in Clients : req[d].at # "idle" => req[d].agent \in Agents
    BY DEF IInv, TypeOK, Request, Idle
  <2>7. Spent'
    BY <1>2, <1>5, <2>5, <2>6 DEF IInv, Spent, Registers
  <2>8. Distinct'
    BY <1>5, <2>5 DEF IInv, Distinct
  <2>9. TokensAreSingleUse'
    BY <2>5 DEF IInv, TokensAreSingleUse
  <2>10. approved \subseteq approved'
    BY <1>2
  <2>11. Writing'
    BY <1>4, <2>5, <2>6, <2>10 DEF IInv, Writing, MayWrite, Idle
  <2>12. row.status \in Active => r.agent \in approved'
    <3>1. CASE r.dirty /\ r.op = "verify"
      BY <1>1, <2>10, <3>1 DEF IInv, Writing, MayWrite
    <3>2. CASE r.dirty /\ r.op = "decide"
      BY <1>1, <1>2, <2>3, <3>2 DEF IInv, Writing, MayWrite, Decisions, Active
    <3>3. CASE ~r.dirty
      BY <1>1, <2>3, <2>10, <3>3 DEF IInv, ActiveWasApproved
    <3> QED
      BY <2>1, <3>1, <3>2, <3>3
  <2>13. ActiveWasApproved'
    BY <1>3, <2>10, <2>12 DEF IInv, ActiveWasApproved
  <2> QED
    BY <2>4, <2>7, <2>8, <2>9, <2>11, <2>13 DEF IInv
<1> QED
  BY <1>6, <1>7

LEMMA StepInv == IInv /\ [Next]_vars => IInv'
<1> SUFFICES ASSUME IInv, [Next]_vars PROVE IInv'
  OBVIOUS
<1>1. ASSUME NEW t \in Tokens, Issue(t) \/ Expire(t) PROVE IInv'
  BY <1>1, TokenSteps
<1>2. ASSUME NEW c \in Clients, NEW t \in Tokens, NEW a \in Agents, Consume(c, t, a)
      PROVE  IInv'
  BY <1>2, ConsumeStep
<1>3. ASSUME NEW c \in Clients, NEW a \in Agents, NEW op \in {"decide", "verify"},
             NEW status \in Statuses, Begin(c, op, a, status),
             op = "decide" => status \in Decisions,
             op = "verify" => status = "online" /\ Authorized(a)
      PROVE  IInv'
  <2> DEFINE r == [op |-> op, at |-> "flush", agent |-> a, status |-> status,
                   dirty |-> status # rows[a].status]
  <2>1. r \in Request
    BY DEF Request
  <2>2. Goto(c, r) /\ UNCHANGED <<tokens, rows, decided, approved, faults>> /\ rows[a] # NoRow
    BY <1>3 DEF Begin, history
  <2>3. MayWrite(r)
    BY <1>3, <2>2 DEF MayWrite, Authorized, IInv, ActiveWasApproved
  <2>4. faults' \in 0..MaxFaults
    BY <2>2 DEF IInv, TypeOK
  <2> HIDE DEF r
  <2>5. r.op # "register"
    BY DEF r
  <2> QED
    BY <2>1, <2>2, <2>3, <2>4, <2>5, RequestSteps
<1>4. ASSUME NEW c \in Clients, Flush(c) PROVE IInv'
  <2> DEFINE r == [req[c] EXCEPT !.at = "commit"]
  <2>1. req[c] \in Request /\ req[c].op # "register" /\ req[c].at = "flush"
    BY <1>4 DEF Flush, IInv, TypeOK, Request, Idle
  <2>2. r \in Request /\ r.op # "register"
    BY <2>1 DEF Request
  <2>3. Goto(c, r) /\ UNCHANGED <<tokens, rows, decided, approved, faults>>
    BY <1>4 DEF Flush, history
  <2>4. MayWrite(r)
    BY <2>1 DEF MayWrite, IInv, Writing, Request
  <2>5. faults' \in 0..MaxFaults
    BY <2>3 DEF IInv, TypeOK
  <2> QED
    BY <2>2, <2>3, <2>4, <2>5, RequestSteps
<1>5. ASSUME NEW c \in Clients, RollBack(c) PROVE IInv'
  <2>1. Goto(c, Idle) /\ UNCHANGED <<tokens, rows, decided, approved>>
    BY <1>5 DEF RollBack, history
  <2>2. faults' \in 0..MaxFaults
    BY <1>5, MaxFaultsAssumption DEF RollBack, IInv, TypeOK
  <2>3. Idle.at = "idle"
    BY DEF Idle
  <2> QED
    BY <2>1, <2>2, <2>3, RequestSteps DEF MayWrite
<1>6. ASSUME UNCHANGED vars PROVE IInv'
  BY <1>6 DEF vars, IInv, TypeOK, Spent, Distinct, TokensAreSingleUse, Writing,
              MayWrite, Registers, ActiveWasApproved
<1>7. ASSUME NEW c \in Clients, NEW a \in Agents, NEW decision \in Decisions,
             BeginDecide(c, a, decision)
      PROVE  IInv'
  BY <1>3, <1>7 DEF BeginDecide, Decisions, Statuses
<1>8. ASSUME NEW c \in Clients, NEW a \in Agents, BeginVerify(c, a) PROVE IInv'
  BY <1>3, <1>8 DEF BeginVerify, Statuses
<1> QED
  BY <1>1, <1>2, <1>4, <1>5, <1>6, <1>7, <1>8, CommitStep DEF Next, Refuse

LEMMA Invariant == Spec => []IInv
BY InitInv, StepInv, PTL DEF Spec

(* Every reachable state of the agent registry is well formed.             *)
THEOREM TypeCorrect == Spec => []TypeOK
BY Invariant, PTL DEF IInv

(* Whatever registrations race, an enrollment token makes one agent.       *)
THEOREM SingleUse == Spec => []TokensAreSingleUse
BY Invariant, PTL DEF IInv

(* No interleaving of verifications, heartbeats and decisions activates an *)
(* agent that no administrator approved.                                   *)
THEOREM ApprovedFirst == Spec => []ActiveWasApproved
BY Invariant, PTL DEF IInv
=============================================================================
