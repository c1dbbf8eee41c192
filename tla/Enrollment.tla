----------------------------- MODULE Enrollment -----------------------------
(***************************************************************************)
(* How an agent gets its token: the one-time tokens of the operators       *)
(* (internal/api/enrollment.go, internal/auth/enrollment_store.go), the    *)
(* agents' tokens (internal/auth/agent_token_store.go), the start of an    *)
(* agent with its token file (cmd/agent/main.go, internal/agent/           *)
(* tokenfile.go), and the erasure of a system (internal/api/gdpr.go) that  *)
(* takes its tokens with it (migrations/000009).                           *)
(*                                                                         *)
(* Every statement of the control plane and every step of an agent's start *)
(* is an action.  An answer may be lost, and a process may end at any      *)
(* point; the file of a token is written whole or not at all.              *)
(***************************************************************************)
EXTENDS Naturals, FiniteSets

CONSTANTS
  Host,       \* systems; an agent belongs to none before it is enrolled
  Busy,       \* systems with jobs, which have no ON DELETE CASCADE
  Agent,
  OneTime,    \* enrollment tokens
  Bearer,     \* agent tokens
  Ask,        \* bound: enrollments served at a time
  Absent      \* no row, no token, no request

VARIABLES
  hosts,      \* systems with a row
  onetime,    \* OneTime -> its row [host, used, expired], or Absent
  bearer,     \* Bearer -> the system of its row, or Absent
  minted,     \* history: Bearer -> what it was made for, [key, host], or Absent
  agents,     \* Agent -> [phase, given, held, file, asked]
  serving,    \* Ask -> the handler at work on it, or Absent
  excused,    \* history: agents that met a fault since they were given their one-time token
  issued,     \* one-time tokens ever made: a new one is random
  shared      \* history: one-time tokens that two requests found unused

enrollmentVars == <<hosts, onetime, bearer, minted, agents, serving, excused, issued, shared>>

OneTimeRow == [host : Host, used : BOOLEAN, expired : BOOLEAN]
\* given: ENROLLMENT_TOKEN; held: the token in memory; file: the token in
\* AGENT_TOKEN_FILE; asked: the request it waits for.
AgentState == [phase : {"stopped", "enrolling", "saving", "running", "refused"},
               given : OneTime \union {Absent}, held : Bearer \union {Absent},
               file : Bearer \union {Absent}, asked : Ask \union {Absent}]
\* What an agent token was made for.
Minted     == [key : OneTime, host : Host]
\* step "done": the answer is on its way, with the token or with Absent.
Handler    == [step : {"read", "mark", "store", "done"}, key : OneTime,
               host : Host \union {Absent}, token : Bearer \union {Absent}]

ASSUME EnrollmentAssumption ==
  /\ Busy \subseteq Host
  /\ Absent \notin Host \union OneTime \union Bearer \union Ask
  /\ Absent \notin OneTimeRow \union Handler \union Minted

EnrollmentTypeOK ==
  /\ hosts \subseteq Host
  /\ onetime \in [OneTime -> OneTimeRow \union {Absent}]
  /\ bearer \in [Bearer -> Host \union {Absent}]
  /\ minted \in [Bearer -> Minted \union {Absent}]
  /\ agents \in [Agent -> AgentState]
  /\ serving \in [Ask -> Handler \union {Absent}]
  /\ excused \subseteq Agent /\ issued \subseteq OneTime /\ shared \subseteq OneTime

EnrollmentInit ==
  /\ hosts = Host
  /\ onetime = [e \in OneTime |-> Absent]
  /\ bearer = [t \in Bearer |-> Absent] /\ minted = [t \in Bearer |-> Absent]
  /\ agents = [g \in Agent |-> [phase |-> "stopped", given |-> Absent, held |-> Absent, file |-> Absent,
                               asked |-> Absent]]
  /\ serving = [q \in Ask |-> Absent]
  /\ excused = {} /\ issued = {} /\ shared = {}

Fault(g)  == excused' = excused \union {g}
FaultOf(e) == excused' = excused \union {g \in Agent : agents[g].given = e}

(***************************************************************************)
(* Operators.                                                              *)
(***************************************************************************)

\* POST /v1/systems/{id}/enrollment-token, given to the agent g.
CreateOneTime(e, h, g) ==
  /\ e \notin issued /\ e = CHOOSE d \in OneTime : d \notin issued
  /\ h \in hosts
  /\ issued' = issued \union {e}
  /\ onetime' = [onetime EXCEPT ![e] = [host |-> h, used |-> FALSE, expired |-> FALSE]]
  /\ agents[g].phase \in {"stopped", "refused"} /\ agents[g].file = Absent
  /\ agents' = [agents EXCEPT ![g].given = e, ![g].phase = "stopped"]
  /\ excused' = excused \ {g}
  /\ UNCHANGED <<hosts, bearer, minted, serving, shared>>

\* Thirty minutes are over.
Expire(e) ==
  /\ onetime[e] # Absent /\ ~onetime[e].expired
  /\ onetime' = [onetime EXCEPT ![e].expired = TRUE]
  /\ FaultOf(e)
  /\ UNCHANGED <<hosts, bearer, minted, agents, serving, issued, shared>>

\* The rows that go with a system.
Erased(h) ==
  /\ onetime' = [e \in OneTime |-> IF onetime[e] # Absent /\ onetime[e].host = h THEN Absent ELSE onetime[e]]
  /\ bearer' = [t \in Bearer |-> IF bearer[t] = h THEN Absent ELSE bearer[t]]

Issued(h) == {e \in OneTime : onetime[e] # Absent /\ onetime[e].host = h}

\* DELETE /v1/gdpr/systems/{id}/purge and DELETE /v1/systems/{id}: refused while there are jobs.
Purge(h) ==
  /\ h \in hosts \ Busy
  /\ hosts' = hosts \ {h} /\ Erased(h)
  /\ excused' = excused \union {g \in Agent : agents[g].given \in Issued(h)}
  /\ UNCHANGED <<minted, agents, serving, issued, shared>>

(***************************************************************************)
(* POST /v1/agent/enroll.                                                  *)
(***************************************************************************)

AtStep(q, s) == serving[q] # Absent /\ serving[q].step = s
AnswerWith(q, t) == serving' = [serving EXCEPT ![q].step = "done", ![q].token = t]

\* A random token that was never made before.
Fresh(t) == t = CHOOSE s \in Bearer : minted[s] = Absent

Usable(e) == onetime[e] # Absent /\ ~onetime[e].used /\ ~onetime[e].expired

ConsumeRead(q) ==
  LET e == serving[q].key IN
  /\ AtStep(q, "read")
  /\ IF Usable(e)
     THEN /\ serving' = [serving EXCEPT ![q].step = "mark", ![q].host = onetime[e].host]
          /\ shared' = IF \E p \in Ask : AtStep(p, "mark") /\ serving[p].key = e
                       THEN shared \union {e} ELSE shared
     ELSE AnswerWith(q, Absent) /\ UNCHANGED shared
  /\ UNCHANGED <<hosts, onetime, bearer, minted, agents, excused, issued>>

\* Variant: the mark is forgotten.
MarkNothing(q) ==
  /\ AtStep(q, "mark")
  /\ serving' = [serving EXCEPT ![q].step = "store"]
  /\ UNCHANGED <<hosts, onetime, bearer, minted, agents, excused, issued, shared>>
\* The update has no condition on used_at, and none on the number of its rows.
ConsumeMark(q) ==
  LET e == serving[q].key IN
  /\ AtStep(q, "mark")
  /\ onetime' = IF onetime[e] = Absent THEN onetime ELSE [onetime EXCEPT ![e].used = TRUE]
  /\ serving' = [serving EXCEPT ![q].step = "store"]
  /\ UNCHANGED <<hosts, bearer, minted, agents, excused, issued, shared>>

\* Variant: the answer does not wait for the row.
AnswerAnyway(q, t) ==
  /\ AtStep(q, "store") /\ minted[t] = Absent /\ Fresh(t)
  /\ minted' = [minted EXCEPT ![t] = [key |-> serving[q].key, host |-> serving[q].host]]
  /\ AnswerWith(q, t)
  /\ UNCHANGED <<hosts, onetime, bearer, agents, excused, issued, shared>>
Store(q, t) ==
  /\ AtStep(q, "store") /\ minted[t] = Absent /\ Fresh(t) /\ serving[q].host \in hosts
  /\ bearer' = [bearer EXCEPT ![t] = serving[q].host]
  /\ minted' = [minted EXCEPT ![t] = [key |-> serving[q].key, host |-> serving[q].host]]
  /\ AnswerWith(q, t)
  /\ UNCHANGED <<hosts, onetime, agents, excused, issued, shared>>

\* A statement fails.  When it is the SELECT the answer is 401, as if there were no such
\* token; when it is another one, 500, and after the mark the one-time token stays used.
StatementFails(q) ==
  /\ AtStep(q, "read") \/ AtStep(q, "mark") \/ AtStep(q, "store")
  /\ AnswerWith(q, Absent) /\ FaultOf(serving[q].key)
  /\ UNCHANGED <<hosts, onetime, bearer, minted, agents, issued, shared>>

(***************************************************************************)
(* The start of an agent.                                                  *)
(***************************************************************************)

Asking(e) == [step |-> "read", key |-> e, host |-> Absent, token |-> Absent]

Enroll(g, q) ==
  /\ agents[g].given # Absent /\ serving[q] = Absent
  /\ q = CHOOSE p \in Ask : serving[p] = Absent
  /\ agents' = [agents EXCEPT ![g].phase = "enrolling", ![g].asked = q]
  /\ serving' = [serving EXCEPT ![q] = Asking(agents[g].given)]
Resume(g) ==
  /\ agents[g].file # Absent
  /\ agents' = [agents EXCEPT ![g].phase = "running", ![g].held = agents[g].file]
  /\ UNCHANGED serving

\* Variant: the one-time token comes first.
ResolveTokenAnew(g, q) ==
  /\ agents[g].phase \in {"stopped", "refused"}
  /\ IF agents[g].given # Absent THEN Enroll(g, q) ELSE Resume(g)
  /\ UNCHANGED <<hosts, onetime, bearer, minted, excused, issued, shared>>
\* The file comes first, then the one-time token; the service manager starts the agent
\* again after it was refused.
ResolveToken(g, q) ==
  /\ agents[g].phase \in {"stopped", "refused"}
  /\ IF agents[g].file # Absent THEN Resume(g) ELSE Enroll(g, q)
  /\ UNCHANGED <<hosts, onetime, bearer, minted, excused, issued, shared>>

\* The answer arrives, unless nobody waits for it any more.
Receive(q) ==
  /\ AtStep(q, "done")
  /\ agents' = [g \in Agent |->
       IF agents[g].asked # q THEN agents[g]
       ELSE [agents[g] EXCEPT !.held = serving[q].token, !.asked = Absent,
                              !.phase = IF serving[q].token = Absent THEN "refused" ELSE "saving"]]
  /\ serving' = [serving EXCEPT ![q] = Absent]
  /\ UNCHANGED <<hosts, onetime, bearer, minted, excused, issued, shared>>

\* The handler goes on without the agent.
LoseAnswer(g) ==
  /\ agents[g].phase = "enrolling"
  /\ agents' = [agents EXCEPT ![g].phase = "refused", ![g].asked = Absent] /\ Fault(g)
  /\ UNCHANGED <<hosts, onetime, bearer, minted, serving, issued, shared>>

SaveToken(g) ==
  /\ agents[g].phase = "saving"
  /\ \/ agents' = [agents EXCEPT ![g].phase = "running", ![g].file = agents[g].held] /\ UNCHANGED excused
     \/ agents' = [agents EXCEPT ![g].phase = "running"] /\ Fault(g)
  /\ UNCHANGED <<hosts, onetime, bearer, minted, serving, issued, shared>>

StopAgent(g) ==
  /\ agents[g].phase \in {"enrolling", "saving", "running"}
  /\ agents' = [agents EXCEPT ![g].phase = "stopped", ![g].held = Absent, ![g].asked = Absent]
  /\ IF agents[g].phase = "running" THEN UNCHANGED excused ELSE Fault(g)
  /\ UNCHANGED <<hosts, onetime, bearer, minted, serving, issued, shared>>

EnrollmentNext ==
  \/ \E e \in OneTime : Expire(e) \/ \E h \in Host, g \in Agent : CreateOneTime(e, h, g)
  \/ \E h \in Host : Purge(h)
  \/ \E q \in Ask :
       \/ ConsumeRead(q) \/ ConsumeMark(q) \/ StatementFails(q) \/ Receive(q)
       \/ \E t \in Bearer : Store(q, t)
       \/ \E g \in Agent : ResolveToken(g, q)
  \/ \E g \in Agent : LoseAnswer(g) \/ SaveToken(g) \/ StopAgent(g)

EnrollmentSpec == EnrollmentInit /\ [][EnrollmentNext]_enrollmentVars

(***************************************************************************)
(* Properties.                                                             *)
(***************************************************************************)

\* "a one-time token used by an agent to enroll" (enrollment_store.go:14): the check and
\* the mark are two statements (:54-84), so that more than one agent token comes from one
\* one-time token only when two requests found it unused.
OneTokenEach ==
  \A s, t \in Bearer : 
    s # t /\ minted[s] # Absent /\ minted[t] # Absent /\ minted[s].key = minted[t].key
      => minted[s].key \in shared

\* A token an agent works with, or finds in its file at the next start, is the one of a
\* system that exists, or that system was erased since (ValidateAndTouch,
\* agent_token_store.go:51-64, must not refuse an enrolled agent, nor accept one whose
\* system is gone).
HeldTokensAreKnown ==
  /\ \A t \in Bearer : bearer[t] # Absent => bearer[t] \in hosts
  /\ \A g \in Agent, t \in Bearer :
       t \in {agents[g].held, agents[g].file} /\ bearer[t] = Absent => minted[t].host \notin hosts

\* An agent that finds neither a token nor a way to enroll needs a new one-time token by
\* hand (cmd/agent/main.go:354-388): that happens to none whose first start met no fault,
\* however often it is stopped and started.
RefusedOnlyByFault == \A g \in Agent : agents[g].phase = "refused" => g \in excused
=============================================================================
