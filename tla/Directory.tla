------------------------------ MODULE Directory ------------------------------
(***************************************************************************)
(* What the workflows ask the organization's graph (org/service.py and the *)
(* statements of org/queries.py), one query at a time, while the graph     *)
(* comes and goes: may an employee do this and who could approve it        *)
(* (has_privilege), who is asked to approve (approval_node), and to whom a *)
(* ticket is escalated next (workflows/escalation.py).                     *)
(*                                                                         *)
(* One privilege and one ticket stand for all.  An employee's roles matter *)
(* only by what they grant, make eligible for and may approve.  The graph  *)
(* itself changes only when it is seeded again, which is not modelled.     *)
(***************************************************************************)
EXTENDS Naturals, Sequences, FiniteSets

CONSTANTS
  Employees,
  Stranger,      \* somebody the graph does not know
  Nobody,        \* NULL
  Operator,      \* the administrator, whom the graph does not know either
  Orgs,          \* the organizations to check
  MaxHops,       \* length of the reporting chain that is searched (6)
  MaxOutages,    \* bound: times the graph becomes unreachable
  MaxEscalations \* bound: escalations of the ticket

Systems  == {"vpn", "okta", "mdm", "siem"}
NoSystem == "none"
UnknownSystem == "unknown"   \* a key the model made up
Teams    == {"it-support", "security-ops"}

Organization == [manager  : [Employees -> Employees \cup {Nobody}],
                 holders  : SUBSET Employees,   \* have the privilege, by role or exception
                 eligible : SUBSET Employees,   \* have a role that may ask for it
                 deciders : SUBSET Employees,   \* have a role that approves it
                 chain    : [Teams -> Seq(Employees)]]  \* ESCALATES_TO by level

(* Who is above e: the members of the least set that has his manager and   *)
(* its members' managers.                                                  *)
Above(o, e) ==
  {m \in Employees :
     \A T \in SUBSET Employees :
       (\A x \in T \cup {e} : o.manager[x] \in T \cup {Nobody}) => m \in T}

(* The seed's graph: nobody is above himself, nobody is twice in a chain,  *)
(* every support team has somebody, and whoever is in the chains of two    *)
(* teams is the last of both.                                              *)
Sound(o) ==
  /\ \A e \in Employees : e \notin Above(o, e)
  /\ \A t \in Teams : o.chain[t] # <<>>
  /\ \A t, u \in Teams : \A i \in DOMAIN o.chain[t], j \in DOMAIN o.chain[u] :
       o.chain[t][i] = o.chain[u][j] =>
         IF t = u THEN i = j ELSE i = Len(o.chain[t]) /\ j = Len(o.chain[u])

ASSUME DirectoryAssumption ==
  /\ IsFiniteSet(Employees)
  /\ Orgs \subseteq Organization /\ \A o \in Orgs : Sound(o)
  /\ Stranger \notin Employees /\ Nobody \notin Employees \cup {Stranger}
  /\ Operator \notin Employees \cup {Stranger, Nobody}
  /\ MaxHops \in Nat \ {0} /\ MaxOutages \in Nat /\ MaxEscalations \in Nat

VARIABLES
  org,      \* the graph
  up,       \* whether it answers
  outages,  \* how often it became unreachable
  asker,    \* the employee the question is about
  step,     \* the query that is next
  checked,  \* the PrivilegeCheckResult
  approver, \* whom approval_node asks
  ticket,   \* [owner, team, escalations]
  climb     \* history: the owners since the ticket's present climb began

askVars    == <<asker, step, checked, approver>>
ticketVars == <<ticket, climb>>
vars       == <<org, up, outages, askVars, ticketVars>>

People == Employees \cup {Nobody}
Owners == People \cup {Operator}

(* "none": not asked yet.  An approver is named for the eligible only.     *)
Verdicts == {"none", "granted", "eligible", "denied", "unavailable"}

Categories == {"network", "identity", "endpoint", "security", "ticketing", "other"}

DirectoryTypeOK ==
  /\ org \in Orgs /\ up \in BOOLEAN /\ outages \in 0..MaxOutages
  /\ asker \in Employees \cup {Stranger}
  /\ step \in {"idle", "check", "approver", "manager", "name",
               "approver again", "manager again"}
  /\ checked \in [verdict : Verdicts, approver : People]
  /\ approver \in People
  /\ ticket \in [owner : Owners, team : Teams, escalations : 0..MaxEscalations]
  /\ climb \in Seq(Employees)

NotChecked == [verdict |-> "none", approver |-> Nobody]

(* The ticket may be created with an owner, of the chain or not.           *)
Init ==
  /\ org \in Orgs /\ up = TRUE /\ outages = 0
  /\ asker \in Employees \cup {Stranger} /\ step = "idle"
  /\ checked = NotChecked /\ approver = Nobody
  /\ ticket \in [owner : People, team : {"it-support"}, escalations : {0}]
  /\ climb = <<>>

-----------------------------------------------------------------------------
\* The graph

GoesDown ==
  /\ up /\ outages < MaxOutages
  /\ up' = FALSE /\ outages' = outages + 1
  /\ UNCHANGED <<org, askVars, ticketVars>>

ComesBack ==
  /\ ~up /\ up' = TRUE
  /\ UNCHANGED <<org, outages, askVars, ticketVars>>

(* The n-th person up the reporting chain of e.                            *)
Superior(e, n) ==
  LET up_to[i \in 0..n] ==
        IF i = 0 THEN e
        ELSE IF up_to[i - 1] \in Employees THEN org.manager[up_to[i - 1]] ELSE Nobody
  IN up_to[n]

(* Mutant: the path may have no step.                                      *)
WithinReachOrSelf(e) == {n \in 0..MaxHops : Superior(e, n) \in org.deciders}

(* REQUIRED_APPROVER: the hops to everybody who may approve.               *)
WithinReach(e) == {n \in 1..MaxHops : Superior(e, n) \in org.deciders}

Nearest(e) ==
  LET hops == WithinReach(e)
  IN IF hops = {} THEN Nobody
     ELSE Superior(e, CHOOSE n \in hops : \A k \in hops : n <= k)

-----------------------------------------------------------------------------
\* has_privilege

GoTo(next) == step' = next

Answer(verdict, who) == checked' = [verdict |-> verdict, approver |-> who] /\ GoTo("idle")

Ask ==
  /\ step = "idle" /\ checked = NotChecked /\ approver = Nobody
  /\ GoTo("check")
  /\ UNCHANGED <<org, up, outages, asker, checked, approver, ticketVars>>

(* PRIVILEGE_CHECK: no row for a stranger.                                 *)
CheckPrivilege ==
  /\ step = "check" /\ up
  /\ CASE asker \in org.holders -> Answer("granted", Nobody)
       [] asker \in org.eligible \ org.holders -> GoTo("approver") /\ UNCHANGED checked
       [] OTHER -> Answer("denied", Nobody)
  /\ UNCHANGED <<org, up, outages, asker, approver, ticketVars>>

(* get_required_approver, and its fallback get_manager.                    *)
FindApprover ==
  /\ step = "approver" /\ up
  /\ IF Nearest(asker) # Nobody
     THEN Answer("eligible", Nearest(asker))
     ELSE GoTo("manager") /\ UNCHANGED checked
  /\ UNCHANGED <<org, up, outages, asker, approver, ticketVars>>

FindManager ==
  /\ step = "manager" /\ up
  /\ Answer("eligible", org.manager[asker])
  /\ UNCHANGED <<org, up, outages, asker, approver, ticketVars>>

(* Mutant: what was found before the graph failed is kept.                 *)
EligibleAllTheSame == IF step = "check" THEN "unavailable" ELSE "eligible"

Unanswered == "unavailable"

(* Whichever query fails, nothing is assumed.                              *)
CheckFails ==
  /\ step \in {"check", "approver", "manager"} /\ ~up
  /\ Answer(Unanswered, Nobody)
  /\ UNCHANGED <<org, up, outages, asker, approver, ticketVars>>

-----------------------------------------------------------------------------
\* approval_node: the approver the check found, or one it looks up itself

Resolved(who) == approver' = who /\ GoTo("idle")

(* The node may be entered whatever was checked, also if nothing was.      *)
SeekApproval ==
  /\ step = "idle" /\ approver = Nobody
  /\ GoTo(IF checked.approver # Nobody THEN "name" ELSE "approver again")
  /\ UNCHANGED <<org, up, outages, asker, checked, approver, ticketVars>>

(* get_employee_org_context of the approver found.                         *)
NameApprover ==
  /\ step = "name" /\ up
  /\ Resolved(checked.approver)
  /\ UNCHANGED <<org, up, outages, asker, checked, ticketVars>>

FindApproverAgain ==
  /\ step = "approver again" /\ up
  /\ IF Nearest(asker) # Nobody
     THEN Resolved(Nearest(asker))
     ELSE GoTo("manager again") /\ UNCHANGED approver
  /\ UNCHANGED <<org, up, outages, asker, checked, ticketVars>>

FindManagerAgain ==
  /\ step = "manager again" /\ up
  /\ Resolved(IF asker = Stranger THEN Nobody ELSE org.manager[asker])
  /\ UNCHANGED <<org, up, outages, asker, checked, ticketVars>>

(* Nobody is asked, also when only the name could not be looked up.        *)
ResolutionFails ==
  /\ step \in {"name", "approver again", "manager again"} /\ ~up
  /\ Resolved(Nobody)
  /\ UNCHANGED <<org, up, outages, asker, checked, ticketVars>>

-----------------------------------------------------------------------------
\* _resolve_target and get_escalation_target

CategorySystem ==
  [c \in Categories |-> CASE c = "network"  -> "vpn"
                          [] c = "endpoint" -> "mdm"
                          [] c = "security" -> "siem"
                          [] OTHER          -> "okta"]

SupportedBy == [s \in Systems |-> IF s = "siem" THEN "security-ops" ELSE "it-support"]

Level(chain, who) == CHOOSE i \in DOMAIN chain : chain[i] = who

InChain(chain, who) == \E i \in DOMAIN chain : chain[i] = who

(* Mutant: the owner's own level again.                                    *)
SameLevel(chain, owner) ==
  IF InChain(chain, owner) THEN chain[Level(chain, owner)] ELSE chain[1]

(* The next level; the first when the owner is not in the chain; nobody    *)
(* when the owner is its last.                                             *)
NextUp(chain, owner) ==
  IF InChain(chain, owner)
  THEN IF Level(chain, owner) < Len(chain) THEN chain[Level(chain, owner) + 1] ELSE Nobody
  ELSE chain[1]

Assign(who, team) ==
  ticket' = [ticket EXCEPT !.owner = who, !.team = team, !.escalations = @ + 1]

(* A climb goes on while the ticket stays in one chain.                    *)
HandTo(who, team) ==
  /\ Assign(who, team)
  /\ climb' = IF InChain(org.chain[team], ticket.owner) THEN Append(climb, who) ELSE <<who>>

(* The IT support queue, where a ticket has no owner.                      *)
Enqueue == Assign(Nobody, "it-support") /\ climb' = <<>>

(* With no answer, with a system that the graph does not know, and when    *)
(* the chain is exhausted, the ticket goes to the queue.                   *)
EscalateTo(system) ==
  LET team == SupportedBy[system]
      who  == NextUp(org.chain[team], ticket.owner)
  IN IF up /\ system \in Systems /\ who # Nobody THEN HandTo(who, team) ELSE Enqueue

(* The system is the one the model named with the requested action, if     *)
(* there is one (the sweep knows of none), or goes by the category.        *)
Escalate ==
  /\ ticket.escalations < MaxEscalations
  /\ \E category \in Categories, named \in Systems \cup {NoSystem, UnknownSystem} :
       EscalateTo(IF named = NoSystem THEN CategorySystem[category] ELSE named)
  /\ UNCHANGED <<org, up, outages, askVars>>

(* intervene of api/routes_ops.py: the operator owns the ticket, which     *)
(* stays with its team, and no chain knows him.                            *)
Intervene ==
  /\ ticket' = [ticket EXCEPT !.owner = Operator] /\ climb' = <<>>
  /\ UNCHANGED <<org, up, outages, askVars>>

-----------------------------------------------------------------------------

HasPrivilege == Ask \/ CheckPrivilege \/ FindApprover \/ FindManager \/ CheckFails

ResolveApprover ==
  SeekApproval \/ NameApprover \/ FindApproverAgain \/ FindManagerAgain \/ ResolutionFails

Next ==
  \/ GoesDown \/ ComesBack
  \/ HasPrivilege \/ ResolveApprover
  \/ Escalate \/ Intervene

Spec == Init /\ [][Next]_vars

-----------------------------------------------------------------------------

(* The check never assumes access, whenever the graph goes away: a granted *)
(* verdict is for a holder, an eligible one for somebody who may ask and   *)
(* does not hold it, with an approver unless the graph has none; and       *)
(* nothing else names an approver.                                         *)
FailsClosed ==
  /\ checked.verdict = "granted" => asker \in org.holders
  /\ checked.verdict = "eligible" => asker \in org.eligible \ org.holders
  /\ checked.approver # Nobody => checked.verdict = "eligible"
  /\ checked.verdict = "eligible" /\ checked.approver = Nobody => org.manager[asker] = Nobody
  /\ outages > 0 \/ checked.verdict # "unavailable"

(* The employee's own line is asked, the nearest first: whoever is asked   *)
(* to approve is above him, so that nobody approves his own request; his   *)
(* role approves the privilege as long as anybody's within reach does; and *)
(* nobody nearer has such a role.  When nobody in reach has, the code      *)
(* asks the direct manager whatever his role: he is asked, and nothing     *)
(* says that he may.                                                       *)
InReach(e) ==
  {m \in Above(org, e) : Cardinality(Above(org, e) \ Above(org, m)) <= MaxHops}

NearestOrManager(who) ==
  /\ who \in Above(org, asker)
  /\ \/ who \in org.deciders
     \/ InReach(asker) \cap org.deciders = {} /\ who = org.manager[asker]
  /\ \A m \in InReach(asker) \cap org.deciders : m = who \/ m \in Above(org, who)

NearestApproverAsked ==
  \A who \in {checked.approver, approver} \ {Nobody} : NearestOrManager(who)

(* Escalations that stay in one chain climb it one level at a time, also   *)
(* between an outage, another system and the operator, who may take the    *)
(* ticket at any level: nobody is left out, and nobody gets a ticket back  *)
(* that he passed on.  An outage or an operator ends the climb, and the    *)
(* next one starts at the first level.                                     *)
ClimbSkipsNobody ==
  \E t \in Teams : \E from \in 0..Len(org.chain[t]) :
    \A i \in DOMAIN climb :
      from + i \in DOMAIN org.chain[t] /\ climb[i] = org.chain[t][from + i]
=============================================================================
