--------------------------- MODULE DirectoryProofs ---------------------------
(***************************************************************************)
(* For every organization and every bound: the privilege check fails       *)
(* closed, the nearest in the line whose role approves is asked, and       *)
(* escalations climb one chain level by level.                             *)
(***************************************************************************)
EXTENDS Directory, Induction, FiniteSetTheorems

-----------------------------------------------------------------------------
\* Types

(* What an organization of Orgs consists of.                               *)
LEMMA OrgType ==
  ASSUME DirectoryTypeOK
  PROVE  /\ org \in Organization /\ Sound(org)
         /\ org.manager \in [Employees -> People]
         /\ org.holders \subseteq Employees /\ org.eligible \subseteq Employees
         /\ org.deciders \subseteq Employees
         /\ org.chain \in [Teams -> Seq(Employees)]
BY DirectoryAssumption DEF DirectoryTypeOK, Organization, People

(* A support chain has somebody, and whoever is next in it is one of it.   *)
LEMMA NextUpType ==
  ASSUME DirectoryTypeOK, NEW t \in Teams, NEW owner \in Owners
  PROVE  /\ NextUp(org.chain[t], owner) \in People
         /\ NextUp(org.chain[t], owner) # Nobody => InChain(org.chain[t], NextUp(org.chain[t], owner))
<1> DEFINE chain == org.chain[t]
<1>1. chain \in Seq(Employees) /\ chain # <<>>
  BY OrgType DEF Sound
<1> HIDE DEF chain
<1>2. DOMAIN chain = 1..Len(chain) /\ 1 \in DOMAIN chain /\ \A i \in DOMAIN chain : chain[i] \in Employees
  BY <1>1
<1>3. CASE InChain(chain, owner)
  <2>1. Level(chain, owner) \in DOMAIN chain
    BY <1>3 DEF InChain, Level
  <2>2. Level(chain, owner) < Len(chain) => Level(chain, owner) + 1 \in DOMAIN chain
    BY <1>2, <2>1
  <2> QED
    BY <1>2, <1>3, <2>2 DEF NextUp, InChain, People, chain
<1>4. CASE ~InChain(chain, owner)
  BY <1>2, <1>4 DEF NextUp, InChain, People, chain
<1> QED
  BY <1>3, <1>4

-----------------------------------------------------------------------------
\* The reporting line

Known == People \cup {Stranger}

(* The line above e as far as n, as Superior computes it.                  *)
LineUpTo(e, n) ==
  CHOOSE up_to : up_to = [i \in 0..n |->
    IF i = 0 THEN e
    ELSE IF up_to[i - 1] \in Employees THEN org.manager[up_to[i - 1]] ELSE Nobody]

(* The line above somebody goes from each employee to his manager, and     *)
(* from anybody else to nobody.                                            *)
LEMMA SuperiorLine ==
  ASSUME DirectoryTypeOK, NEW e \in Known
  PROVE  /\ Superior(e, 0) = e
         /\ \A n \in Nat : /\ Superior(e, n) \in Known
                           /\ Superior(e, n + 1) = IF Superior(e, n) \in Employees
                                                   THEN org.manager[Superior(e, n)] ELSE Nobody
<1> DEFINE above == [a \in Nat \X Known |->
                       IF a[2] \in Employees THEN org.manager[a[2]] ELSE Nobody]
<1>1. above \in [Nat \X Known -> Known]
  BY OrgType DEF Known, People
<1>2. PICK f : Recursion(f, Known, e, above)
  <2> HIDE DEF above
  <2> QED
    BY <1>1, RecursionExists
<1>3. /\ f \in [Nat -> Known] /\ f[0] = e
      /\ \A n \in Nat : f[n + 1] = IF f[n] \in Employees THEN org.manager[f[n]] ELSE Nobody
  BY <1>2 DEF Recursion
<1>4. ASSUME NEW n \in Nat PROVE Superior(e, n) = f[n]
  <2> DEFINE Solves(l) == l = [i \in 0..n |->
               IF i = 0 THEN e
               ELSE IF l[i - 1] \in Employees THEN org.manager[l[i - 1]] ELSE Nobody]
             g == [i \in 0..n |-> f[i]]
             l == LineUpTo(e, n)
  <2>1. Solves(g)
    <3>1. ASSUME NEW i \in 0..n
          PROVE  g[i] = IF i = 0 THEN e
                        ELSE IF g[i - 1] \in Employees THEN org.manager[g[i - 1]] ELSE Nobody
      <4>1. CASE i = 0
        BY <4>1, <1>3
      <4>2. CASE i # 0
        <5>1. i - 1 \in Nat /\ i - 1 \in 0..n /\ (i - 1) + 1 = i
          BY <4>2
        <5>2. f[i] = IF f[i - 1] \in Employees THEN org.manager[f[i - 1]] ELSE Nobody
          BY <5>1, <1>3
        <5> QED
          BY <4>2, <5>1, <5>2
      <4> QED
        BY <4>1, <4>2
    <3> QED
      BY <3>1
  <2>2. Solves(l)
    BY <2>1 DEF LineUpTo
  <2> DEFINE F == {i \in Nat : i <= n => l[i] = f[i]}
  <2>3. 0 \in F
    <3> HIDE DEF l
    <3> QED
      BY <1>3, <2>2
  <2>4. ASSUME NEW i \in F PROVE i + 1 \in F
    <3> HIDE DEF l
    <3>1. CASE i + 1 <= n
      <4>1. i \in Nat /\ i + 1 \in 0..n /\ i + 1 # 0 /\ (i + 1) - 1 = i /\ l[i] = f[i]
        BY <3>1
      <4>2. l[i + 1] = IF l[i] \in Employees THEN org.manager[l[i]] ELSE Nobody
        BY <2>2, <4>1
      <4>3. l[i + 1] = f[i + 1]
        BY <1>3, <4>1, <4>2
      <4> QED
        BY <4>3
    <3> QED
      BY <3>1
  <2>5. n \in F
    <3> HIDE DEF F
    <3>1. F \subseteq Nat
      BY DEF F
    <3> QED
      BY <2>3, <2>4, <3>1, NatInduct
  <2>6. l[n] = f[n]
    <3> HIDE DEF l
    <3> QED
      BY <2>5
  <2> QED
    BY <2>6 DEF Superior, LineUpTo
<1> QED
  BY <1>3, <1>4

(* A line that has left the employees does not come back to them.          *)
LEMMA LineEnds ==
  ASSUME DirectoryTypeOK, NEW e \in Known, NEW i \in Nat, NEW j \in Nat, i <= j,
         Superior(e, j) \in Employees
  PROVE  Superior(e, i) \in Employees
<1> SUFFICES ASSUME Superior(e, i) \notin Employees PROVE FALSE
  OBVIOUS
<1> DEFINE F == {d \in Nat : Superior(e, i + d) \notin Employees}
<1>1. 0 \in F
  <2>1. i + 0 = i
    OBVIOUS
  <2> QED
    BY <2>1
<1>2. ASSUME NEW d \in F PROVE d + 1 \in F
  <2>1. d \in Nat /\ i + d \in Nat /\ i + (d + 1) = (i + d) + 1 /\ Superior(e, i + d) \notin Employees
    OBVIOUS
  <2>2. Superior(e, (i + d) + 1) = Nobody
    BY <2>1, SuperiorLine
  <2> QED
    BY <2>1, <2>2, DirectoryAssumption
<1>3. j - i \in F
  <2> HIDE DEF F
  <2>1. F \subseteq Nat
    BY DEF F
  <2>2. F = Nat
    BY <1>1, <1>2, <2>1, NatInduct
  <2> QED
    BY <2>2
<1>4. i + (j - i) = j
  OBVIOUS
<1> QED
  BY <1>3, <1>4

(* Whoever comes later in a line is above whoever comes earlier.           *)
LEMMA LaterIsAbove ==
  ASSUME DirectoryTypeOK, NEW e \in Known, NEW i \in Nat, NEW j \in Nat, i < j,
         Superior(e, j) \in Employees
  PROVE  Superior(e, j) \in Above(org, Superior(e, i))
<1> DEFINE from == Superior(e, i)
<1> SUFFICES ASSUME NEW T \in SUBSET Employees,
                    \A x \in T \cup {from} : org.manager[x] \in T \cup {Nobody}
             PROVE  Superior(e, j) \in T
  BY DEF Above
<1> DEFINE F == {d \in Nat : Superior(e, (i + d) + 1) \in Employees => Superior(e, (i + d) + 1) \in T}
<1>1. ASSUME NEW n \in Nat, Superior(e, n) \in T \cup {from}, Superior(e, n + 1) \in Employees
      PROVE  Superior(e, n + 1) \in T
  <2>1. Superior(e, n) \in Employees
    <3>1. n <= n + 1 /\ n + 1 \in Nat
      OBVIOUS
    <3> QED
      BY <1>1, <3>1, LineEnds
  <2>2. Superior(e, n + 1) = org.manager[Superior(e, n)]
    BY <2>1, SuperiorLine
  <2> QED
    BY <1>1, <2>2, DirectoryAssumption
<1>2. 0 \in F
  <2>1. i + 0 = i
    OBVIOUS
  <2> QED
    BY <1>1, <2>1
<1>3. ASSUME NEW d \in F PROVE d + 1 \in F
  <2>1. d \in Nat /\ (i + d) + 1 \in Nat /\ i + (d + 1) = (i + d) + 1
    OBVIOUS
  <2>2. ASSUME Superior(e, ((i + d) + 1) + 1) \in Employees
        PROVE  Superior(e, ((i + d) + 1) + 1) \in T
    <3>1. (i + d) + 1 <= ((i + d) + 1) + 1 /\ ((i + d) + 1) + 1 \in Nat
      BY <2>1
    <3>2. Superior(e, (i + d) + 1) \in Employees
      BY <2>1, <2>2, <3>1, LineEnds
    <3> QED
      BY <1>1, <2>1, <2>2, <3>2
  <2> QED
    BY <2>1, <2>2
<1>4. (j - i) - 1 \in F
  <2> HIDE DEF F
  <2>1. F \subseteq Nat
    BY DEF F
  <2>2. F = Nat
    BY <1>2, <1>3, <2>1, NatInduct
  <2>3. (j - i) - 1 \in Nat
    OBVIOUS
  <2> QED
    BY <2>2, <2>3
<1>5. (i + ((j - i) - 1)) + 1 = j
  OBVIOUS
<1> QED
  BY <1>4, <1>5

(* Whoever is above an employee comes somewhere in his line.               *)
LEMMA AboveIsInLine ==
  ASSUME DirectoryTypeOK, NEW e \in Employees, NEW m \in Above(org, e)
  PROVE  \E n \in Nat \ {0} : m = Superior(e, n)
<1> DEFINE T == {x \in Employees : \E n \in Nat \ {0} : x = Superior(e, n)}
<1>1. ASSUME NEW x \in T \cup {e} PROVE org.manager[x] \in T \cup {Nobody}
  <2>1. PICK n \in Nat : x = Superior(e, n)
    BY SuperiorLine DEF Known, People
  <2>2. x \in Employees
    OBVIOUS
  <2>3. org.manager[x] = Superior(e, n + 1)
    BY <2>1, <2>2, SuperiorLine DEF Known, People
  <2>4. org.manager[x] \in Employees \cup {Nobody}
    BY <2>2, OrgType DEF People
  <2>5. n + 1 \in Nat \ {0}
    OBVIOUS
  <2> QED
    BY <2>3, <2>4, <2>5
<1>2. m \in T
  BY <1>1 DEF Above
<1> QED
  BY <1>2

(* Above is transitive, and nobody is above himself.                       *)
LEMMA AboveOrders ==
  ASSUME DirectoryTypeOK
  PROVE  /\ \A e \in Employees : e \notin Above(org, e)
         /\ \A e, x, y : x \in Above(org, e) /\ y \in Above(org, x) => y \in Above(org, e)
<1>1. \A e \in Employees : e \notin Above(org, e)
  BY OrgType DEF Sound
<1>2. ASSUME NEW e, NEW x \in Above(org, e), NEW y \in Above(org, x)
      PROVE  y \in Above(org, e)
  <2>1. ASSUME NEW T \in SUBSET Employees,
               \A z \in T \cup {e} : org.manager[z] \in T \cup {Nobody}
        PROVE  y \in T
    <3>1. x \in T
      BY <2>1 DEF Above
    <3>2. \A z \in T \cup {x} : org.manager[z] \in T \cup {Nobody}
      BY <2>1, <3>1
    <3> QED
      BY <3>2 DEF Above
  <2> QED
    BY <2>1 DEF Above
<1> QED
  BY <1>1, <1>2

(* Whoever is above an employee with at most MaxHops people on the way,    *)
(* himself counted, is among the first MaxHops of the line: the n people   *)
(* up to the n-th one are all different and none of them is above him.     *)
LEMMA InReachIsInLine ==
  ASSUME DirectoryTypeOK, NEW e \in Employees, NEW m \in InReach(e)
  PROVE  \E n \in 1..MaxHops : m = Superior(e, n)
<1> DEFINE between == Above(org, e) \ Above(org, m)
<1>1. m \in Above(org, e) /\ Cardinality(between) <= MaxHops
  BY DEF InReach
<1>2. PICK n \in Nat \ {0} : m = Superior(e, n)
  BY <1>1, AboveIsInLine
<1>3. e \in Known /\ m \in Employees
  BY <1>1 DEF Known, People, Above
<1> DEFINE line == [i \in 1..n |-> Superior(e, i)]
<1>4. ASSUME NEW i \in 1..n PROVE Superior(e, i) \in between
  <2>1. Superior(e, i) \in Employees
    BY <1>2, <1>3, LineEnds
  <2>2. Superior(e, i) \in Above(org, e)
    <3>1. 0 < i /\ 0 \in Nat /\ i \in Nat /\ Superior(e, 0) = e
      BY <1>3, SuperiorLine
    <3> QED
      BY <1>3, <2>1, <3>1, LaterIsAbove
  <2>3. Superior(e, i) \notin Above(org, m)
    <3>1. CASE i = n
      BY <1>2, <1>3, <3>1, AboveOrders
    <3>2. CASE i < n
      <4>1. m \in Above(org, Superior(e, i))
        BY <1>2, <1>3, <3>2, LaterIsAbove
      <4> QED
        BY <1>3, <4>1, AboveOrders
    <3> QED
      BY <3>1, <3>2
  <2> QED
    BY <2>2, <2>3
<1>5. ASSUME NEW i \in 1..n, NEW j \in 1..n, i < j PROVE Superior(e, i) # Superior(e, j)
  <2>1. Superior(e, j) \in Employees
    BY <1>4 DEF Above
  <2>2. Superior(e, j) \in Above(org, Superior(e, i))
    BY <1>3, <1>5, <2>1, LaterIsAbove
  <2> QED
    BY <2>1, <2>2, AboveOrders
<1>6. line \in Injection(1..n, between)
  <2> HIDE DEF between
  <2>1. line \in [1..n -> between]
    BY <1>4
  <2>2. ASSUME NEW i \in 1..n, NEW j \in 1..n, line[i] = line[j] PROVE i = j
    <3>1. Superior(e, i) = Superior(e, j)
      BY <2>2
    <3> QED
      BY <1>5, <3>1
  <2> QED
    BY <2>1, <2>2 DEF Injection, IsInjective
<1>7. IsFiniteSet(between)
  <2>1. between \in SUBSET Employees
    BY DEF Above
  <2> HIDE DEF between
  <2> QED
    BY <2>1, DirectoryAssumption, FS_Subset
<1>8. Cardinality(1..n) <= Cardinality(between)
  <2> HIDE DEF between, line
  <2> QED
    BY <1>6, <1>7, FS_Injection
<1>9. n <= MaxHops
  <2>1. Cardinality(1..n) = n
    BY FS_Interval
  <2>2. Cardinality(between) \in Nat
    <3> HIDE DEF between
    <3> QED
      BY <1>7, FS_CardinalityType
  <2> HIDE DEF between
  <2> QED
    BY <1>1, <1>8, <2>1, <2>2, DirectoryAssumption
<1> QED
  BY <1>2, <1>9

(* What the property asks of an approver of e.                             *)
Candidate(e, who) ==
  /\ who \in Above(org, e)
  /\ \/ who \in org.deciders
     \/ InReach(e) \cap org.deciders = {} /\ who = org.manager[e]
  /\ \A m \in InReach(e) \cap org.deciders : m = who \/ m \in Above(org, who)

(* The query for an approver finds nobody only when nobody in reach may    *)
(* approve, and otherwise the nearest one; for a stranger it finds nobody. *)
LEMMA NearestIsCandidate ==
  ASSUME DirectoryTypeOK, NEW e \in Employees \cup {Stranger}
  PROVE  /\ Nearest(e) \in People
         /\ Nearest(e) # Nobody => e \in Employees /\ Candidate(e, Nearest(e))
         /\ Nearest(e) = Nobody /\ e \in Employees => InReach(e) \cap org.deciders = {}
<1> DEFINE hops == WithinReach(e)
<1>1. e \in Known
  BY DEF Known, People
<1>2. ASSUME e = Stranger PROVE hops = {}
  <2>1. Superior(e, 0) = e /\ Superior(e, 0 + 1) = Nobody
    BY <1>1, <1>2, SuperiorLine, DirectoryAssumption
  <2>2. ASSUME NEW n \in 1..MaxHops PROVE Superior(e, n) \notin Employees
    <3>1. n \in Nat /\ 1 \in Nat /\ 1 <= n /\ 0 + 1 = 1
      BY DirectoryAssumption
    <3> QED
      BY <1>1, <2>1, <3>1, LineEnds, DirectoryAssumption
  <2> QED
    BY <2>2, OrgType DEF WithinReach
<1>3. CASE hops = {}
  <2>1. Nearest(e) = Nobody
    BY <1>3 DEF Nearest
  <2>2. ASSUME e \in Employees, NEW m \in InReach(e) \cap org.deciders PROVE FALSE
    <3>1. PICK n \in 1..MaxHops : m = Superior(e, n)
      BY <2>2, InReachIsInLine
    <3> QED
      BY <1>3, <2>2, <3>1 DEF WithinReach
  <2> QED
    BY <2>1, <2>2 DEF People
<1>4. CASE hops # {}
  <2> DEFINE n == CHOOSE n \in hops : \A k \in hops : n <= k
  <2>1. n \in hops /\ \A k \in hops : n <= k
    <3>1. hops \subseteq Nat
      BY DEF WithinReach
    <3>2. \E x \in hops : \A y \in hops : x <= y
      <4> HIDE DEF hops
      <4> QED
        BY <1>4, <3>1, LeastExists
    <3> HIDE DEF hops
    <3> QED
      BY <3>2
  <2>2. Nearest(e) = Superior(e, n)
    BY <1>4 DEF Nearest
  <2> HIDE DEF n
  <2>3. n \in 1..MaxHops /\ Superior(e, n) \in org.deciders /\ Superior(e, n) \in Employees
    BY <2>1, OrgType DEF WithinReach
  <2>4. e \in Employees
    BY <1>2, <1>4
  <2>5. n \in Nat /\ 0 \in Nat /\ 0 < n /\ Superior(e, 0) = e
    BY <1>1, <2>3, SuperiorLine, DirectoryAssumption
  <2>6. Superior(e, n) \in Above(org, e)
    BY <1>1, <2>3, <2>5, LaterIsAbove
  <2>7. ASSUME NEW m \in InReach(e) \cap org.deciders
        PROVE  m = Superior(e, n) \/ m \in Above(org, Superior(e, n))
    <3>1. PICK k \in 1..MaxHops : m = Superior(e, k)
      BY <2>4, InReachIsInLine
    <3>2. k \in hops /\ n <= k /\ k \in Nat /\ Superior(e, k) \in Employees
      BY <2>1, <3>1, OrgType, DirectoryAssumption DEF WithinReach
    <3>3. CASE k = n
      BY <3>1, <3>3
    <3>4. CASE n < k
      BY <1>1, <2>5, <3>1, <3>2, <3>4, LaterIsAbove
    <3> QED
      BY <2>5, <3>2, <3>3, <3>4
  <2>8. Candidate(e, Superior(e, n))
    BY <2>3, <2>6, <2>7 DEF Candidate
  <2>9. Superior(e, n) # Nobody
    BY <2>3, DirectoryAssumption
  <2> QED
    BY <2>2, <2>3, <2>4, <2>8, <2>9 DEF People
<1> QED
  BY <1>3, <1>4

(* The direct manager may approve when nobody in reach has the role.       *)
LEMMA ManagerIsCandidate ==
  ASSUME DirectoryTypeOK, NEW e \in Employees, Nearest(e) = Nobody, org.manager[e] # Nobody
  PROVE  Candidate(e, org.manager[e])
<1>1. InReach(e) \cap org.deciders = {}
  BY NearestIsCandidate
<1>2. e \in Known /\ Superior(e, 0) = e /\ Superior(e, 0 + 1) = org.manager[e]
  BY SuperiorLine DEF Known, People
<1>3. org.manager[e] \in Employees
  BY OrgType DEF People
<1>4. org.manager[e] \in Above(org, e)
  <2>1. 0 \in Nat /\ 0 + 1 \in Nat /\ 0 < 0 + 1
    OBVIOUS
  <2> QED
    BY <1>2, <1>3, <2>1, LaterIsAbove
<1> QED
  BY <1>1, <1>4 DEF Candidate

-----------------------------------------------------------------------------
\* The steps

(* A query that concerns somebody who may ask is about somebody who may    *)
(* ask; a manager is looked up only when nobody else was found; and the    *)
(* graph was never away unless it has been counted.                        *)
QueryInv ==
  /\ step \in {"approver", "manager"} => asker \in org.eligible \ org.holders
  /\ step \in {"manager", "manager again"} => Nearest(asker) = Nobody
  /\ ~up => outages > 0

DirectoryInv == DirectoryTypeOK /\ QueryInv

(* Nothing is asked yet.                                                   *)
LEMMA DirectoryTypeInit == Init => DirectoryTypeOK
<1>1. 0 \in 0..MaxOutages /\ 0 \in 0..MaxEscalations /\ <<>> \in Seq(Employees)
  BY DirectoryAssumption
<1>2. ASSUME Init PROVE ticket \in [owner : Owners, team : Teams, escalations : 0..MaxEscalations]
  BY <1>1, <1>2 DEF Init, Owners, Teams
<1> QED
  BY <1>1, <1>2 DEF Init, DirectoryTypeOK, Verdicts, People, NotChecked

(* The graph and the employee who asks stay the same.                      *)
LEMMA StaysTheSame ==
  ASSUME [Next]_vars
  PROVE  UNCHANGED <<org, asker>>
BY DEF Next, vars, askVars, ticketVars, GoesDown, ComesBack, HasPrivilege, ResolveApprover, Ask,
       CheckPrivilege, FindApprover, FindManager, CheckFails, SeekApproval, NameApprover,
       FindApproverAgain, FindManagerAgain, ResolutionFails, Escalate, Intervene

(* What is asked about the line and the chain depends on the graph alone.  *)
LEMMA NearestStays ==
  ASSUME UNCHANGED <<org, asker>>
  PROVE  Nearest(asker)' = Nearest(asker)
BY DEF Nearest, WithinReach, Superior

(* An escalation assigns the ticket, and only that.                        *)
LEMMA EscalateCases ==
  ASSUME DirectoryTypeOK, Escalate
  PROVE  /\ ticket.escalations < MaxEscalations
         /\ UNCHANGED <<org, up, outages, askVars>>
         /\ \/ Enqueue
            \/ \E t \in Teams : /\ NextUp(org.chain[t], ticket.owner) # Nobody
                                /\ HandTo(NextUp(org.chain[t], ticket.owner), t)
<1>1. PICK system : EscalateTo(system)
  BY DEF Escalate
<1>2. system \in Systems => SupportedBy[system] \in Teams
  BY DEF SupportedBy, Teams
<1> QED
  BY <1>1, <1>2 DEF Escalate, EscalateTo

(* What the steps that ask leave of the types to show.                     *)
Steps == {"idle", "check", "approver", "manager", "name", "approver again", "manager again"}

Checks == [verdict : Verdicts, approver : People]

(* A step that only moves the questions keeps the types.                   *)
LEMMA AskTypes ==
  ASSUME DirectoryTypeOK, UNCHANGED <<org, up, outages, asker, ticketVars>>,
         step' \in Steps, checked' \in Checks, approver' \in People
  PROVE  DirectoryTypeOK'
BY DEF DirectoryTypeOK, ticketVars, Steps, Checks

(* An answer of the privilege check is one of its answers.                 *)
LEMMA AnswerType ==
  ASSUME NEW verdict \in Verdicts, NEW who \in People, Answer(verdict, who)
  PROVE  checked' \in Checks /\ step' \in Steps
BY DEF Answer, GoTo, Checks, Steps

(* The query for the privilege keeps the types.                            *)
LEMMA CheckTypes ==
  ASSUME DirectoryInv, HasPrivilege
  PROVE  DirectoryTypeOK'
<1>0. DirectoryTypeOK /\ checked \in Checks /\ approver \in People
  BY DEF DirectoryInv, DirectoryTypeOK, Checks
<1>1. Nobody \in People /\ {"granted", "eligible", "denied", "unavailable"} \subseteq Verdicts
      /\ {"check", "approver", "manager"} \subseteq Steps
  BY DEF People, Verdicts, Steps
<1>2. UNCHANGED <<org, up, outages, asker, approver, ticketVars>>
  BY DEF HasPrivilege, Ask, CheckPrivilege, FindApprover, FindManager, CheckFails
<1>3. step' \in Steps /\ checked' \in Checks
  <2>1. CASE Ask
    BY <1>0, <1>1, <2>1 DEF Ask, GoTo
  <2>2. CASE CheckPrivilege
    <3>1. \/ Answer("granted", Nobody) \/ Answer("denied", Nobody)
          \/ GoTo("approver") /\ UNCHANGED checked
      BY <2>2 DEF CheckPrivilege
    <3> QED
      BY <1>0, <1>1, <3>1, AnswerType DEF GoTo
  <2>3. CASE FindApprover
    <3>1. Nearest(asker) \in People
      BY <1>0, NearestIsCandidate DEF DirectoryTypeOK
    <3> QED
      BY <1>0, <1>1, <2>3, <3>1, AnswerType DEF FindApprover, GoTo
  <2>4. CASE FindManager
    <3>1. org.manager[asker] \in People
      BY <1>0, <2>4, OrgType DEF DirectoryInv, FindManager, QueryInv
    <3> QED
      BY <1>1, <2>4, <3>1, AnswerType DEF FindManager
  <2>5. CASE CheckFails
    BY <1>1, <2>5, AnswerType DEF CheckFails, Unanswered
  <2> QED
    BY <2>1, <2>2, <2>3, <2>4, <2>5 DEF HasPrivilege
<1> QED
  BY <1>0, <1>2, <1>3, AskTypes

(* The queries for an approver keep the types.                             *)
LEMMA ResolveTypes ==
  ASSUME DirectoryInv, ResolveApprover
  PROVE  DirectoryTypeOK'
<1>0. DirectoryTypeOK /\ checked \in Checks /\ approver \in People /\ Nobody \in People
  BY DEF DirectoryInv, DirectoryTypeOK, Checks, People
<1>1. UNCHANGED <<org, up, outages, asker, checked, ticketVars>>
  BY DEF ResolveApprover, SeekApproval, NameApprover, FindApproverAgain, FindManagerAgain,
         ResolutionFails
<1>2. Nearest(asker) \in People
  BY <1>0, NearestIsCandidate DEF DirectoryTypeOK
<1>3. asker # Stranger => org.manager[asker] \in People
  BY <1>0, OrgType DEF DirectoryTypeOK
<1>4. checked.approver \in People
  BY <1>0 DEF Checks
<1>5. step' \in Steps /\ approver' \in People
  BY <1>0, <1>2, <1>3, <1>4
     DEF ResolveApprover, SeekApproval, NameApprover, FindApproverAgain, FindManagerAgain,
         ResolutionFails, Resolved, GoTo, Steps
<1> QED
  BY <1>0, <1>1, <1>5, AskTypes

(* An escalation keeps the types.                                          *)
LEMMA EscalateTypes ==
  ASSUME DirectoryInv, Escalate
  PROVE  DirectoryTypeOK'
<1>0. DirectoryTypeOK
  BY DEF DirectoryInv
<1>1. /\ UNCHANGED <<org, up, outages, askVars>>
      /\ ticket.escalations + 1 \in 0..MaxEscalations
      /\ ticket.owner \in Owners /\ climb \in Seq(Employees)
  <2>1. ticket.escalations < MaxEscalations /\ UNCHANGED <<org, up, outages, askVars>>
    BY <1>0, EscalateCases
  <2>2. ticket.escalations \in 0..MaxEscalations /\ MaxEscalations \in Nat
    BY <1>0, DirectoryAssumption DEF DirectoryTypeOK
  <2>3. QED
    <3>1. ticket.escalations + 1 \in 0..MaxEscalations
      BY <2>1, <2>2
    <3>2. ticket.owner \in Owners /\ climb \in Seq(Employees)
      BY <1>0 DEF DirectoryTypeOK
    <3> QED
      BY <2>1, <3>1, <3>2
<1> DEFINE Tickets == [owner : Owners, team : Teams, escalations : 0..MaxEscalations]
<1>2. ASSUME NEW who \in People, NEW t \in Teams, Assign(who, t)
      PROVE  ticket' \in Tickets
  <2>1. ticket \in Tickets
    BY <1>0 DEF DirectoryTypeOK
  <2> QED
    BY <1>1, <1>2, <2>1 DEF Assign, Owners
<1>3. ASSUME Enqueue PROVE ticket' \in Tickets /\ climb' \in Seq(Employees)
  <2>1. Nobody \in People /\ "it-support" \in Teams
    BY DEF People, Teams
  <2> QED
    BY <1>2, <1>3, <2>1 DEF Enqueue
<1>4. ASSUME NEW t \in Teams, NextUp(org.chain[t], ticket.owner) # Nobody,
             HandTo(NextUp(org.chain[t], ticket.owner), t)
      PROVE  ticket' \in Tickets /\ climb' \in Seq(Employees)
  <2> DEFINE who == NextUp(org.chain[t], ticket.owner)
  <2>1. who \in People /\ who \in Employees
    BY <1>0, <1>1, <1>4, NextUpType DEF People
  <2> HIDE DEF who
  <2>2. Assign(who, t) /\ (climb' = Append(climb, who) \/ climb' = <<who>>)
    BY <1>4 DEF HandTo, who
  <2>3. climb' \in Seq(Employees)
    <3>1. Append(climb, who) \in Seq(Employees) /\ <<who>> \in Seq(Employees)
      BY <1>1, <2>1
    <3> QED
      BY <2>2, <3>1
  <2>4. ticket' \in Tickets
    BY <1>2, <2>1, <2>2
  <2> QED
    BY <2>3, <2>4
<1>5. ticket' \in Tickets /\ climb' \in Seq(Employees)
  BY <1>0, <1>3, <1>4, EscalateCases
<1> QED
  BY <1>0, <1>1, <1>5 DEF DirectoryTypeOK, askVars

(* Every step keeps the types.                                             *)
LEMMA DirectoryTypeStep ==
  ASSUME DirectoryInv, [Next]_vars
  PROVE  DirectoryTypeOK'
<1>0. DirectoryTypeOK
  BY DEF DirectoryInv
<1>1. CASE UNCHANGED vars
  BY <1>0, <1>1 DEF vars, askVars, ticketVars, DirectoryTypeOK
<1>2. CASE GoesDown \/ ComesBack
  <2>1. /\ up' \in BOOLEAN /\ outages' \in 0..MaxOutages
        /\ UNCHANGED <<org, askVars, ticketVars>>
    <3>1. outages \in 0..MaxOutages /\ MaxOutages \in Nat
      BY <1>0, DirectoryAssumption DEF DirectoryTypeOK
    <3>2. outages' = outages \/ (outages < MaxOutages /\ outages' = outages + 1)
      BY <1>2 DEF GoesDown, ComesBack
    <3>3. outages' \in 0..MaxOutages
      BY <3>1, <3>2
    <3> QED
      BY <1>2, <3>3 DEF GoesDown, ComesBack
  <2> QED
    BY <1>0, <2>1 DEF DirectoryTypeOK, askVars, ticketVars
<1>3. CASE Intervene
  <2>1. ticket' \in [owner : Owners, team : Teams, escalations : 0..MaxEscalations]
    BY <1>0, <1>3 DEF Intervene, DirectoryTypeOK, Owners
  <2>2. climb' \in Seq(Employees) /\ UNCHANGED <<org, up, outages, askVars>>
    BY <1>3 DEF Intervene
  <2> QED
    BY <1>0, <2>1, <2>2 DEF DirectoryTypeOK, askVars
<1> QED
  BY <1>1, <1>2, <1>3, CheckTypes, ResolveTypes, EscalateTypes DEF Next

(* Outages are counted.                                                    *)
LEMMA OutagesType ==
  ASSUME DirectoryTypeOK
  PROVE  outages \in Nat
<1>1. outages \in 0..MaxOutages /\ MaxOutages \in Nat
  BY DirectoryAssumption DEF DirectoryTypeOK
<1> QED
  BY <1>1

(* Between two queries of a check, what the first one found stays so.      *)
LEMMA QueryStep ==
  ASSUME DirectoryInv, [Next]_vars
  PROVE  QueryInv'
<1>0. QueryInv /\ DirectoryTypeOK
  BY DEF DirectoryInv
<1>1. UNCHANGED <<org, asker>> /\ Nearest(asker)' = Nearest(asker)
  BY StaysTheSame, NearestStays
<1>2. (step \in {"approver", "manager"} => asker \in org.eligible \ org.holders)'
  BY <1>0, <1>1
     DEF QueryInv, Next, vars, askVars, ticketVars, GoesDown, ComesBack, HasPrivilege,
         ResolveApprover, Ask, CheckPrivilege, FindApprover, FindManager, CheckFails, SeekApproval,
         NameApprover, FindApproverAgain, FindManagerAgain, ResolutionFails, Escalate, Intervene, GoTo,
         Answer, Resolved
<1>3. (step \in {"manager", "manager again"} => Nearest(asker) = Nobody)'
  BY <1>0, <1>1
     DEF QueryInv, Next, vars, askVars, ticketVars, GoesDown, ComesBack, HasPrivilege,
         ResolveApprover, Ask, CheckPrivilege, FindApprover, FindManager, CheckFails, SeekApproval,
         NameApprover, FindApproverAgain, FindManagerAgain, ResolutionFails, Escalate, Intervene, GoTo,
         Answer, Resolved
<1>4. (~up => outages > 0)'
  <2>1. outages \in Nat
    BY <1>0, OutagesType
  <2>2. \/ up' = TRUE
        \/ up' = FALSE /\ outages' = outages + 1
        \/ up' = up /\ outages' = outages
    BY DEF Next, vars, askVars, ticketVars, GoesDown, ComesBack, HasPrivilege,
           ResolveApprover, Ask, CheckPrivilege, FindApprover, FindManager, CheckFails,
           SeekApproval, NameApprover, FindApproverAgain, FindManagerAgain, ResolutionFails,
           Escalate, Intervene
  <2>3. outages' = outages + 1 => outages' > 0
    BY <2>1
  <2>4. ~up => outages > 0
    BY <1>0 DEF QueryInv
  <2> QED
    BY <2>2, <2>3, <2>4
<1> QED
  BY <1>2, <1>3, <1>4 DEF QueryInv

(* The types of Directory, and QueryInv, in every reachable state.         *)
THEOREM DirectoryTypeCorrect == Spec => [](DirectoryTypeOK /\ QueryInv)
<1>1. Init => DirectoryInv
  BY DirectoryTypeInit DEF Init, DirectoryInv, QueryInv
<1>2. DirectoryInv /\ [Next]_vars => DirectoryInv'
  BY DirectoryTypeStep, QueryStep DEF DirectoryInv
<1>3. DirectoryInv => DirectoryTypeOK /\ QueryInv
  BY DEF DirectoryInv
<1> QED
  BY <1>1, <1>2, <1>3, PTL DEF Spec

-----------------------------------------------------------------------------
\* The privilege check fails closed.

(* The check's answer is what the graph says of the employee, or that      *)
(* nobody could be asked (org/service.py:46-101).                          *)
THEOREM ChecksFailClosed == Spec => []FailsClosed
<1>1. Init => FailsClosed
  BY DEF Init, FailsClosed, NotChecked
<1>2. ASSUME DirectoryInv, FailsClosed, [Next]_vars PROVE FailsClosed'
  <2>0. /\ UNCHANGED <<org, asker>> /\ QueryInv /\ DirectoryTypeOK /\ outages \in Nat
    BY <1>2, StaysTheSame, OutagesType DEF DirectoryInv
  <2>1. outages' > 0 \/ outages' = outages
    <3>1. outages' = outages + 1 \/ outages' = outages
      BY <1>2 DEF Next, vars, askVars, ticketVars, GoesDown, ComesBack, HasPrivilege,
           ResolveApprover, Ask, CheckPrivilege, FindApprover, FindManager, CheckFails,
           SeekApproval, NameApprover, FindApproverAgain, FindManagerAgain, ResolutionFails,
           Escalate, Intervene
    <3> QED
      BY <2>0, <3>1
  <2>2. CASE UNCHANGED checked
    BY <1>2, <2>0, <2>1, <2>2 DEF FailsClosed
  <2>3. CASE CheckPrivilege /\ checked' # checked
    <3>1. \/ asker \in org.holders /\ checked' = [verdict |-> "granted", approver |-> Nobody]
          \/ checked' = [verdict |-> "denied", approver |-> Nobody]
      BY <2>3 DEF CheckPrivilege, Answer
    <3> QED
      BY <2>0, <3>1 DEF FailsClosed
  <2>4. CASE FindApprover /\ checked' # checked
    <3>1. /\ asker \in org.eligible \ org.holders
          /\ checked' = [verdict |-> "eligible", approver |-> Nearest(asker)]
          /\ Nearest(asker) # Nobody
      BY <2>0, <2>4 DEF FindApprover, Answer, QueryInv
    <3> QED
      BY <2>0, <3>1 DEF FailsClosed
  <2>5. CASE FindManager
    <3>1. /\ asker \in org.eligible \ org.holders
          /\ checked' = [verdict |-> "eligible", approver |-> org.manager[asker]]
      BY <2>0, <2>5 DEF FindManager, Answer, QueryInv
    <3> QED
      BY <2>0, <3>1 DEF FailsClosed
  <2>6. CASE CheckFails
    <3>1. checked' = [verdict |-> "unavailable", approver |-> Nobody] /\ outages' = outages /\ outages > 0
      BY <2>0, <2>6 DEF CheckFails, Answer, Unanswered, QueryInv
    <3> QED
      BY <2>0, <3>1 DEF FailsClosed
  <2> QED
    BY <1>2, <2>2, <2>3, <2>4, <2>5, <2>6
       DEF Next, vars, askVars, GoesDown, ComesBack, HasPrivilege, ResolveApprover, Ask,
           SeekApproval, NameApprover, FindApproverAgain, FindManagerAgain, ResolutionFails, Escalate, Intervene
<1> QED
  BY <1>1, <1>2, DirectoryTypeCorrect, PTL DEF Spec, DirectoryInv

-----------------------------------------------------------------------------
\* Who is asked to approve

(* What depends on the graph and the employee alone stays the same.        *)
LEMMA CandidateStays ==
  ASSUME UNCHANGED <<org, asker>>, NEW who, Candidate(asker, who)
  PROVE  Candidate(asker, who)'
<1>1. \A x : Above(org', x) = Above(org, x)
  OBVIOUS
<1>2. InReach(asker)' = InReach(asker)
  BY <1>1 DEF InReach
<1> QED
  BY <1>1, <1>2 DEF Candidate

(* The approver the lemmas speak of is the one the property asks for.      *)
LEMMA AskedIsCandidate ==
  ASSUME NEW who
  PROVE  NearestOrManager(who) <=> Candidate(asker, who)
BY DEF NearestOrManager, Candidate

(* The approver is somebody above the employee whose role approves the     *)
(* privilege, the nearest one within MaxHops, or his manager when there    *)
(* is none (org/queries.py:56-68, workflows/approval.py:24-44).            *)
THEOREM NearestAsked == Spec => []NearestApproverAsked
<1>1. Init => NearestApproverAsked
  BY DEF Init, NearestApproverAsked, NotChecked
<1>2. ASSUME DirectoryInv, NearestApproverAsked, [Next]_vars PROVE NearestApproverAsked'
  <2>0. /\ UNCHANGED <<org, asker>> /\ QueryInv /\ DirectoryTypeOK
        /\ asker \in Employees \cup {Stranger}
    BY <1>2, StaysTheSame DEF DirectoryInv, DirectoryTypeOK
  <2>1. ASSUME NEW who, who # Nobody, who \in {checked.approver, approver}
        PROVE  Candidate(asker, who)
    BY <1>2, <2>1, AskedIsCandidate DEF NearestApproverAsked
  <2>2. Nearest(asker) # Nobody => Candidate(asker, Nearest(asker))
    BY <2>0, NearestIsCandidate
  <2>3. ASSUME step \in {"manager", "manager again"}, asker # Stranger, org.manager[asker] # Nobody
        PROVE  Candidate(asker, org.manager[asker])
    BY <2>0, <2>3, ManagerIsCandidate DEF QueryInv
  <2>4. FindManager => asker # Stranger
    BY <2>0, OrgType, DirectoryAssumption DEF FindManager, QueryInv
  <2>5. ASSUME NEW who \in {checked'.approver, approver'}, who # Nobody
        PROVE  Candidate(asker, who)
    <3>1. CASE UNCHANGED <<checked, approver>>
      BY <2>1, <2>5, <3>1
    <3>2. CASE HasPrivilege
      <4>1. \/ who \in {checked.approver, approver}
            \/ who = Nearest(asker)
            \/ FindManager /\ who = org.manager[asker]
        BY <2>5, <3>2
           DEF HasPrivilege, Ask, CheckPrivilege, FindApprover, FindManager, CheckFails, Answer
      <4> QED
        BY <2>1, <2>2, <2>3, <2>4, <2>5, <4>1 DEF FindManager
    <3>3. CASE ResolveApprover
      <4>1. \/ who \in {checked.approver, approver}
            \/ who = Nearest(asker)
            \/ step = "manager again" /\ asker # Stranger /\ who = org.manager[asker]
        BY <2>5, <3>3
           DEF ResolveApprover, SeekApproval, NameApprover, FindApproverAgain, FindManagerAgain,
               ResolutionFails, Resolved
      <4> QED
        BY <2>1, <2>2, <2>3, <2>5, <4>1
    <3> QED
      BY <1>2, <3>1, <3>2, <3>3 DEF Next, vars, askVars, GoesDown, ComesBack, Escalate, Intervene
  <2>6. ASSUME NEW who \in ({checked.approver, approver} \ {Nobody})' PROVE NearestOrManager(who)'
    <3>1. who \in {checked'.approver, approver'} /\ who # Nobody
      OBVIOUS
    <3>2. Candidate(asker, who)
      BY <2>5, <3>1
    <3>3. Candidate(asker, who)'
      BY <2>0, <3>2, CandidateStays
    <3> QED
      BY <3>3 DEF NearestOrManager, Candidate
  <2> QED
    BY <2>6 DEF NearestApproverAsked
<1> QED
  BY <1>1, <1>2, DirectoryTypeCorrect, PTL DEF Spec, DirectoryInv

-----------------------------------------------------------------------------
\* The ticket's climb

(* The owners of a climb are consecutive in one chain, and the ticket is   *)
(* with the last of them.                                                  *)
Climbs(t, from) ==
  /\ \A i \in DOMAIN climb : from + i \in DOMAIN org.chain[t] /\ climb[i] = org.chain[t][from + i]
  /\ climb # <<>> => ticket.owner = climb[Len(climb)]

ClimbInv == \E t \in Teams : \E from \in 0..Len(org.chain[t]) : Climbs(t, from)

(* Whoever takes over stands one level above the owner, in the one chain   *)
(* in which the owner has somebody above him.                              *)
LEMMA ClimbGoesOn ==
  ASSUME DirectoryTypeOK, ClimbInv, NEW t \in Teams, NEW who, who # Nobody,
         who = NextUp(org.chain[t], ticket.owner), HandTo(who, t), org' = org
  PROVE  ClimbInv'
<1> DEFINE chain == org.chain[t]
<1>1. /\ \A u \in Teams : org.chain[u] \in Seq(Employees) /\ org.chain[u] # <<>>
      /\ chain \in Seq(Employees) /\ Len(chain) \in Nat /\ Len(chain) > 0
  BY OrgType DEF Sound
<1>2. ticket'.owner = who
  <2>1. ticket \in [owner : Owners, team : Teams, escalations : 0..MaxEscalations]
    BY DEF DirectoryTypeOK
  <2> QED
    BY <2>1 DEF HandTo, Assign
<1>3. climb \in Seq(Employees)
  BY DEF DirectoryTypeOK
<1>4. who \in Employees
  <2>1. who \in People
    BY NextUpType DEF DirectoryTypeOK
  <2> QED
    BY <2>1 DEF People
<1>5. ASSUME NEW u \in Teams, NEW from \in 0..Len(org.chain[u]), Climbs(u, from)'
      PROVE  ClimbInv'
  BY <1>5 DEF ClimbInv
<1>6. CASE ~InChain(chain, ticket.owner)
  <2>1. climb' = <<who>> /\ who = chain[1]
    BY <1>6 DEF HandTo, NextUp
  <2>2. Climbs(t, 0)'
    <3>1. DOMAIN climb' = {1} /\ climb'[1] = chain[1] /\ Len(climb') = 1 /\ 0 + 1 \in DOMAIN chain
      BY <1>1, <2>1
    <3> QED
      BY <1>2, <2>1, <3>1 DEF Climbs
  <2>3. 0 \in 0..Len(chain)
    BY <1>1
  <2> QED
    BY <1>5, <2>2, <2>3
<1>7. CASE InChain(chain, ticket.owner)
  <2>1. PICK l \in DOMAIN chain : l = Level(chain, ticket.owner) /\ chain[l] = ticket.owner
    BY <1>7 DEF InChain, Level
  <2>2. l < Len(chain) /\ who = chain[l + 1] /\ climb' = Append(climb, who)
    BY <1>7, <2>1 DEF HandTo, NextUp
  <2>3. l \in Nat /\ l \in 1..Len(chain) /\ l + 1 \in 1..Len(chain) /\ DOMAIN chain = 1..Len(chain)
    BY <1>1, <2>1, <2>2
  <2>4. Len(climb) \in Nat /\ DOMAIN climb = 1..Len(climb)
    BY <1>3
  <2>5. CASE climb = <<>>
    <3>1. climb' = <<who>>
      BY <2>2, <2>5
    <3>2. Climbs(t, l)'
      <4>1. DOMAIN climb' = {1} /\ climb'[1] = chain[l + 1] /\ Len(climb') = 1
        BY <2>2, <3>1
      <4> QED
        BY <1>2, <2>2, <2>3, <3>1, <4>1 DEF Climbs
    <3>3. l \in 0..Len(chain)
      BY <2>3
    <3> QED
      BY <1>5, <3>2, <3>3
  <2>6. CASE climb # <<>>
    <3>0. PICK u \in Teams : \E from \in 0..Len(org.chain[u]) : Climbs(u, from)
      BY DEF ClimbInv
    <3>1. PICK from \in 0..Len(org.chain[u]) : Climbs(u, from)
      BY <3>0
    <3> DEFINE n == Len(climb)
    <3>2. n \in Nat /\ n \in DOMAIN climb /\ DOMAIN climb = 1..n
      BY <1>3, <2>6
    <3>3. /\ from + n \in DOMAIN org.chain[u] /\ org.chain[u][from + n] = ticket.owner
      BY <2>6, <3>1, <3>2 DEF Climbs
    <3>4. u = t /\ from + n = l
      <4>1. IF u = t THEN from + n = l
            ELSE from + n = Len(org.chain[u]) /\ l = Len(chain)
        BY <2>1, <3>3, OrgType DEF Sound
      <4> QED
        BY <2>2, <2>3, <4>1
    <3>5. Climbs(t, from)'
      <4>1. from \in Nat /\ Len(climb') = n + 1 /\ DOMAIN climb' = 1..(n + 1)
            /\ climb'[n + 1] = who /\ \A i \in 1..n : climb'[i] = climb[i]
        BY <1>1, <1>3, <1>4, <2>2, <3>1
      <4>2. ASSUME NEW i \in DOMAIN climb'
            PROVE  from + i \in DOMAIN chain /\ climb'[i] = chain[from + i]
        <5>1. CASE i \in 1..n
          BY <3>1, <3>2, <3>4, <4>1, <5>1 DEF Climbs
        <5>2. CASE i = n + 1
          <6>1. from + i = l + 1
            BY <3>2, <3>4, <4>1, <5>2
          <6> QED
            BY <2>2, <2>3, <4>1, <5>2, <6>1
        <5>3. i \in 1..n \/ i = n + 1
          BY <3>2, <4>1
        <5> QED
          BY <5>1, <5>2, <5>3
      <4> HIDE DEF n
      <4> QED
        BY <1>2, <4>1, <4>2 DEF Climbs
    <3> QED
      BY <1>5, <3>1, <3>4, <3>5
  <2> QED
    BY <2>5, <2>6
<1> QED
  BY <1>6, <1>7

(* Escalations that stay in one chain climb it level by level: nobody is   *)
(* left out, and nobody gets a ticket back (org/service.py:119-129), since *)
(* only the last of a chain is in another one.                             *)
THEOREM ClimbsLevelByLevel == Spec => []ClimbSkipsNobody
<1>1. Init => ClimbInv
  <2> SUFFICES ASSUME Init PROVE ClimbInv
    OBVIOUS
  <2>1. DirectoryTypeOK /\ climb = <<>>
    BY DirectoryTypeInit DEF Init
  <2>2. "it-support" \in Teams /\ Len(org.chain["it-support"]) \in Nat
    BY <2>1, OrgType DEF Teams
  <2>3. Climbs("it-support", 0) /\ 0 \in 0..Len(org.chain["it-support"])
    BY <2>1, <2>2 DEF Climbs
  <2> QED
    BY <2>2, <2>3 DEF ClimbInv
<1>2. ASSUME DirectoryInv, ClimbInv, [Next]_vars PROVE ClimbInv'
  <2>0. DirectoryTypeOK /\ org' = org
    BY <1>2, StaysTheSame DEF DirectoryInv
  <2>1. CASE UNCHANGED ticketVars
    BY <1>2, <2>0, <2>1 DEF ClimbInv, Climbs, ticketVars
  <2>2. ASSUME climb' = <<>> PROVE ClimbInv'
    <3>1. "it-support" \in Teams /\ Len(org.chain["it-support"]) \in Nat
      BY <2>0, OrgType DEF Teams
    <3>2. Climbs("it-support", 0)' /\ 0 \in 0..Len(org.chain["it-support"])
      BY <2>2, <3>1 DEF Climbs
    <3> QED
      BY <2>0, <3>1, <3>2 DEF ClimbInv
  <2>3. CASE Escalate
    <3>1. CASE Enqueue
      BY <2>2, <3>1 DEF Enqueue
    <3> QED
      BY <1>2, <2>0, <2>3, <3>1, EscalateCases, ClimbGoesOn
  <2> QED
    BY <1>2, <2>1, <2>2, <2>3
       DEF Next, vars, GoesDown, ComesBack, HasPrivilege, ResolveApprover, Ask,
           CheckPrivilege, FindApprover, FindManager, CheckFails, SeekApproval, NameApprover,
           FindApproverAgain, FindManagerAgain, ResolutionFails, Intervene
<1>3. ClimbInv => ClimbSkipsNobody
  BY DEF ClimbInv, Climbs, ClimbSkipsNobody
<1> QED
  BY <1>1, <1>2, <1>3, DirectoryTypeCorrect, PTL DEF Spec, DirectoryInv
=============================================================================
