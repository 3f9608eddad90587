--------------------------- MODULE RemediationProofs ---------------------------
(***************************************************************************)
(* For every set of publishers, operators, risks and deployments: types,   *)
(* the audit trail of statuses, the shutdown, what supports a              *)
(* recommendation, an explanation and a cached one, and when an incident   *)
(* has only one of each.                                                   *)
(***************************************************************************)
EXTENDS RemediationChain, TLAPS

-----------------------------------------------------------------------------
(* Types.                                                                  *)

TablesOK ==
    /\ rows \in [IncidentId -> Rows \cup {NoRow}]
    /\ timeline \in [IncidentId -> SUBSET IncidentStatus]
    /\ newest \in [IncidentId -> IncidentStatus \cup {"none"}]
    /\ seq \in 0..MaxIncidents /\ undone \subseteq IncidentId /\ clock \in Nat
    /\ deployment \in Deployments

ThreadsOK ==
    /\ pc \in [Threads -> Stage]
    /\ local \in [Threads -> Local]
    /\ \A t \in Threads :
        /\ pc[t] \in Searching => local[t].interface \in Interfaces /\ local[t].type \in Types
        /\ pc[t] \in {"stamp", "insert"} => local[t].next < MaxIncidents
        /\ pc[t] \in Holding => local[t].incident \in IncidentId /\ local[t].row \in Rows

LEMMA TypeParts == TypeOK <=> TablesOK /\ ThreadsOK
  BY DEF TypeOK, TablesOK, ThreadsOK

LEMMA TypePartsNext == TypeOK' <=> TablesOK' /\ ThreadsOK'
  BY DEF TypeOK, TablesOK, ThreadsOK

LEMMA SeverityType == ASSUME NEW risk PROVE MapRiskToSeverity(risk) \in Severity
  BY DEF MapRiskToSeverity, Severity

LEMMA TransitionType ==
    ASSUME NEW row \in Rows, NEW to \in IncidentStatus
    PROVE  Transition(row, to) \in Rows
<1>1. [row EXCEPT !.status = to] \in Rows
  BY DEF Rows
<1> DEFINE r == [row EXCEPT !.status = to]
<1>2. [r EXCEPT !.resolved = row.resolved \/ to = "RESOLVED"] \in Rows
  BY <1>1 DEF Rows
<1> QED
  BY <1>1, <1>2 DEF Transition, Rows

LEMMA NoRowIsNone == NoRow \notin Rows
  BY DEF NoRow, Rows, IncidentStatus

LEMMA NoLocalType == NoLocal \in Local /\ NoLocal.row = NoRow
  BY IncidentAssumption DEF NoLocal, Local

(* A thread goes on with what it had, or with something new in its place.  *)
LEMMA GoesOn ==
    ASSUME ThreadsOK, NEW t \in Threads, NEW stage \in Stage, Goto(t, stage),
           local' = local,
           stage \in Holding => pc[t] \in Holding,
           stage \in Searching => pc[t] \in Searching,
           stage \in {"stamp", "insert"} => local[t].next < MaxIncidents
    PROVE  ThreadsOK'
  BY DEF ThreadsOK, Goto

LEMMA GoesOnWith ==
    ASSUME ThreadsOK, NEW t \in Threads, NEW stage \in Stage, Goto(t, stage),
           NEW l \in Local, Remember(t, l),
           stage \in Holding => l.incident \in IncidentId /\ l.row \in Rows,
           stage \in Searching => l.interface \in Interfaces /\ l.type \in Types,
           stage \in {"stamp", "insert"} => l.next < MaxIncidents
    PROVE  ThreadsOK'
  BY DEF ThreadsOK, Goto, Remember

(* The sequences of the recommendations and of the results.                *)
NumbersOK == adviceSeq \in 0..MaxAdvice /\ knowledgeSeq \in 0..MaxAdvice

LEMMA NumbersStep == NumbersOK /\ [ChainNext]_allVars => NumbersOK'
<1> SUFFICES ASSUME NumbersOK, [ChainNext]_allVars PROVE NumbersOK'
  OBVIOUS
<1>1. CASE UNCHANGED <<adviceSeq, knowledgeSeq>>
  BY <1>1 DEF NumbersOK
<1>2. ASSUME NEW t \in Publishers, NumberAdvice(t) \/ NumberKnowledge(t) PROVE NumbersOK'
  BY <1>2, ChainAssumption DEF NumberAdvice, NumberKnowledge, NumbersOK
<1> QED
  BY <1>1, <1>2
     DEF ChainNext, FindAdvice, AmendAdvice, CreateAdvice, LookUpCache, FindKnowledge, Generate,
         SaveKnowledge, CacheKnowledge, ChainBreaks, CacheExpires, allVars, chainVars

LEMMA Numbers == ChainSpec => []NumbersOK
<1>1. ChainInit => NumbersOK
  BY ChainAssumption DEF ChainInit, NumbersOK
<1> QED
  BY <1>1, NumbersStep, PTL DEF ChainSpec

LEMMA TypeInit == ChainInit => TypeOK
<1> SUFFICES ASSUME ChainInit PROVE TypeOK
  OBVIOUS
<1>1. /\ rows \in [IncidentId -> Rows \cup {NoRow}]
      /\ timeline \in [IncidentId -> SUBSET IncidentStatus]
      /\ newest \in [IncidentId -> IncidentStatus \cup {"none"}]
      /\ seq \in 0..MaxIncidents /\ undone \subseteq IncidentId /\ clock \in Nat
      /\ deployment \in Deployments
  BY IncidentAssumption DEF ChainInit, Init, IncidentInit
<1>2. pc \in [Threads -> Stage] /\ local \in [Threads -> Local]
  BY NoLocalType DEF ChainInit, Init, Stage
<1>3. \A t \in Threads : pc[t] \notin Searching /\ pc[t] \notin Holding /\ pc[t] \notin {"stamp", "insert"}
  BY DEF ChainInit, Init, Searching, Holding
<1> QED
  BY <1>1, <1>2, <1>3 DEF TypeOK

LEMMA TypeStep == TypeOK /\ NumbersOK /\ [ChainNext]_allVars => TypeOK'
<1> SUFFICES ASSUME TypeOK, NumbersOK, [ChainNext]_allVars PROVE TablesOK' /\ ThreadsOK'
  BY TypePartsNext
<1> TablesOK /\ ThreadsOK
  BY TypeParts
<1> USE DEF Only
<1>1. ASSUME NEW t \in Publishers, Publish(t) PROVE TablesOK' /\ ThreadsOK'
  <2>1. PICK iface \in Interfaces, ty \in Types, risk \in Risks :
          Remember(t, [NoLocal EXCEPT !.interface = iface, !.type = ty, !.risk = risk])
    BY <1>1 DEF Publish
  <2> DEFINE l == [NoLocal EXCEPT !.interface = iface, !.type = ty, !.risk = risk]
  <2>2. l \in Local /\ l.interface \in Interfaces /\ l.type \in Types
    BY NoLocalType DEF Local
  <2>4. Remember(t, l)
    BY <2>1
  <2> HIDE DEF l
  <2>3. ThreadsOK'
    BY <1>1, <2>2, <2>4, GoesOnWith DEF Publish, Threads, Stage, Holding, Searching
  <2> QED
    BY <1>1, <2>3 DEF Publish, incidentVars, TablesOK
<1>2. ASSUME NEW t \in Publishers, ExecuteBegin(t) PROVE TablesOK' /\ ThreadsOK'
  BY <1>2, GoesOn DEF ExecuteBegin, Threads, Stage, Holding, Searching, incidentVars, TablesOK
<1>3. ASSUME NEW t \in Publishers, Find(t) \/ FindFallback(t) PROVE TablesOK' /\ ThreadsOK'
  <2>1. TablesOK'
    BY <1>3 DEF Find, FindFallback, incidentVars, TablesOK
  <2>2. ASSUME NEW i \in IncidentId, rows[i] \in Rows, Goto(t, "decide"),
               Remember(t, [local[t] EXCEPT !.incident = i, !.row = rows[i]])
        PROVE  ThreadsOK'
    <3> DEFINE l == [local[t] EXCEPT !.incident = i, !.row = rows[i]]
    <3>1. l \in Local /\ l.incident = i /\ l.row = rows[i]
      BY <2>2 DEF ThreadsOK, Threads, Local
    <3>2. Remember(t, l)
      BY <2>2
    <3> HIDE DEF l
    <3> QED
      BY <2>2, <3>1, <3>2, GoesOnWith DEF Threads, Stage, Holding, Searching
  <2>3. \A iface, types : \A i \in FindActive(iface, types) : i \in IncidentId /\ rows[i] \in Rows
    BY DEF FindActive, Active, TablesOK, NoRow
  <2>4. CASE local' = local /\ pc[t] \in Searching
             /\ \E stage \in {"fallback", "read", "end"} : Goto(t, stage)
    BY <2>1, <2>4, GoesOn DEF Threads, Stage, Holding, Searching
  <2>5. CASE \E iface, types : Take(t, FindActive(iface, types)) /\ Goto(t, "decide")
    <3>1. PICK iface, types : Take(t, FindActive(iface, types)) /\ Goto(t, "decide")
      BY <2>5
    <3>2. PICK i \in FindActive(iface, types) :
            Remember(t, [local[t] EXCEPT !.incident = i, !.row = rows[i]])
      BY <3>1 DEF Take
    <3>3. i \in IncidentId /\ rows[i] \in Rows
      BY <2>3, <3>2
    <3> QED
      BY <2>1, <2>2, <3>1, <3>2, <3>3
  <2> QED
    <3>1. \/ local' = local /\ pc[t] \in Searching
             /\ \E stage \in {"fallback", "read", "end"} : Goto(t, stage)
          \/ \E iface, types : Take(t, FindActive(iface, types)) /\ Goto(t, "decide")
      BY <1>3, Zenon DEF Find, FindFallback, Searching
    <3> QED
      BY <2>4, <2>5, <3>1
<1>4. ASSUME NEW t \in Publishers, WriteBack(t) PROVE TablesOK' /\ ThreadsOK'
  <2> DEFINE heals == ShouldAutoResolve(local[t].risk)
             row == IF heals THEN Transition(local[t].row, "RESOLVED")
                    ELSE [local[t].row EXCEPT !.severity = MapRiskToSeverity(local[t].risk)]
  <2>1. local[t] \in Local /\ local[t].incident \in IncidentId /\ local[t].row \in Rows
    BY <1>4 DEF WriteBack, ThreadsOK, Threads, Holding
  <2>2. row \in Rows
    <3>1. [local[t].row EXCEPT !.severity = MapRiskToSeverity(local[t].risk)] \in Rows
      BY <2>1, SeverityType DEF Rows
    <3> QED
      BY <2>1, <3>1, TransitionType DEF IncidentStatus
  <2> HIDE DEF row
  <2>3. /\ UpdateIncident(local[t].incident, local[t].row, row, IF heals THEN {"RESOLVED"} ELSE {})
        /\ Remember(t, [local[t] EXCEPT !.row = row])
        /\ Goto(t, "advise") \/ Goto(t, "end")
        /\ UNCHANGED <<deployment, clock>>
    BY <1>4 DEF WriteBack, row
  <2>4. TablesOK'
    BY <2>1, <2>2, <2>3 DEF UpdateIncident, TablesOK, IncidentStatus
  <2>5. [local[t] EXCEPT !.row = row] \in Local
    BY <2>1, <2>2 DEF Local
  <2>6. ThreadsOK'
    BY <2>1, <2>2, <2>3, <2>5, GoesOnWith DEF Threads, Stage, Holding, Searching, Local
  <2> QED
    BY <2>4, <2>6
<1>5. ASSUME NEW t \in Publishers, ReadSequence(t) PROVE TablesOK' /\ ThreadsOK'
  <2> DEFINE l == [local[t] EXCEPT !.next = seq]
  <2>1. /\ l \in Local /\ Remember(t, l)
        /\ l.interface \in Interfaces /\ l.type \in Types
    BY <1>5 DEF ReadSequence, TablesOK, ThreadsOK, Threads, Searching, Local
  <2> HIDE DEF l
  <2>2. ThreadsOK'
    BY <1>5, <2>1, GoesOnWith DEF ReadSequence, Threads, Stage, Holding, Searching
  <2> QED
    BY <1>5, <2>2 DEF ReadSequence, incidentVars, TablesOK
<1>6. ASSUME NEW t \in Publishers, WriteSequence(t) PROVE TablesOK' /\ ThreadsOK'
  <2>1. local[t].next \in 0..MaxIncidents
    BY DEF ThreadsOK, Threads, Local
  <2>2. TablesOK'
    BY <1>6, <2>1, IncidentAssumption DEF WriteSequence, ReadClock, TablesOK
  <2>3. ThreadsOK'
    BY <1>6, GoesOn DEF WriteSequence, ReadClock, Threads, Stage, Holding, Searching
  <2> QED
    BY <2>2, <2>3
<1>17. ASSUME NEW t \in Publishers, ReadClock(t) PROVE TablesOK' /\ ThreadsOK'
  <2> DEFINE l == [local[t] EXCEPT !.created = clock']
  <2>1. clock' \in Nat
    BY <1>17 DEF ReadClock, TablesOK
  <2>2. /\ l \in Local /\ Remember(t, l) /\ l.next < MaxIncidents
        /\ l.interface \in Interfaces /\ l.type \in Types
    BY <1>17, <2>1 DEF ReadClock, ThreadsOK, Threads, Searching, Local
  <2> HIDE DEF l
  <2>3. ThreadsOK'
    BY <1>17, <2>2, GoesOnWith DEF ReadClock, Threads, Stage, Holding, Searching
  <2> QED
    BY <1>17, <2>1, <2>3 DEF ReadClock, incidentVars, TablesOK
<1>7. ASSUME NEW t \in Publishers, Insert(t) PROVE TablesOK' /\ ThreadsOK'
  <2> DEFINE l == local[t]
             i == l.next + 1
             row == [interface |-> l.interface, type |-> l.type, status |-> "OPEN",
                     severity |-> MapRiskToSeverity(l.risk), resolved |-> FALSE, closed |-> FALSE,
                     created |-> l.created]
  <2>1. CASE UNCHANGED <<incidentVars, local>> /\ Goto(t, "end")
    BY <1>7, <2>1, GoesOn DEF Insert, Threads, Stage, Holding, Searching, incidentVars, TablesOK
  <2>2. CASE /\ CreateIncident(i, row)
             /\ Remember(t, [l EXCEPT !.incident = i, !.row = row])
             /\ Goto(t, "advise") \/ Goto(t, "end")
    <3>1. /\ l \in Local /\ l.next \in 0..MaxIncidents /\ l.next < MaxIncidents
          /\ l.interface \in Interfaces /\ l.type \in Types /\ l.created \in Nat
      BY <1>7 DEF Insert, ThreadsOK, Threads, Searching, Local
    <3>2. i \in IncidentId
      BY <3>1, IncidentAssumption DEF IncidentId
    <3>3. row \in Rows
      BY <3>1, SeverityType DEF Rows, IncidentStatus
    <3> HIDE DEF row, i
    <3> DEFINE m == [l EXCEPT !.incident = i, !.row = row]
    <3>4. m \in Local /\ m.incident = i /\ m.row = row /\ Remember(t, m)
      BY <2>2, <3>1, <3>2, <3>3 DEF Local
    <3> HIDE DEF m
    <3>5. ThreadsOK'
      BY <2>2, <3>2, <3>3, <3>4, GoesOnWith DEF Threads, Stage, Holding, Searching
    <3>7. row.status \in IncidentStatus
      BY <3>3 DEF Rows
    <3>6. TablesOK'
      BY <1>7, <2>2, <3>2, <3>3, <3>7 DEF Insert, CreateIncident, TablesOK
    <3> QED
      BY <3>5, <3>6
  <2> QED
    BY <1>7, <2>1, <2>2 DEF Insert
<1>8. ASSUME NEW t \in Publishers, DatabaseRaises(t) PROVE TablesOK' /\ ThreadsOK'
  BY <1>8, GoesOn DEF DatabaseRaises, Threads, Stage, Holding, Searching, incidentVars, TablesOK
<1>9. ASSUME NEW t \in Publishers, ExecuteEnd(t) PROVE TablesOK' /\ ThreadsOK'
  BY <1>9, GoesOnWith, NoLocalType
     DEF ExecuteEnd, Threads, Stage, Holding, Searching, incidentVars, TablesOK
<1>10. ASSUME NEW t \in Operators, ReadIncident(t) PROVE TablesOK' /\ ThreadsOK'
  <2>1. PICK i \in IncidentId : /\ rows[i] # NoRow
                                /\ Remember(t, [local[t] EXCEPT !.incident = i, !.row = rows[i]])
    BY <1>10 DEF ReadIncident
  <2>2. rows[i] \in Rows
    BY <2>1 DEF TablesOK
  <2> DEFINE l == [local[t] EXCEPT !.incident = i, !.row = rows[i]]
  <2>3. l \in Local /\ l.incident = i /\ l.row = rows[i] /\ Remember(t, l)
    BY <2>1, <2>2 DEF ThreadsOK, Threads, Local
  <2> HIDE DEF l
  <2>4. ThreadsOK'
    BY <1>10, <2>2, <2>3, GoesOnWith DEF ReadIncident, Threads, Stage, Holding, Searching
  <2> QED
    BY <1>10, <2>4 DEF ReadIncident, incidentVars, TablesOK
<1>11. ASSUME NEW t \in Operators, ChangeStatus(t) PROVE TablesOK' /\ ThreadsOK'
  <2>1. ThreadsOK'
    BY <1>11, GoesOnWith, NoLocalType DEF ChangeStatus, Threads, Stage, Holding, Searching
  <2>2. local[t].incident \in IncidentId /\ local[t].row \in Rows
    BY <1>11 DEF ChangeStatus, ThreadsOK, Threads, Holding
  <2>3. PICK to \in Targets :
          \/ UpdateIncident(local[t].incident, local[t].row, Transition(local[t].row, to),
                            {to} \ {local[t].row.status})
          \/ UNCHANGED incidentVars
    BY <1>11 DEF ChangeStatus
  <2>4. to \in IncidentStatus
    BY AgentAssumption
  <2>5. Transition(local[t].row, to) \in Rows
    BY <2>2, <2>4, TransitionType
  <2>6. TablesOK'
    BY <1>11, <2>2, <2>3, <2>4, <2>5 DEF ChangeStatus, UpdateIncident, incidentVars, TablesOK
  <2> QED
    BY <2>1, <2>6
<1>12. ASSUME Unsubscribe \/ Shutdown PROVE TablesOK' /\ ThreadsOK'
  BY <1>12 DEF Unsubscribe, Shutdown, incidentVars, TablesOK, ThreadsOK
<1>13. ASSUME NEW t \in Publishers,
              \/ AmendAdvice(t) \/ CreateAdvice(t) \/ LookUpCache(t)
              \/ Generate(t) \/ SaveKnowledge(t) \/ CacheKnowledge(t) \/ ChainBreaks(t)
       PROVE  TablesOK' /\ ThreadsOK'
  <2>1. /\ local' = local
        /\ \E to \in {"end", "explain", "lookup", "numberResult", "cache"} :
             Goto(t, to) /\ (to # "end" => pc[t] \in Holding)
    BY <1>13 DEF AmendAdvice, CreateAdvice, LookUpCache, Generate, SaveKnowledge, CacheKnowledge,
                 ChainBreaks, Step, Holding
  <2>2. ThreadsOK'
    BY <2>1, GoesOn DEF Threads, Stage, Holding, Searching
  <2> QED
    BY <1>13, <2>2 DEF AmendAdvice, CreateAdvice, LookUpCache, Generate,
                       SaveKnowledge, CacheKnowledge, ChainBreaks, Here, incidentVars, TablesOK
<1>14. ASSUME NEW t \in Publishers,
              FindAdvice(t) \/ NumberAdvice(t) \/ NumberKnowledge(t) \/ FindKnowledge(t)
       PROVE  TablesOK' /\ ThreadsOK'
  <2>1. PICK to \in {"amend", "numberAdvice", "create", "save", "cache", "generate"} :
          Goto(t, to) /\ pc[t] \in Holding
    BY <1>14 DEF FindAdvice, NumberAdvice, NumberKnowledge, FindKnowledge, Step, Holding
  <2>2. \/ local' = local
        \/ \E n \in Nat : Remember(t, [local[t] EXCEPT !.advice = n])
        \/ \E n \in Nat : Remember(t, [local[t] EXCEPT !.knowledge = n])
    <3>1. CASE FindAdvice(t)
      <4>1. \/ local' = local
            \/ \E n \in Number : Remember(t, [local[t] EXCEPT !.advice = n])
        BY <3>1, Zenon DEF FindAdvice
      <4> QED
        BY <4>1, ChainAssumption DEF Number
    <3>2. CASE NumberAdvice(t)
      <4>1. adviceSeq' \in Nat /\ Remember(t, [local[t] EXCEPT !.advice = adviceSeq'])
        BY <3>2, ChainAssumption DEF NumberAdvice, NumbersOK
      <4> QED
        BY <4>1
    <3>3. CASE NumberKnowledge(t)
      <4>1. knowledgeSeq' \in Nat /\ Remember(t, [local[t] EXCEPT !.knowledge = knowledgeSeq'])
        BY <3>3, ChainAssumption DEF NumberKnowledge, NumbersOK
      <4> QED
        BY <4>1
    <3>4. CASE FindKnowledge(t)
      <4>1. \/ local' = local
            \/ \E n \in Number : Remember(t, [local[t] EXCEPT !.knowledge = n])
        BY <3>4, Zenon DEF FindKnowledge
      <4>2. Number \subseteq Nat
        BY ChainAssumption DEF Number
      <4> QED
        BY <4>1, <4>2
    <3> QED
      BY <1>14, <3>1, <3>2, <3>3, <3>4
  <2>3. /\ local[t] \in Local /\ local[t].incident \in IncidentId /\ local[t].row \in Rows
    BY <2>1 DEF ThreadsOK, Threads
  <2>4. ASSUME NEW l \in Local, Remember(t, l),
               l.incident = local[t].incident, l.row = local[t].row
        PROVE  ThreadsOK'
    BY <2>1, <2>3, <2>4, GoesOnWith DEF Threads, Stage, Holding, Searching
  <2>5. ASSUME NEW n \in Nat
        PROVE  /\ [local[t] EXCEPT !.advice = n] \in Local
               /\ [local[t] EXCEPT !.knowledge = n] \in Local
    BY <2>3 DEF Local
  <2>6. ThreadsOK'
    <3>1. CASE local' = local
      BY <2>1, <3>1, GoesOn DEF Threads, Stage, Holding, Searching
    <3> QED
      BY <2>2, <2>3, <2>4, <2>5, <3>1 DEF Local
  <2> QED
    BY <1>14, <2>6 DEF FindAdvice, NumberAdvice, NumberKnowledge, FindKnowledge, Here, incidentVars,
                       TablesOK
<1>15. ASSUME CacheExpires \/ UNCHANGED allVars PROVE TablesOK' /\ ThreadsOK'
  BY <1>15 DEF CacheExpires, Here, allVars, vars, incidentVars, TablesOK, ThreadsOK
<1> QED
  BY <1>1, <1>2, <1>3, <1>4, <1>5, <1>6, <1>7, <1>8, <1>9, <1>10, <1>11, <1>12, <1>13, <1>14,
     <1>15, <1>17 DEF ChainNext, Next

(* Whatever happens between the calls of a thread, the tables hold whole   *)
(* incidents and a thread works on one that has a number and a row.        *)
THEOREM TypeCorrect == ChainSpec => []TypeOK
  BY TypeInit, TypeStep, Numbers, PTL DEF ChainSpec

-----------------------------------------------------------------------------

(* One thread at a time.                                                   *)
Moves(u) == /\ \E stage : Goto(u, stage)
            /\ local' = local \/ \E l : Remember(u, l)

LEMMA OthersStay ==
    ASSUME TypeOK, NEW u \in Threads, Moves(u), NEW t \in Threads, t # u
    PROVE  pc'[t] = pc[t] /\ local'[t] = local[t]
<1>1. pc'[t] = pc[t]
  BY DEF Moves, Goto, TypeOK
<1>2. local'[t] = local[t]
  BY DEF Moves, Remember, TypeOK
<1> QED
  BY <1>1, <1>2

LEMMA ActorsMove ==
    /\ \A u \in Publishers :
        \/ Publish(u) \/ ExecuteBegin(u) \/ Find(u) \/ FindFallback(u) \/ WriteBack(u)
        \/ ReadSequence(u) \/ WriteSequence(u) \/ ReadClock(u) \/ Insert(u)
        \/ DatabaseRaises(u) \/ ExecuteEnd(u)
        => u \in Threads /\ Moves(u)
    /\ \A u \in Publishers :
        \/ FindAdvice(u) \/ AmendAdvice(u) \/ NumberAdvice(u) \/ CreateAdvice(u)
        \/ LookUpCache(u) \/ FindKnowledge(u) \/ Generate(u) \/ NumberKnowledge(u)
        \/ SaveKnowledge(u) \/ CacheKnowledge(u) \/ ChainBreaks(u)
        => u \in Threads /\ Moves(u)
    /\ \A u \in Operators : ReadIncident(u) \/ ChangeStatus(u) => u \in Threads /\ Moves(u)
<1>1. ASSUME NEW u \in Publishers,
             \/ Publish(u) \/ ExecuteBegin(u) \/ Find(u) \/ FindFallback(u) \/ WriteBack(u)
             \/ ReadSequence(u) \/ WriteSequence(u) \/ ReadClock(u) \/ Insert(u)
             \/ DatabaseRaises(u) \/ ExecuteEnd(u)
      PROVE  Moves(u)
  <2>1. \E stage : Goto(u, stage)
    BY <1>1 DEF Publish, ExecuteBegin, Find, FindFallback, WriteBack, ReadSequence, WriteSequence, ReadClock,
                Insert, DatabaseRaises, ExecuteEnd
  <2>2. local' = local \/ \E l : Remember(u, l)
    BY <1>1 DEF Publish, ExecuteBegin, Find, FindFallback, WriteBack, ReadSequence, WriteSequence, ReadClock,
                Insert, DatabaseRaises, ExecuteEnd, Take, Only
  <2> QED
    BY <2>1, <2>2 DEF Moves
<1>2. ASSUME NEW u \in Publishers,
             \/ FindAdvice(u) \/ AmendAdvice(u) \/ NumberAdvice(u) \/ CreateAdvice(u)
             \/ LookUpCache(u) \/ FindKnowledge(u) \/ Generate(u) \/ NumberKnowledge(u)
             \/ SaveKnowledge(u) \/ CacheKnowledge(u) \/ ChainBreaks(u)
      PROVE  Moves(u)
  <2>1. \E stage : Goto(u, stage)
    BY <1>2 DEF FindAdvice, AmendAdvice, NumberAdvice, CreateAdvice, LookUpCache, FindKnowledge,
                Generate, NumberKnowledge, SaveKnowledge, CacheKnowledge, ChainBreaks, Step
  <2>2. local' = local \/ \E l : Remember(u, l)
    BY <1>2 DEF FindAdvice, AmendAdvice, NumberAdvice, CreateAdvice, LookUpCache, FindKnowledge,
                Generate, NumberKnowledge, SaveKnowledge, CacheKnowledge, ChainBreaks
  <2> QED
    BY <2>1, <2>2 DEF Moves
<1>3. ASSUME NEW u \in Operators, ReadIncident(u) \/ ChangeStatus(u) PROVE Moves(u)
  BY <1>3 DEF ReadIncident, ChangeStatus, Moves
<1> QED
  BY <1>1, <1>2, <1>3 DEF Threads

-----------------------------------------------------------------------------
(* The audit trail.  A row that is about to be written back has to be      *)
(* explained too, and stays so because no entry is ever removed.           *)

Explained(row, entries) ==
    /\ row.status = "OPEN" \/ row.status \in entries
    /\ row.resolved => "RESOLVED" \in entries
    /\ row.closed => "CLOSED" \in entries

(* The two halves of StatusIsExplained.                                    *)
EntriesExplain == \A i \in IncidentId : rows[i] # NoRow => Explained(rows[i], timeline[i])
NewestIsShown ==
    \A i \in IncidentId : rows[i] # NoRow => i \in undone \/ rows[i].status = newest[i]

LEMMA StatusParts == StatusIsExplained <=> EntriesExplain /\ NewestIsShown
  BY DEF StatusIsExplained, EntriesExplain, NewestIsShown, Explained

Writing == {"decide", "change"}
WritingIsExplained ==
    \A t \in Threads : pc[t] \in Writing => Explained(local[t].row, timeline[local[t].incident])

LEMMA TransitionIsExplained ==
    ASSUME NEW row \in Rows, NEW to \in IncidentStatus, NEW entries, Explained(row, entries)
    PROVE  Explained(Transition(row, to), entries \cup ({to} \ {row.status}))
<1>1. /\ Transition(row, to).status = to
      /\ Transition(row, to).resolved = (row.resolved \/ to = "RESOLVED")
      /\ Transition(row, to).closed = (row.closed \/ to = "CLOSED")
  BY DEF Transition, Rows
<1> QED
  BY <1>1 DEF Explained

LEMMA MoreEntriesExplain ==
    ASSUME NEW row, NEW entries, NEW more, entries \subseteq more, Explained(row, entries)
    PROVE  Explained(row, more)
  BY DEF Explained

LEMMA EntriesStay ==
    TypeOK /\ [ChainNext]_allVars => \A i \in IncidentId : timeline[i] \subseteq timeline'[i]
<1> SUFFICES ASSUME TypeOK, [ChainNext]_allVars
             PROVE  \A i \in IncidentId : timeline[i] \subseteq timeline'[i]
  OBVIOUS
<1>1. CASE UNCHANGED timeline
  BY <1>1
<1>2. ASSUME NEW j, NEW read, NEW row, NEW new,
             UpdateIncident(j, read, row, new)
      PROVE  \A i \in IncidentId : timeline[i] \subseteq timeline'[i]
  BY <1>2 DEF UpdateIncident, TypeOK
<1>3. ASSUME NEW t \in Publishers, WriteBack(t) 
      PROVE  \E j, read, row, new : UpdateIncident(j, read, row, new)
  BY <1>3 DEF WriteBack
<1>4. ASSUME NEW t \in Operators, ChangeStatus(t)
      PROVE  UNCHANGED timeline \/ \E j, read, row, new : UpdateIncident(j, read, row, new)
  BY <1>4 DEF ChangeStatus, incidentVars
<1> QED
  BY <1>1, <1>2, <1>3, <1>4
     DEF ChainNext, Next, Only, Here, incidentVars, allVars, vars, Publish, ExecuteBegin, Find,
         FindFallback, ReadSequence, WriteSequence, ReadClock, Insert, CreateIncident, DatabaseRaises,
         ExecuteEnd, ReadIncident, Unsubscribe, Shutdown, FindAdvice, AmendAdvice, NumberAdvice,
         CreateAdvice, LookUpCache, FindKnowledge, Generate, NumberKnowledge, SaveKnowledge, CacheKnowledge,
         ChainBreaks, CacheExpires

(* What WriteBack, ChangeStatus and Insert put in the table.               *)
LEMMA WrittenBackIsExplained ==
    ASSUME TypeOK, WritingIsExplained, NEW t \in Publishers, WriteBack(t)
    PROVE  \E i \in IncidentId, row \in Rows : /\ rows' = [rows EXCEPT ![i] = row]
                                               /\ Explained(row, timeline'[i])
<1> DEFINE i == local[t].incident
           row == local[t].row
<1>1. /\ i \in IncidentId /\ row \in Rows /\ Explained(row, timeline[i])
      /\ timeline \in [IncidentId -> SUBSET IncidentStatus]
  BY DEF WriteBack, TypeOK, WritingIsExplained, Writing, Holding, Threads
<1>2. CASE ShouldAutoResolve(local[t].risk)
  <2>1. /\ rows' = [rows EXCEPT ![i] = Transition(row, "RESOLVED")]
        /\ timeline' = [timeline EXCEPT ![i] = @ \cup {"RESOLVED"}]
    BY <1>2 DEF WriteBack, UpdateIncident
  <2>2. Explained(Transition(row, "RESOLVED"), timeline[i] \cup ({"RESOLVED"} \ {row.status}))
    BY <1>1, TransitionIsExplained DEF IncidentStatus
  <2>3. Explained(Transition(row, "RESOLVED"), timeline'[i])
    BY <1>1, <2>1, <2>2, MoreEntriesExplain
  <2>4. Transition(row, "RESOLVED") \in Rows
    BY <1>1, TransitionType DEF IncidentStatus
  <2> QED
    BY <1>1, <2>1, <2>3, <2>4
<1>3. CASE ~ShouldAutoResolve(local[t].risk)
  <2> DEFINE new == [row EXCEPT !.severity = MapRiskToSeverity(local[t].risk)]
  <2>1. rows' = [rows EXCEPT ![i] = new] /\ timeline' = timeline
    BY <1>1, <1>3 DEF WriteBack, UpdateIncident
  <2>2. /\ new \in Rows
        /\ new.status = row.status /\ new.resolved = row.resolved /\ new.closed = row.closed
    BY <1>1, SeverityType DEF Rows
  <2> HIDE DEF new
  <2>3. Explained(new, timeline'[i])
    BY <1>1, <2>1, <2>2 DEF Explained
  <2> QED
    BY <1>1, <2>1, <2>2, <2>3
<1> QED
  BY <1>2, <1>3

LEMMA ChangedIsExplained ==
    ASSUME TypeOK, WritingIsExplained, NEW t \in Operators, ChangeStatus(t)
    PROVE  \/ UNCHANGED rows
           \/ \E i \in IncidentId, row \in Rows : /\ rows' = [rows EXCEPT ![i] = row]
                                                  /\ Explained(row, timeline'[i])
<1> DEFINE i == local[t].incident
           row == local[t].row
<1>1. /\ i \in IncidentId /\ row \in Rows /\ Explained(row, timeline[i])
      /\ timeline \in [IncidentId -> SUBSET IncidentStatus]
  BY DEF ChangeStatus, TypeOK, WritingIsExplained, Writing, Holding, Threads
<1>2. CASE UNCHANGED incidentVars
  BY <1>2 DEF incidentVars
<1>3. CASE \E to \in Targets : UpdateIncident(i, row, Transition(row, to), {to} \ {row.status})
  <2>1. PICK to \in Targets : UpdateIncident(i, row, Transition(row, to), {to} \ {row.status})
    BY <1>3
  <2>2. /\ rows' = [rows EXCEPT ![i] = Transition(row, to)]
        /\ timeline'[i] = timeline[i] \cup ({to} \ {row.status})
    BY <1>1, <2>1 DEF UpdateIncident
  <2>3. Explained(Transition(row, to), timeline'[i])
    BY <1>1, <2>2, TransitionIsExplained, AgentAssumption
  <2>4. Transition(row, to) \in Rows
    BY <1>1, TransitionType, AgentAssumption
  <2> QED
    BY <1>1, <2>2, <2>3, <2>4
<1> QED
  BY <1>2, <1>3 DEF ChangeStatus

LEMMA InsertedIsExplained ==
    ASSUME TypeOK, NEW t \in Publishers, Insert(t)
    PROVE  \/ UNCHANGED rows
           \/ \E i \in IncidentId, row \in Rows : /\ rows' = [rows EXCEPT ![i] = row]
                                                  /\ Explained(row, timeline'[i])
<1> DEFINE i == local[t].next + 1
           row == [interface |-> local[t].interface, type |-> local[t].type, status |-> "OPEN",
                   severity |-> MapRiskToSeverity(local[t].risk),
                   resolved |-> FALSE, closed |-> FALSE, created |-> local[t].created]
<1>1. i \in IncidentId
  BY IncidentAssumption DEF Insert, TypeOK, Threads, Local, IncidentId
<1>2. row \in Rows /\ Explained(row, timeline'[i])
  BY SeverityType DEF Insert, TypeOK, Threads, Searching, Local, Rows, IncidentStatus, Explained
<1>3. CreateIncident(i, row) \/ UNCHANGED rows
  BY DEF Insert, incidentVars
<1> HIDE DEF row
<1> QED
  BY <1>1, <1>2, <1>3 DEF CreateIncident

LEMMA RowsChange ==
    ASSUME TypeOK, WritingIsExplained, [ChainNext]_allVars
    PROVE  \/ UNCHANGED rows
           \/ \E i \in IncidentId, row \in Rows : /\ rows' = [rows EXCEPT ![i] = row]
                                                  /\ Explained(row, timeline'[i])
<1>1. \/ UNCHANGED rows
      \/ \E t \in Publishers : WriteBack(t) \/ Insert(t)
      \/ \E t \in Operators : ChangeStatus(t)
  BY DEF ChainNext, Next, Only, Here, incidentVars, allVars, vars, Publish, ExecuteBegin, Find,
         FindFallback, ReadSequence, WriteSequence, ReadClock, DatabaseRaises,
         ExecuteEnd, ReadIncident, Unsubscribe, Shutdown, FindAdvice, AmendAdvice, NumberAdvice,
         CreateAdvice, LookUpCache, FindKnowledge, Generate, NumberKnowledge, SaveKnowledge, CacheKnowledge,
         ChainBreaks, CacheExpires
<1> QED
  BY <1>1, WrittenBackIsExplained, ChangedIsExplained, InsertedIsExplained

LEMMA EntriesStep ==
    TypeOK /\ EntriesExplain /\ WritingIsExplained /\ [ChainNext]_allVars => EntriesExplain'
<1> SUFFICES ASSUME TypeOK, EntriesExplain, WritingIsExplained, [ChainNext]_allVars,
                    NEW i \in IncidentId, rows'[i] # NoRow
             PROVE  Explained(rows'[i], timeline'[i])
  BY DEF EntriesExplain
<1>1. timeline[i] \subseteq timeline'[i]
  BY EntriesStay
<1>2. CASE UNCHANGED rows
  <2>1. Explained(rows[i], timeline[i])
    BY <1>2 DEF EntriesExplain
  <2> QED
    BY <1>1, <1>2, <2>1, MoreEntriesExplain
<1>3. CASE \E j \in IncidentId, row \in Rows :
             rows' = [rows EXCEPT ![j] = row] /\ Explained(row, timeline'[j])
  <2>1. PICK j \in IncidentId, row \in Rows :
          rows' = [rows EXCEPT ![j] = row] /\ Explained(row, timeline'[j])
    BY <1>3
  <2>2. CASE i = j
    BY <2>1, <2>2 DEF TypeOK
  <2>3. CASE i # j
    <3>1. rows'[i] = rows[i]
      BY <2>1, <2>3 DEF TypeOK
    <3>2. Explained(rows[i], timeline[i])
      BY <3>1 DEF EntriesExplain
    <3> QED
      BY <1>1, <3>1, <3>2, MoreEntriesExplain
  <2> QED
    BY <2>2, <2>3
<1> QED
  BY <1>2, <1>3, RowsChange

(* A thread comes to write with a row of the table, and only then.         *)
LEMMA WritingStep ==
    TypeOK /\ EntriesExplain /\ WritingIsExplained /\ [ChainNext]_allVars => WritingIsExplained'
<1> SUFFICES ASSUME TypeOK, EntriesExplain, WritingIsExplained, [ChainNext]_allVars,
                    NEW t \in Threads, pc'[t] \in Writing
             PROVE  Explained(local'[t].row, timeline'[local'[t].incident])
  BY DEF WritingIsExplained
<1>1. CASE pc[t] \in Writing /\ local'[t] = local[t]
  <2>1. local[t].incident \in IncidentId /\ Explained(local[t].row, timeline[local[t].incident])
    BY <1>1 DEF WritingIsExplained, TypeOK, Writing, Holding
  <2> QED
    BY <1>1, <2>1, EntriesStay, MoreEntriesExplain
<1>2. CASE \E i \in IncidentId :
              /\ rows[i] # NoRow
              /\ Remember(t, [local[t] EXCEPT !.incident = i, !.row = rows[i]])
  <2>1. PICK i \in IncidentId : /\ rows[i] # NoRow
                                /\ Remember(t, [local[t] EXCEPT !.incident = i, !.row = rows[i]])
    BY <1>2
  <2>2. local'[t].incident = i /\ local'[t].row = rows[i]
    BY <2>1 DEF Remember, TypeOK, Local
  <2>3. Explained(rows[i], timeline[i])
    BY <2>1 DEF EntriesExplain
  <2> QED
    BY <2>2, <2>3, EntriesStay, MoreEntriesExplain
<1>3. ASSUME NEW stage, Goto(t, stage) PROVE stage \in Writing
  BY <1>3 DEF Goto, TypeOK
<1>4. CASE t \in Publishers /\ (Find(t) \/ FindFallback(t))
  <2>1. PICK iface, types : Take(t, FindActive(iface, types))
    BY <1>3, <1>4, ~("fallback" \in Writing), ~("read" \in Writing), ~("end" \in Writing)
       DEF Find, FindFallback, Writing
  <2>2. PICK i \in FindActive(iface, types) :
          Remember(t, [local[t] EXCEPT !.incident = i, !.row = rows[i]])
    BY <2>1 DEF Take
  <2>3. i \in IncidentId /\ rows[i].status # "none"
    BY <2>2 DEF FindActive, Active
  <2>4. rows[i] # NoRow
    BY <2>3 DEF NoRow
  <2> QED
    BY <1>2, <2>2, <2>3, <2>4
<1>5. CASE t \in Operators /\ ReadIncident(t)
  BY <1>2, <1>5 DEF ReadIncident
<1>6. CASE UNCHANGED <<pc[t], local[t]>>
  BY <1>1, <1>6
<1>7. CASE \E u \in Threads : Moves(u) /\ u # t
  BY <1>6, <1>7, OthersStay
<1>8. ASSUME t \in Publishers,
             \/ Publish(t) \/ ExecuteBegin(t) \/ WriteBack(t) \/ ReadSequence(t)
             \/ WriteSequence(t) \/ ReadClock(t) \/ Insert(t) \/ DatabaseRaises(t)
             \/ ExecuteEnd(t)
      PROVE  FALSE
  <2>1. CASE Publish(t) \/ ReadSequence(t) \/ DatabaseRaises(t) \/ ExecuteEnd(t)
    <3>1. Goto(t, "notified") \/ Goto(t, "number") \/ Goto(t, "end") \/ Goto(t, "idle")
      BY <2>1 DEF Publish, ReadSequence, DatabaseRaises, ExecuteEnd
    <3> QED
      BY <1>3, <3>1 DEF Writing
  <2>2. CASE ExecuteBegin(t) \/ WriteSequence(t) \/ ReadClock(t)
    BY <1>3, <2>2 DEF ExecuteBegin, WriteSequence, ReadClock, Writing
  <2>3. CASE WriteBack(t) \/ Insert(t)
    <3>1. Goto(t, "advise") \/ Goto(t, "end")
      BY <2>3 DEF WriteBack, Insert
    <3> QED
      BY <1>3, <3>1 DEF Writing
  <2> QED
    BY <1>8, <2>1, <2>2, <2>3
<1>9. ASSUME t \in Publishers,
             \/ FindAdvice(t) \/ AmendAdvice(t) \/ NumberAdvice(t) \/ CreateAdvice(t)
             \/ LookUpCache(t) \/ FindKnowledge(t) \/ Generate(t) \/ NumberKnowledge(t)
             \/ SaveKnowledge(t) \/ CacheKnowledge(t) \/ ChainBreaks(t)
      PROVE  FALSE
  BY <1>3, <1>9
     DEF FindAdvice, AmendAdvice, NumberAdvice, CreateAdvice, LookUpCache, FindKnowledge,
         Generate, NumberKnowledge, SaveKnowledge, CacheKnowledge, ChainBreaks, Step, Writing
<1>10. ASSUME t \in Operators, ChangeStatus(t) PROVE FALSE
  BY <1>3, <1>10 DEF ChangeStatus, Writing
<1>11. CASE Unsubscribe \/ Shutdown \/ CacheExpires \/ UNCHANGED allVars
  BY <1>6, <1>11 DEF Unsubscribe, Shutdown, CacheExpires, allVars, vars
<1> QED
  BY <1>4, <1>5, <1>7, <1>8, <1>9, <1>10, <1>11, ActorsMove DEF ChainNext, Next

(* Inductive with the rows that threads are about to write back.           *)
LEMMA WritingCorrect == ChainSpec => [](EntriesExplain /\ WritingIsExplained)
<1>1. ChainInit => EntriesExplain /\ WritingIsExplained
  BY DEF ChainInit, Init, IncidentInit, EntriesExplain, WritingIsExplained, Writing
<1> QED
  BY <1>1, TypeCorrect, EntriesStep, WritingStep, PTL DEF ChainSpec

(* What is written back has the status that was read, or an entry of its   *)
(* own.                                                                    *)
LEMMA UpdatedIsShown ==
    ASSUME TypeOK, NewestIsShown, NEW i \in IncidentId, NEW read \in Rows, NEW row \in Rows,
           NEW entries, UpdateIncident(i, read, row, entries),
           row.status = read.status \/ row.status \in entries
    PROVE  NewestIsShown'
<1> SUFFICES ASSUME NEW j \in IncidentId, rows'[j] # NoRow, j \notin undone'
             PROVE  rows'[j].status = newest'[j]
  BY DEF NewestIsShown
<1>1. /\ rows' = [rows EXCEPT ![i] = row]
      /\ newest' = [newest EXCEPT ![i] = IF row.status \in entries THEN row.status ELSE newest[i]]
      /\ undone' = IF rows[i].status = read.status THEN undone ELSE undone \cup {i}
  BY DEF UpdateIncident
<1>2. CASE j # i
  <2>1. rows'[j] = rows[j] /\ newest'[j] = newest[j] /\ j \notin undone
    BY <1>1, <1>2 DEF TypeOK
  <2> QED
    BY <2>1 DEF NewestIsShown
<1>3. CASE j = i
  <2>1. rows[i].status = read.status /\ i \notin undone
    BY <1>1, <1>3
  <2>2. rows[i] # NoRow
    BY <2>1 DEF Rows, IncidentStatus, NoRow
  <2>3. rows[i].status = newest[i]
    BY <2>1, <2>2 DEF NewestIsShown
  <2>4. rows'[i] = row /\ newest'[i] = IF row.status \in entries THEN row.status ELSE newest[i]
    BY <1>1 DEF TypeOK
  <2> QED
    BY <1>3, <2>1, <2>3, <2>4
<1> QED
  BY <1>2, <1>3

LEMMA NewestStep == TypeOK /\ NewestIsShown /\ [ChainNext]_allVars => NewestIsShown'
<1> SUFFICES ASSUME TypeOK, NewestIsShown, [ChainNext]_allVars PROVE NewestIsShown'
  OBVIOUS
<1>1. CASE UNCHANGED <<rows, newest, undone>>
  BY <1>1 DEF NewestIsShown
<1>2. ASSUME NEW t \in Publishers, WriteBack(t) PROVE NewestIsShown'
  <2> DEFINE i == local[t].incident
             read == local[t].row
             heals == ShouldAutoResolve(local[t].risk)
             row == IF heals THEN Transition(read, "RESOLVED")
                    ELSE [read EXCEPT !.severity = MapRiskToSeverity(local[t].risk)]
             entries == IF heals THEN {"RESOLVED"} ELSE {}
  <2>1. i \in IncidentId /\ read \in Rows /\ UpdateIncident(i, read, row, entries)
    BY <1>2 DEF WriteBack, TypeOK, Holding, Threads
  <2>2. row \in Rows /\ (row.status = read.status \/ row.status \in entries)
    <3>1. CASE heals
      <4>1. Transition(read, "RESOLVED") \in Rows
        BY <2>1, TransitionType DEF IncidentStatus
      <4>2. Transition(read, "RESOLVED").status = "RESOLVED"
        BY <2>1 DEF Transition, Rows
      <4> QED
        BY <3>1, <4>1, <4>2
    <3>2. CASE ~heals
      BY <2>1, <3>2, SeverityType DEF Rows
    <3> QED
      BY <3>1, <3>2
  <2> HIDE DEF row, entries, i, read
  <2> QED
    BY <2>1, <2>2, UpdatedIsShown
<1>3. ASSUME NEW t \in Operators, ChangeStatus(t) PROVE NewestIsShown'
  <2> DEFINE i == local[t].incident
             read == local[t].row
  <2>1. i \in IncidentId /\ read \in Rows
    BY <1>3 DEF ChangeStatus, TypeOK, Holding, Threads
  <2>2. CASE UNCHANGED incidentVars
    BY <1>1, <2>2 DEF incidentVars
  <2>3. CASE \E to \in Targets :
               UpdateIncident(i, read, Transition(read, to), {to} \ {read.status})
    <3>1. PICK to \in Targets :
            UpdateIncident(i, read, Transition(read, to), {to} \ {read.status})
      BY <2>3
    <3>2. Transition(read, to) \in Rows /\ Transition(read, to).status = to
      <4>1. to \in IncidentStatus
        BY AgentAssumption
      <4>2. Transition(read, to) \in Rows
        BY <2>1, <4>1, TransitionType
      <4>3. Transition(read, to).status = to
        BY <2>1 DEF Transition, Rows
      <4> QED
        BY <4>2, <4>3
    <3>3. to = read.status \/ to \in {to} \ {read.status}
      OBVIOUS
    <3> HIDE DEF i, read
    <3> QED
      BY <2>1, <3>1, <3>2, <3>3, UpdatedIsShown
  <2> QED
    BY <1>3, <2>2, <2>3 DEF ChangeStatus
<1>4. ASSUME NEW t \in Publishers, Insert(t) PROVE NewestIsShown'
  <2>1. UNCHANGED incidentVars \/ \E i, row : CreateIncident(i, row)
    BY <1>4 DEF Insert
  <2>2. ASSUME NEW i, NEW row, CreateIncident(i, row) PROVE NewestIsShown'
    BY <2>2 DEF CreateIncident, NewestIsShown, TypeOK
  <2> QED
    BY <1>1, <2>1, <2>2 DEF incidentVars
<1> QED
  BY <1>1, <1>2, <1>3, <1>4
     DEF ChainNext, Next, Only, Here, incidentVars, allVars, vars, Publish, ExecuteBegin, Find,
         FindFallback, ReadSequence, WriteSequence, ReadClock, DatabaseRaises,
         ExecuteEnd, ReadIncident, Unsubscribe, Shutdown, FindAdvice, AmendAdvice, NumberAdvice,
         CreateAdvice, LookUpCache, FindKnowledge, Generate, NumberKnowledge, SaveKnowledge,
         CacheKnowledge, ChainBreaks, CacheExpires

(* However stale the rows that threads write over each other, what a row   *)
(* shows has its entries; and the newest entry is the one it shows, but    *)
(* for a write-back of a status that another thread had changed.           *)
THEOREM StatusCorrect == ChainSpec => []StatusIsExplained
<1>1. ChainInit => NewestIsShown
  BY DEF ChainInit, Init, IncidentInit, NewestIsShown
<1> QED
  BY <1>1, WritingCorrect, TypeCorrect, NewestStep, StatusParts, PTL DEF ChainSpec

-----------------------------------------------------------------------------
(* The shutdown.                                                           *)

AgentOK == agent \in [state : AgentState, executions : Nat, successes : Nat, failures : Nat]

LEMMA AgentStep == AgentOK /\ [ChainNext]_allVars => AgentOK'
<1> SUFFICES ASSUME AgentOK, [ChainNext]_allVars PROVE AgentOK'
  OBVIOUS
<1>1. CASE UNCHANGED agent
  BY <1>1 DEF AgentOK
<1>2. CASE agent' = ExecuteBegins(agent)
  <2>1. agent.executions + 1 \in Nat /\ "RUNNING" \in AgentState
    BY DEF AgentOK, AgentState
  <2> QED
    BY <1>2, <2>1 DEF AgentOK, ExecuteBegins
<1>3. CASE agent' = ExecuteEnds(agent, TRUE)
  <2>1. agent.successes + 1 \in Nat /\ "READY" \in AgentState
    BY DEF AgentOK, AgentState
  <2> QED
    BY <1>3, <2>1 DEF AgentOK, ExecuteEnds
<1>4. CASE agent' = Terminate(agent)
  BY <1>4 DEF AgentOK, Terminate, AgentState
<1> QED
  BY <1>1, <1>2, <1>3, <1>4
     DEF ChainNext, Next, Only, Here, allVars, vars, Publish, ExecuteBegin, Find, FindFallback,
         WriteBack, ReadSequence, WriteSequence, ReadClock, Insert, DatabaseRaises, ExecuteEnd,
         ReadIncident, ChangeStatus, Unsubscribe, Shutdown, FindAdvice, AmendAdvice,
         NumberAdvice, CreateAdvice, LookUpCache, FindKnowledge, Generate, NumberKnowledge,
         SaveKnowledge, CacheKnowledge, ChainBreaks, CacheExpires

(* Only what is executing goes on executing, but for a call that is let in.*)
LEMMA OnlyExecutingExecutes ==
    ASSUME TypeOK, [ChainNext]_allVars, NEW t \in Publishers, pc[t] \notin Executing,
           agent.state = "TERMINATED"
    PROVE  pc'[t] \notin Executing
<1>1. \A stage : Goto(t, stage) => pc'[t] = stage
  BY DEF Goto, TypeOK, Threads
<1>2. CASE UNCHANGED <<pc[t], local[t]>>
  BY <1>2
<1>3. CASE \E u \in Threads : Moves(u) /\ u # t
  BY <1>2, <1>3, OthersStay DEF Threads
<1>4. CASE Publish(t)
  BY <1>1, <1>4 DEF Publish, Executing
<1>5. CASE ExecuteBegin(t)
  BY <1>1, <1>5 DEF ExecuteBegin, MayExecute, Executing
<1>6. ASSUME \/ Find(t) \/ FindFallback(t) \/ WriteBack(t) \/ ReadSequence(t)
             \/ WriteSequence(t) \/ ReadClock(t) \/ Insert(t) \/ DatabaseRaises(t)
             \/ ExecuteEnd(t)
      PROVE  FALSE
  BY <1>6 DEF Find, FindFallback, WriteBack, ReadSequence, WriteSequence, ReadClock, Insert,
              DatabaseRaises, ExecuteEnd, Executing
<1>7. ASSUME \/ FindAdvice(t) \/ AmendAdvice(t) \/ NumberAdvice(t) \/ CreateAdvice(t)
             \/ LookUpCache(t) \/ FindKnowledge(t) \/ Generate(t) \/ NumberKnowledge(t)
             \/ SaveKnowledge(t) \/ CacheKnowledge(t) \/ ChainBreaks(t)
      PROVE  FALSE
  BY <1>7 DEF FindAdvice, AmendAdvice, NumberAdvice, CreateAdvice, LookUpCache, FindKnowledge,
              Generate, NumberKnowledge, SaveKnowledge, CacheKnowledge, ChainBreaks, Step,
              Executing
<1>8. CASE Unsubscribe \/ Shutdown \/ CacheExpires \/ UNCHANGED allVars
  BY <1>2, <1>8 DEF Unsubscribe, Shutdown, CacheExpires, allVars, vars
<1>9. ASSUME NEW u \in Operators, ReadIncident(u) \/ ChangeStatus(u) PROVE Moves(u) /\ u # t
  BY <1>9, ActorsMove, AgentAssumption
<1> QED
  BY <1>3, <1>4, <1>5, <1>6, <1>7, <1>8, <1>9, ActorsMove DEF ChainNext, Next, Threads

(* What the agent and the shutdown do to each other.                       *)
LEMMA ShutdownChanges ==
    ASSUME AgentOK, [ChainNext]_allVars
    PROVE  \/ UNCHANGED <<agent, stop, overlapped>>
           \/ Shutdown
           \/ stop' # "down"
           \/ /\ UNCHANGED <<stop, overlapped>>
              /\ \E t \in Publishers : \/ pc[t] \in Executing
                                       \/ MayExecute(agent)
<1>1. ASSUME NEW t \in Publishers, ExecuteBegin(t)
      PROVE  UNCHANGED <<stop, overlapped>> /\ (UNCHANGED agent \/ MayExecute(agent))
  BY <1>1 DEF ExecuteBegin, Only
<1>2. ASSUME NEW t \in Publishers, ExecuteEnd(t)
      PROVE  UNCHANGED <<stop, overlapped>> /\ pc[t] \in Executing
  BY <1>2 DEF ExecuteEnd, Only, Executing
<1>3. Unsubscribe => stop' # "down"
  BY DEF Unsubscribe
<1> QED
  BY <1>1, <1>2, <1>3
     DEF ChainNext, Next, Only, Here, allVars, vars, Publish, Find, FindFallback,
         WriteBack, ReadSequence, WriteSequence, ReadClock, Insert, DatabaseRaises,
         ReadIncident, ChangeStatus, FindAdvice, AmendAdvice,
         NumberAdvice, CreateAdvice, LookUpCache, FindKnowledge, Generate, NumberKnowledge,
         SaveKnowledge, CacheKnowledge, ChainBreaks, CacheExpires

LEMMA ShutdownStep ==
    TypeOK /\ AgentOK /\ ShutdownIsFinal /\ [ChainNext]_allVars => ShutdownIsFinal'
<1> SUFFICES ASSUME TypeOK, AgentOK, ShutdownIsFinal, [ChainNext]_allVars,
                    stop' = "down", ~overlapped'
             PROVE  agent'.state = "TERMINATED" /\ \A t \in Publishers : pc'[t] \notin Executing
  BY DEF ShutdownIsFinal
<1>1. CASE Shutdown
  BY <1>1 DEF Shutdown, Terminate, AgentOK
<1>2. CASE UNCHANGED <<stop, overlapped>>
  <2>1. agent.state = "TERMINATED" /\ \A t \in Publishers : pc[t] \notin Executing
    BY <1>2 DEF ShutdownIsFinal
  <2>2. ~Shutdown
    BY <1>2 DEF Shutdown
  <2>3. ~MayExecute(agent)
    BY <2>1 DEF MayExecute
  <2>4. agent' = agent
    BY <2>1, <2>2, <2>3, ShutdownChanges
  <2> QED
    BY <2>1, <2>4, OnlyExecutingExecutes
<1> QED
  BY <1>1, <1>2, ShutdownChanges

(* The state alone keeps out every callback that is still to come, unless  *)
(* an execution was under way to overwrite it.                             *)
THEOREM ShutdownCorrect == ChainSpec => []ShutdownIsFinal
<1>1. ChainInit => AgentOK /\ ShutdownIsFinal
  BY DEF ChainInit, Init, NewAgent, AgentOK, AgentState, ShutdownIsFinal
<1> QED
  BY <1>1, TypeCorrect, AgentStep, ShutdownStep, PTL DEF ChainSpec

-----------------------------------------------------------------------------
(* The chain: what supports a recommendation, an explanation and a cached  *)
(* one, and when an incident has only one of each.                         *)

Advice == [incident : IncidentId, priority : Severity]
Knowledge == [advice : Number]

ChainTypeOK ==
    /\ advice \in [Number -> Advice \cup {None}]
    /\ knowledge \in [Number -> Knowledge \cup {None}]
    /\ cache \in [Number -> 0..MaxAdvice]

(* Numbers above the sequences are not used yet.                           *)
Unused ==
    /\ \A a \in Number : a > adviceSeq => advice[a] = None
    /\ \A k \in Number : k > knowledgeSeq => knowledge[k] = None

(* The stages of a thread that knows its recommendation, that has stored   *)
(* it or found it stored.                                                  *)
Explaining == {"explain", "lookup", "generate", "numberResult", "save", "cache"}
Stored == Explaining \cup {"amend"}
Creating == {"numberAdvice", "create"}

(* A thread's incident has a row.                                          *)
HeldIsStored == \A t \in Threads : pc[t] \in Holding => rows[local[t].incident] # NoRow

(* What a thread knows of its recommendation and of its result.            *)
Knows(t) ==
    /\ pc[t] = "create" => local[t].advice \in 1..adviceSeq /\ advice[local[t].advice] = None
    /\ pc[t] \in Stored => /\ local[t].advice \in Number
                           /\ advice[local[t].advice] # None
                           /\ advice[local[t].advice].incident = local[t].incident
    /\ pc[t] = "save" => local[t].knowledge \in 1..knowledgeSeq /\ knowledge[local[t].knowledge] = None
    /\ pc[t] = "cache" => /\ local[t].knowledge \in Number
                          /\ knowledge[local[t].knowledge] = [advice |-> local[t].advice]

(* No number is handed out twice.                                          *)
OwnNumbers ==
    \A t, u \in Publishers : t # u =>
        /\ pc[t] = "create" /\ pc[u] = "create" => local[t].advice # local[u].advice
        /\ pc[t] = "save" /\ pc[u] = "save" => local[t].knowledge # local[u].knowledge

ChainInv ==
    /\ ChainTypeOK
    /\ Unused
    /\ \A t \in Publishers : Knows(t)
    /\ OwnNumbers

LEMMA NoneIsNone == None \notin Advice /\ None \notin Knowledge
  BY DEF None, Advice, Knowledge

LEMMA AdvisedType ==
    ASSUME TypeOK, NEW t \in Publishers, pc[t] \in Holding
    PROVE  Advised(t) \in Advice /\ Advised(t).incident = local[t].incident /\ Advised(t) # None
<1>1. local[t].incident \in IncidentId /\ local[t].row.severity \in Severity
  BY DEF TypeOK, Threads, Rows
<1>2. MapSeverityToPriority(local[t].row.severity) \in Severity
  BY <1>1 DEF MapSeverityToPriority, Severity
<1>3. Advised(t) \in Advice /\ Advised(t).incident = local[t].incident
  BY <1>1, <1>2 DEF Advised, Advice
<1> QED
  BY <1>3, NoneIsNone

(* Rows are never removed, and who comes to hold an incident found it or   *)
(* inserted it.                                                            *)
LEMMA RowsStay ==
    ASSUME TypeOK, WritingIsExplained, [ChainNext]_allVars,
           NEW i \in IncidentId, rows[i] # NoRow
    PROVE  rows'[i] # NoRow
  BY RowsChange, NoRowIsNone DEF TypeOK

(* The steps of the incident agent do not touch the chain.                 *)
LEMMA OutsideTheChain ==
    ASSUME TypeOK, ChainInv, UNCHANGED chainVars,
           \A t \in Publishers :
               \/ pc'[t] = pc[t] /\ local'[t] = local[t]
               \/ pc'[t] \notin Stored \cup {"create"}
    PROVE  ChainInv'
<1>1. ChainTypeOK' /\ Unused'
  BY DEF ChainInv, ChainTypeOK, Unused, chainVars
<1>2. \A t \in Publishers : Knows(t)'
  BY DEF ChainInv, Knows, chainVars, Stored, Explaining
<1>3. OwnNumbers'
  BY DEF ChainInv, OwnNumbers, Stored, Explaining
<1> QED
  BY <1>1, <1>2, <1>3 DEF ChainInv

(* A thread that looks something up, gives up or is done.                  *)
LEMMA LookingUp ==
    ASSUME TypeOK, ChainInv, NEW t \in Publishers,
           LookUpCache(t) \/ Generate(t) \/ ChainBreaks(t)
    PROVE  ChainInv'
<1>1. /\ UNCHANGED <<advice, adviceSeq, knowledge, knowledgeSeq, cache, local>>
      /\ \E stage \in {"end", "lookup", "numberResult"} :
             Goto(t, stage) /\ (stage # "end" => pc[t] \in Explaining)
  BY DEF LookUpCache, Generate, ChainBreaks, Step, chainVars, Explaining
<1>2. \A u \in Publishers : pc'[u] = pc[u] \/ pc'[u] = "end"
                            \/ (pc[u] \in Explaining /\ pc'[u] \in Explaining \ {"save", "cache"})
  BY <1>1 DEF Goto, TypeOK, Threads, Explaining
<1>3. ChainTypeOK' /\ Unused'
  BY <1>1 DEF ChainInv, ChainTypeOK, Unused
<1>4. \A u \in Publishers : Knows(u)'
  BY <1>1, <1>2 DEF ChainInv, Knows, Stored, Explaining
<1>5. OwnNumbers'
  BY <1>1, <1>2 DEF ChainInv, OwnNumbers, Explaining
<1> QED
  BY <1>3, <1>4, <1>5 DEF ChainInv

LEMMA Finding ==
    ASSUME TypeOK, ChainInv, NEW t \in Publishers, FindAdvice(t)
    PROVE  ChainInv'
<1>1. UNCHANGED <<advice, adviceSeq, knowledge, knowledgeSeq, cache>>
  BY DEF FindAdvice, chainVars
<1>2. CASE Goto(t, "numberAdvice") /\ local' = local
  BY <1>1, <1>2, OutsideTheChain DEF Goto, TypeOK, Threads, chainVars, Stored, Explaining
<1>3. CASE \E a \in Number : /\ advice[a] # None /\ advice[a].incident = local[t].incident
                             /\ Goto(t, "amend")
                             /\ Remember(t, [local[t] EXCEPT !.advice = a])
  <2>1. PICK a \in Number : /\ advice[a] # None /\ advice[a].incident = local[t].incident
                            /\ Goto(t, "amend")
                            /\ Remember(t, [local[t] EXCEPT !.advice = a])
    BY <1>3
  <2>2. local'[t].advice = a /\ local'[t].incident = local[t].incident /\ pc'[t] = "amend"
    BY <2>1 DEF Remember, Goto, TypeOK, Threads, Local
  <2>3. \A u \in Publishers : u # t => pc'[u] = pc[u] /\ local'[u] = local[u]
    BY <2>1 DEF Remember, Goto, TypeOK, Threads
  <2>4. ChainTypeOK' /\ Unused'
    BY <1>1 DEF ChainInv, ChainTypeOK, Unused
  <2>5. \A u \in Publishers : Knows(u)'
    BY <1>1, <2>1, <2>2, <2>3 DEF ChainInv, Knows, Stored, Explaining
  <2>6. OwnNumbers'
    BY <2>2, <2>3 DEF ChainInv, OwnNumbers
  <2> QED
    BY <2>4, <2>5, <2>6 DEF ChainInv
<1> QED
  BY <1>2, <1>3 DEF FindAdvice, Step

LEMMA Amending ==
    ASSUME TypeOK, NumbersOK, ChainInv, NEW t \in Publishers, AmendAdvice(t) \/ CreateAdvice(t)
    PROVE  ChainInv'
<1> DEFINE a == local[t].advice
           new == Advised(t)
<1>1. /\ pc[t] \in {"amend", "create"} /\ Goto(t, "explain")
      /\ advice' = [advice EXCEPT ![a] = new]
      /\ UNCHANGED <<local, adviceSeq, knowledge, knowledgeSeq, cache>>
  BY DEF AmendAdvice, CreateAdvice, Step
<1>2. new \in Advice /\ new.incident = local[t].incident /\ new # None
  BY <1>1, AdvisedType DEF Holding
<1>3. a \in Number /\ a <= adviceSeq
  <2>1. CASE pc[t] = "create"
    <3>1. a \in 1..adviceSeq
      BY <2>1 DEF ChainInv, Knows
    <3> QED
      BY <3>1, ChainAssumption DEF NumbersOK, Number
  <2>2. CASE pc[t] = "amend"
    <3>1. a \in Number /\ advice[a] # None
      BY <2>2 DEF ChainInv, Knows, Stored
    <3> QED
      BY <3>1, ChainAssumption DEF ChainInv, Unused, NumbersOK, Number
  <2> QED
    BY <1>1, <2>1, <2>2
<1> HIDE DEF new
<1>4. \A b \in Number : advice'[b] = IF b = a THEN new ELSE advice[b]
  BY <1>1 DEF ChainInv, ChainTypeOK
<1>5. /\ pc'[t] = "explain"
      /\ \A u \in Publishers : u # t => pc'[u] = pc[u]
  BY <1>1 DEF Goto, TypeOK, Threads
<1>6. ChainTypeOK' /\ Unused'
  <2>1. ChainTypeOK'
    BY <1>1, <1>2, <1>3 DEF ChainInv, ChainTypeOK
  <2>2. Unused'
    BY <1>1, <1>3, <1>4, ChainAssumption DEF ChainInv, Unused, NumbersOK, Number
  <2> QED
    BY <2>1, <2>2
<1>7. ASSUME NEW u \in Publishers PROVE Knows(u)'
  <2>1. CASE u = t
    BY <1>1, <1>2, <1>3, <1>4, <1>5, <2>1 DEF Knows, Stored, Explaining
  <2>2. CASE u # t
    <3>1. Knows(u) /\ pc'[u] = pc[u] /\ local'[u] = local[u]
      BY <1>1, <1>5, <2>2 DEF ChainInv
    <3>2. ASSUME pc[u] = "create" PROVE advice'[local[u].advice] = None
      <4>1. local[u].advice \in Number /\ advice[local[u].advice] = None
        BY <3>1, <3>2, ChainAssumption DEF Knows, NumbersOK, Number
      <4>2. local[u].advice # a
        <5>1. CASE pc[t] = "create"
          BY <2>2, <3>2, <5>1 DEF ChainInv, OwnNumbers
        <5>2. CASE pc[t] = "amend"
          BY <4>1, <5>2 DEF ChainInv, Knows, Stored
        <5> QED
          BY <1>1, <5>1, <5>2
      <4> QED
        BY <1>4, <4>1, <4>2
    <3>3. ASSUME pc[u] \in Stored
          PROVE  /\ local[u].advice \in Number /\ advice'[local[u].advice] # None
                 /\ advice'[local[u].advice].incident = local[u].incident
      <4>1. /\ local[u].advice \in Number /\ advice[local[u].advice] # None
            /\ advice[local[u].advice].incident = local[u].incident
        BY <3>1, <3>3 DEF Knows
      <4>2. CASE local[u].advice # a
        BY <1>4, <4>1, <4>2
      <4>3. CASE local[u].advice = a
        <5>1. CASE pc[t] = "create"
          BY <4>1, <4>3, <5>1 DEF ChainInv, Knows
        <5>2. CASE pc[t] = "amend"
          <6>1. advice[a].incident = local[t].incident
            BY <5>2 DEF ChainInv, Knows, Stored
          <6> QED
            BY <1>2, <1>4, <4>1, <4>3, <6>1
        <5> QED
          BY <1>1, <5>1, <5>2
      <4> QED
        BY <4>2, <4>3
    <3> QED
      BY <1>1, <3>1, <3>2, <3>3 DEF Knows
  <2> QED
    BY <2>1, <2>2
<1>8. OwnNumbers'
  BY <1>1, <1>5 DEF ChainInv, OwnNumbers
<1> QED
  BY <1>6, <1>7, <1>8 DEF ChainInv

LEMMA NumberingAdvice ==
    ASSUME TypeOK, NumbersOK, ChainInv, NEW t \in Publishers, NumberAdvice(t)
    PROVE  ChainInv'
<1>1. /\ adviceSeq' = adviceSeq + 1 /\ adviceSeq' \in Number
      /\ adviceSeq \in Nat /\ Goto(t, "create")
      /\ Remember(t, [local[t] EXCEPT !.advice = adviceSeq'])
      /\ UNCHANGED <<advice, knowledge, knowledgeSeq, cache>>
  BY ChainAssumption DEF NumberAdvice, Step, NumbersOK, Number
<1>2. /\ pc'[t] = "create" /\ local'[t].advice = adviceSeq'
      /\ \A u \in Publishers : u # t => pc'[u] = pc[u] /\ local'[u] = local[u]
  BY <1>1 DEF Goto, Remember, TypeOK, Threads, Local
<1>3. advice[adviceSeq'] = None
  BY <1>1 DEF ChainInv, Unused
<1>4. ChainTypeOK' /\ Unused'
  BY <1>1 DEF ChainInv, ChainTypeOK, Unused, Number
<1>5. ASSUME NEW u \in Publishers PROVE Knows(u)'
  <2>1. CASE u = t
    BY <1>1, <1>2, <1>3, <2>1 DEF Knows, Stored, Explaining
  <2>2. CASE u # t
    BY <1>1, <1>2, <2>2 DEF ChainInv, Knows
  <2> QED
    BY <2>1, <2>2
<1>6. ASSUME NEW u \in Publishers, u # t, pc[u] = "create" PROVE local[u].advice # adviceSeq'
  <2>1. local[u].advice \in 1..adviceSeq
    BY <1>6 DEF ChainInv, Knows
  <2> QED
    BY <1>1, <2>1
<1>7. OwnNumbers'
  BY <1>2, <1>6 DEF ChainInv, OwnNumbers
<1> QED
  BY <1>4, <1>5, <1>7 DEF ChainInv

LEMMA NumberingKnowledge ==
    ASSUME TypeOK, NumbersOK, ChainInv, NEW t \in Publishers, NumberKnowledge(t)
    PROVE  ChainInv'
<1>1. /\ knowledgeSeq' = knowledgeSeq + 1 /\ knowledgeSeq' \in Number
      /\ knowledgeSeq \in Nat /\ pc[t] = "numberResult" /\ Goto(t, "save")
      /\ Remember(t, [local[t] EXCEPT !.knowledge = knowledgeSeq'])
      /\ UNCHANGED <<advice, adviceSeq, knowledge, cache>>
  BY ChainAssumption DEF NumberKnowledge, Step, NumbersOK, Number
<1>2. /\ pc'[t] = "save" /\ local'[t].knowledge = knowledgeSeq'
      /\ local'[t].advice = local[t].advice /\ local'[t].incident = local[t].incident
      /\ \A u \in Publishers : u # t => pc'[u] = pc[u] /\ local'[u] = local[u]
  BY <1>1 DEF Goto, Remember, TypeOK, Threads, Local
<1>3. knowledge[knowledgeSeq'] = None
  BY <1>1 DEF ChainInv, Unused
<1>4. ChainTypeOK' /\ Unused'
  BY <1>1 DEF ChainInv, ChainTypeOK, Unused, Number
<1>5. ASSUME NEW u \in Publishers PROVE Knows(u)'
  <2>1. CASE u = t
    BY <1>1, <1>2, <1>3, <2>1 DEF ChainInv, Knows, Stored, Explaining
  <2>2. CASE u # t
    BY <1>1, <1>2, <2>2 DEF ChainInv, Knows
  <2> QED
    BY <2>1, <2>2
<1>6. ASSUME NEW u \in Publishers, u # t, pc[u] = "save" PROVE local[u].knowledge # knowledgeSeq'
  <2>1. local[u].knowledge \in 1..knowledgeSeq
    BY <1>6 DEF ChainInv, Knows
  <2> QED
    BY <1>1, <2>1
<1>7. OwnNumbers'
  BY <1>2, <1>6 DEF ChainInv, OwnNumbers
<1> QED
  BY <1>4, <1>5, <1>7 DEF ChainInv

LEMMA Saving ==
    ASSUME TypeOK, NumbersOK, ChainInv, NEW t \in Publishers, SaveKnowledge(t)
    PROVE  ChainInv'
<1> DEFINE k == local[t].knowledge
           a == local[t].advice
<1>1. /\ pc[t] = "save" /\ Goto(t, "cache")
      /\ knowledge' = [knowledge EXCEPT ![k] = [advice |-> a]]
      /\ UNCHANGED <<local, advice, adviceSeq, knowledgeSeq, cache>>
  BY DEF SaveKnowledge, CacheKnowledge, Step
<1>2. /\ k \in Number /\ k <= knowledgeSeq /\ knowledge[k] = None /\ a \in Number
      /\ k \in 0..MaxAdvice
  BY <1>1, ChainAssumption DEF ChainInv, Knows, Stored, Explaining, NumbersOK, Number
<1>3. ChainTypeOK' /\ Unused'
  <2>1. ChainTypeOK'
    BY <1>1, <1>2 DEF ChainInv, ChainTypeOK, Knowledge
  <2>2. Unused'
    BY <1>1, <1>2 DEF ChainInv, ChainTypeOK, Unused, NumbersOK, Number
  <2> QED
    BY <2>1, <2>2
<1>4. /\ pc'[t] = "cache"
      /\ \A u \in Publishers : u # t => pc'[u] = pc[u]
  BY <1>1 DEF Goto, TypeOK, Threads
<1>5. ASSUME NEW u \in Publishers PROVE Knows(u)'
  <2>1. CASE u = t
    <3>1. Knows(t) /\ pc[t] \in Stored /\ pc'[t] \in Stored
      BY <1>1, <1>4 DEF ChainInv, Stored, Explaining
    <3>2. knowledge'[k] = [advice |-> a]
      BY <1>1, <1>2 DEF ChainInv, ChainTypeOK
    <3> QED
      BY <1>1, <1>2, <1>4, <2>1, <3>1, <3>2 DEF Knows
  <2>2. CASE u # t
    <3>1. pc[u] = "save" => local[u].knowledge # k
      BY <1>1, <2>2 DEF ChainInv, OwnNumbers
    <3>2. pc[u] = "save" => knowledge'[local[u].knowledge] = knowledge[local[u].knowledge]
      BY <1>1, <3>1 DEF ChainInv, ChainTypeOK
    <3>3. ASSUME pc[u] = "cache"
          PROVE  knowledge'[local[u].knowledge] = knowledge[local[u].knowledge]
      <4>1. /\ local[u].knowledge \in Number
            /\ knowledge[local[u].knowledge] = [advice |-> local[u].advice]
        BY <3>3 DEF ChainInv, Knows
      <4>2. local[u].knowledge # k
        BY <1>2, <4>1 DEF None
      <4> QED
        BY <1>1, <4>2 DEF ChainInv, ChainTypeOK
    <3> QED
      BY <1>1, <1>4, <2>2, <3>2, <3>3 DEF ChainInv, Knows
  <2> QED
    BY <2>1, <2>2
<1>6. OwnNumbers'
  BY <1>1, <1>4 DEF ChainInv, OwnNumbers
<1> QED
  BY <1>3, <1>5, <1>6 DEF ChainInv

LEMMA FindingKnowledge ==
    ASSUME TypeOK, ChainInv, NEW t \in Publishers, FindKnowledge(t)
    PROVE  ChainInv'
<1> DEFINE a == local[t].advice
<1>1. pc[t] = "lookup" /\ UNCHANGED <<advice, adviceSeq, knowledge, knowledgeSeq, cache>>
  BY DEF FindKnowledge, Step, chainVars
<1>2. ChainTypeOK' /\ Unused'
  BY <1>1 DEF ChainInv, ChainTypeOK, Unused
<1>3. CASE Goto(t, "generate") /\ local' = local
  <2>1. \A u \in Publishers : \/ pc'[u] = pc[u]
                              \/ pc[u] = "lookup" /\ pc'[u] = "generate"
    BY <1>1, <1>3 DEF Goto, TypeOK, Threads
  <2>2. \A u \in Publishers : Knows(u)'
    BY <1>1, <1>3, <2>1 DEF ChainInv, Knows, Stored, Explaining
  <2>3. OwnNumbers'
    BY <1>1, <1>3, <2>1 DEF ChainInv, OwnNumbers
  <2> QED
    BY <1>2, <2>2, <2>3 DEF ChainInv
<1>4. CASE \E k \in Number : /\ knowledge[k] # None /\ knowledge[k].advice = a
                             /\ Goto(t, "cache")
                             /\ Remember(t, [local[t] EXCEPT !.knowledge = k])
  <2>1. PICK k \in Number : /\ knowledge[k] # None /\ knowledge[k].advice = a
                            /\ Goto(t, "cache")
                            /\ Remember(t, [local[t] EXCEPT !.knowledge = k])
    BY <1>4
  <2>2. /\ local'[t].knowledge = k /\ local'[t].advice = a
        /\ local'[t].incident = local[t].incident /\ pc'[t] = "cache"
    BY <2>1 DEF Remember, Goto, TypeOK, Threads, Local
  <2>3. \A u \in Publishers : u # t => pc'[u] = pc[u] /\ local'[u] = local[u]
    BY <2>1 DEF Remember, Goto, TypeOK, Threads
  <2>4. knowledge[k] = [advice |-> a]
    BY <2>1 DEF ChainInv, ChainTypeOK, Knowledge
  <2>5. Knows(t)'
    BY <1>1, <2>1, <2>2, <2>4 DEF ChainInv, Knows, Stored, Explaining
  <2>6. \A u \in Publishers : Knows(u)'
    BY <1>1, <2>3, <2>5 DEF ChainInv, Knows
  <2>7. OwnNumbers'
    BY <2>2, <2>3 DEF ChainInv, OwnNumbers
  <2> QED
    BY <1>2, <2>6, <2>7 DEF ChainInv
<1> QED
  BY <1>3, <1>4 DEF FindKnowledge, Step

LEMMA Caching ==
    ASSUME TypeOK, ChainInv, NEW t \in Publishers, CacheKnowledge(t)
    PROVE  ChainInv'
<1>1. /\ pc[t] = "cache" /\ Goto(t, "end")
      /\ cache' = [cache EXCEPT ![local[t].advice] = local[t].knowledge]
      /\ UNCHANGED <<local, advice, adviceSeq, knowledge, knowledgeSeq>>
  BY DEF CacheKnowledge, Step
<1>2. local[t].knowledge \in 0..MaxAdvice
  <2>1. local[t].knowledge \in Number
    BY <1>1 DEF ChainInv, Knows
  <2> QED
    BY <2>1, ChainAssumption DEF Number
<1>3. \A u \in Publishers : pc'[u] = pc[u] \/ pc'[u] = "end"
  BY <1>1 DEF Goto, TypeOK, Threads
<1>4. ChainTypeOK' /\ Unused'
  BY <1>1, <1>2 DEF ChainInv, ChainTypeOK, Unused
<1>5. \A u \in Publishers : Knows(u)'
  BY <1>1, <1>3 DEF ChainInv, Knows, Stored, Explaining
<1>6. OwnNumbers'
  BY <1>1, <1>3 DEF ChainInv, OwnNumbers
<1> QED
  BY <1>4, <1>5, <1>6 DEF ChainInv

LEMMA StagesOfTheAgent ==
    ASSUME TypeOK, NEW u \in Publishers,
           \/ Publish(u) \/ ExecuteBegin(u) \/ Find(u) \/ FindFallback(u) \/ WriteBack(u)
           \/ ReadSequence(u) \/ WriteSequence(u) \/ ReadClock(u) \/ Insert(u)
           \/ DatabaseRaises(u) \/ ExecuteEnd(u)
    PROVE  pc'[u] \notin Stored \cup Creating
<1>1. ASSUME NEW stage \in {"notified", "find", "idle", "decide", "fallback", "read", "end", "advise",
                            "number", "stamp", "insert"}, Goto(u, stage)
      PROVE  pc'[u] \notin Stored \cup Creating
  BY <1>1 DEF Goto, TypeOK, Threads, Stored, Explaining, Creating
<1>2. CASE Publish(u) \/ ReadSequence(u) \/ DatabaseRaises(u) \/ ExecuteEnd(u)
  <2>1. Goto(u, "notified") \/ Goto(u, "number") \/ Goto(u, "end") \/ Goto(u, "idle")
    BY <1>2 DEF Publish, ReadSequence, DatabaseRaises, ExecuteEnd
  <2> QED
    BY <1>1, <2>1
<1>3. CASE \/ ExecuteBegin(u) \/ WriteSequence(u) \/ ReadClock(u) \/ WriteBack(u)
           \/ Insert(u)
  <2>1. \/ Goto(u, "find") \/ Goto(u, "idle") \/ Goto(u, "end") \/ Goto(u, "stamp")
        \/ Goto(u, "insert") \/ Goto(u, "advise")
    BY <1>3 DEF ExecuteBegin, WriteSequence, ReadClock, WriteBack, Insert
  <2> QED
    BY <1>1, <2>1
<1>4. CASE Find(u) \/ FindFallback(u)
  <2>1. Goto(u, "decide") \/ Goto(u, "fallback") \/ Goto(u, "read") \/ Goto(u, "end")
    BY <1>4 DEF Find, FindFallback
  <2> QED
    BY <1>1, <2>1
<1> QED
  BY <1>2, <1>3, <1>4

LEMMA ChainStep == TypeOK /\ NumbersOK /\ ChainInv /\ [ChainNext]_allVars => ChainInv'
<1> SUFFICES ASSUME TypeOK, NumbersOK, ChainInv, [ChainNext]_allVars PROVE ChainInv'
  OBVIOUS
<1>1. ASSUME NEW u \in Threads, Moves(u), UNCHANGED chainVars,
             u \in Publishers => pc'[u] \notin Stored \cup {"create"}
      PROVE  ChainInv'
  <2>1. \A t \in Publishers : t # u => pc'[t] = pc[t] /\ local'[t] = local[t]
    BY <1>1, OthersStay DEF Threads
  <2> QED
    BY <1>1, <2>1, OutsideTheChain
<1>2. CASE UNCHANGED <<chainVars, pc, local>>
  BY <1>2, OutsideTheChain
<1>3. CASE Next /\ UNCHANGED chainVars
  <2>1. ASSUME NEW u \in Operators, ReadIncident(u) \/ ChangeStatus(u)
        PROVE  ChainInv'
    BY <1>1, <1>3, <2>1, ActorsMove, AgentAssumption
  <2>2. ASSUME NEW u \in Publishers,
               \/ Publish(u) \/ ExecuteBegin(u) \/ Find(u) \/ FindFallback(u) \/ WriteBack(u)
               \/ ReadSequence(u) \/ WriteSequence(u) \/ ReadClock(u) \/ Insert(u)
               \/ DatabaseRaises(u) \/ ExecuteEnd(u)
        PROVE  ChainInv'
    BY <1>1, <1>3, <2>2, ActorsMove, StagesOfTheAgent DEF Creating
  <2>3. CASE Unsubscribe \/ Shutdown
    BY <1>2, <1>3, <2>3 DEF Unsubscribe, Shutdown
  <2> QED
    BY <1>3, <2>1, <2>2, <2>3 DEF Next
<1>4. CASE CacheExpires
  <2>1. /\ UNCHANGED <<pc, local, advice, adviceSeq, knowledge, knowledgeSeq>>
        /\ cache' \in [Number -> 0..MaxAdvice]
    BY <1>4, ChainAssumption DEF CacheExpires, ChainInv, ChainTypeOK
  <2> QED
    BY <2>1 DEF ChainInv, ChainTypeOK, Unused, Knows, OwnNumbers
<1>5. CASE UNCHANGED allVars
  BY <1>2, <1>5 DEF allVars, vars
<1> QED
  BY <1>3, <1>4, <1>5, LookingUp, Finding, Amending, NumberingAdvice, NumberingKnowledge, Saving,
     FindingKnowledge, Caching DEF ChainNext

LEMMA ChainCorrect == ChainSpec => []ChainInv
<1>1. ChainInit => ChainInv
  <2> SUFFICES ASSUME ChainInit PROVE ChainInv
    OBVIOUS
  <2>1. ChainTypeOK /\ Unused
    BY ChainAssumption DEF ChainInit, ChainTypeOK, Unused
  <2>2. \A t \in Publishers : pc[t] = "idle"
    BY DEF ChainInit, Init, Threads
  <2> QED
    BY <2>1, <2>2 DEF ChainInv, Knows, OwnNumbers, Stored, Explaining
<1> QED
  BY <1>1, ChainStep, TypeCorrect, Numbers, PTL DEF ChainSpec

-----------------------------------------------------------------------------
(* A recommendation's incident was stored.                                 *)

LEMMA ChainKeepsIncident ==
    ASSUME TypeOK, NumbersOK, NEW t \in Publishers,
           \/ FindAdvice(t) \/ AmendAdvice(t) \/ NumberAdvice(t) \/ CreateAdvice(t)
           \/ LookUpCache(t) \/ FindKnowledge(t) \/ Generate(t) \/ NumberKnowledge(t)
           \/ SaveKnowledge(t) \/ CacheKnowledge(t) \/ ChainBreaks(t)
    PROVE  pc[t] \in Holding /\ local'[t].incident = local[t].incident
<1>1. pc[t] \in Holding
  BY DEF FindAdvice, AmendAdvice, NumberAdvice, CreateAdvice, LookUpCache, FindKnowledge,
         Generate, NumberKnowledge, SaveKnowledge, CacheKnowledge, ChainBreaks, Step, Holding
<1>2. ASSUME NEW n, Remember(t, [local[t] EXCEPT !.advice = n])
             \/ Remember(t, [local[t] EXCEPT !.knowledge = n])
      PROVE  local'[t].incident = local[t].incident
  BY <1>2 DEF Remember, TypeOK, Threads, Local
<1>3. CASE local' = local
  BY <1>1, <1>3
<1>4. CASE FindAdvice(t)
  BY <1>1, <1>2, <1>3, <1>4 DEF FindAdvice
<1>5. CASE NumberAdvice(t) \/ NumberKnowledge(t)
  BY <1>1, <1>2, <1>5 DEF NumberAdvice, NumberKnowledge
<1>6. CASE FindKnowledge(t)
  BY <1>1, <1>2, <1>3, <1>6 DEF FindKnowledge
<1> QED
  BY <1>3, <1>4, <1>5, <1>6 DEF AmendAdvice, CreateAdvice, LookUpCache, Generate, SaveKnowledge,
                                CacheKnowledge, ChainBreaks

LEMMA HeldStep ==
    TypeOK /\ NumbersOK /\ WritingIsExplained /\ HeldIsStored /\ [ChainNext]_allVars => HeldIsStored'
<1> SUFFICES ASSUME TypeOK, NumbersOK, WritingIsExplained, HeldIsStored, [ChainNext]_allVars,
                    NEW t \in Threads, pc'[t] \in Holding
             PROVE  rows'[local'[t].incident] # NoRow
  BY DEF HeldIsStored
<1>1. CASE pc[t] \in Holding /\ local'[t].incident = local[t].incident
  <2>1. rows[local[t].incident] # NoRow /\ local[t].incident \in IncidentId
    BY <1>1 DEF HeldIsStored, TypeOK
  <2> QED
    BY <1>1, <2>1, RowsStay
<1>2. CASE \E i \in IncidentId :
              /\ rows[i] # NoRow
              /\ Remember(t, [local[t] EXCEPT !.incident = i, !.row = rows[i]])
  <2>1. PICK i \in IncidentId : /\ rows[i] # NoRow
                                /\ Remember(t, [local[t] EXCEPT !.incident = i, !.row = rows[i]])
    BY <1>2
  <2>2. local'[t].incident = i
    BY <2>1 DEF Remember, TypeOK, Local
  <2> QED
    BY <2>1, <2>2, RowsStay
<1>3. ASSUME NEW stage, Goto(t, stage) PROVE stage \in Holding
  BY <1>3 DEF Goto, TypeOK
<1>4. CASE t \in Publishers /\ (Find(t) \/ FindFallback(t))
  <2>1. PICK iface, types : Take(t, FindActive(iface, types))
    BY <1>3, <1>4, ~("fallback" \in Holding), ~("read" \in Holding), ~("end" \in Holding)
       DEF Find, FindFallback, Holding
  <2>2. PICK i \in FindActive(iface, types) :
          Remember(t, [local[t] EXCEPT !.incident = i, !.row = rows[i]])
    BY <2>1 DEF Take
  <2>3. i \in IncidentId /\ rows[i].status # "none"
    BY <2>2 DEF FindActive, Active
  <2>4. rows[i] # NoRow
    BY <2>3 DEF NoRow
  <2> QED
    BY <1>2, <2>2, <2>3, <2>4
<1>5. CASE t \in Operators /\ ReadIncident(t)
  BY <1>2, <1>5 DEF ReadIncident
<1>6. CASE t \in Publishers /\ WriteBack(t)
  <2>1. PICK row : Remember(t, [local[t] EXCEPT !.row = row])
    BY <1>6 DEF WriteBack
  <2>2. local'[t].incident = local[t].incident /\ pc[t] \in Holding
    BY <1>6, <2>1 DEF WriteBack, Remember, TypeOK, Local, Holding
  <2> QED
    BY <1>1, <2>2
<1>7. CASE t \in Publishers /\ Insert(t)
  <2> DEFINE i == local[t].next + 1
             row == [interface |-> local[t].interface, type |-> local[t].type, status |-> "OPEN",
                     severity |-> MapRiskToSeverity(local[t].risk),
                     resolved |-> FALSE, closed |-> FALSE, created |-> local[t].created]
  <2>1. i \in IncidentId
    BY <1>7, IncidentAssumption DEF Insert, TypeOK, Threads, Local, IncidentId
  <2>2. CreateIncident(i, row) /\ Remember(t, [local[t] EXCEPT !.incident = i, !.row = row])
    BY <1>3, <1>7, ~("end" \in Holding) DEF Insert, Holding
  <2>3. row.status = "OPEN"
    OBVIOUS
  <2> HIDE DEF row
  <2>4. rows'[i] = row /\ local'[t].incident = i
    BY <2>1, <2>2 DEF CreateIncident, Remember, TypeOK, Local
  <2>5. row # NoRow
    BY <2>3 DEF NoRow
  <2> QED
    BY <2>4, <2>5
<1>8. CASE UNCHANGED <<pc[t], local[t]>>
  BY <1>1, <1>8
<1>9. CASE \E u \in Threads : Moves(u) /\ u # t
  BY <1>8, <1>9, OthersStay
<1>10. ASSUME t \in Publishers,
              \/ Publish(t) \/ ExecuteBegin(t) \/ ReadSequence(t) \/ WriteSequence(t)
              \/ ReadClock(t)
              \/ DatabaseRaises(t) \/ ExecuteEnd(t)
       PROVE  FALSE
  <2>1. CASE Publish(t) \/ ReadSequence(t) \/ DatabaseRaises(t) \/ ExecuteEnd(t)
    <3>1. Goto(t, "notified") \/ Goto(t, "number") \/ Goto(t, "end") \/ Goto(t, "idle")
      BY <2>1 DEF Publish, ReadSequence, DatabaseRaises, ExecuteEnd
    <3> QED
      BY <1>3, <3>1 DEF Holding
  <2>2. CASE ExecuteBegin(t) \/ WriteSequence(t) \/ ReadClock(t)
    BY <1>3, <2>2 DEF ExecuteBegin, WriteSequence, ReadClock, Holding
  <2> QED
    BY <1>10, <2>1, <2>2
<1>11. ASSUME t \in Operators, ChangeStatus(t) PROVE FALSE
  BY <1>3, <1>11 DEF ChangeStatus, Holding
<1>12. CASE Unsubscribe \/ Shutdown \/ CacheExpires \/ UNCHANGED allVars
  BY <1>8, <1>12 DEF Unsubscribe, Shutdown, CacheExpires, allVars, vars
<1>13. CASE t \in Publishers /\ \/ FindAdvice(t) \/ AmendAdvice(t) \/ NumberAdvice(t) \/ CreateAdvice(t)
                                \/ LookUpCache(t) \/ FindKnowledge(t) \/ Generate(t)
                                \/ NumberKnowledge(t) \/ SaveKnowledge(t) \/ CacheKnowledge(t) \/ ChainBreaks(t)
  BY <1>1, <1>13, ChainKeepsIncident
<1> QED
  BY <1>4, <1>5, <1>6, <1>7, <1>9, <1>10, <1>11, <1>12, <1>13, ActorsMove DEF ChainNext, Next

(* How the tables and the cache change.                                    *)
LEMMA ChainChanges ==
    ASSUME [ChainNext]_allVars
    PROVE  \/ UNCHANGED <<advice, knowledge, cache>>
           \/ CacheExpires
           \/ \E t \in Publishers :
                  AmendAdvice(t) \/ CreateAdvice(t) \/ SaveKnowledge(t) \/ CacheKnowledge(t)
  BY DEF ChainNext, chainVars, allVars, FindAdvice, NumberAdvice, LookUpCache, FindKnowledge,
         Generate, NumberKnowledge, ChainBreaks

(* ChainIsSupported by induction, with the incident a thread holds stored. *)
LEMMA SupportStep ==
    /\ TypeOK /\ WritingIsExplained /\ HeldIsStored /\ NumbersOK /\ ChainInv /\ ChainIsSupported
    /\ [ChainNext]_allVars
    => ChainIsSupported'
<1> SUFFICES ASSUME TypeOK, WritingIsExplained, HeldIsStored, NumbersOK, ChainInv, ChainIsSupported,
                    [ChainNext]_allVars
             PROVE  ChainIsSupported'
  OBVIOUS
<1>0. \A i \in IncidentId : rows[i] # NoRow => rows'[i] # NoRow
  BY RowsStay
<1>1. CASE UNCHANGED <<advice, knowledge>> /\
           \A a \in Number : cache'[a] # 0 => knowledge[cache'[a]] = [advice |-> a]
  BY <1>0, <1>1 DEF ChainIsSupported
<1>2. CASE UNCHANGED <<advice, knowledge, cache>>
  BY <1>1, <1>2 DEF ChainIsSupported
<1>3. CASE CacheExpires
  <2>1. UNCHANGED <<advice, knowledge>> /\ \A a \in Number : cache'[a] # 0 => cache'[a] = cache[a]
    BY <1>3 DEF CacheExpires, ChainInv, ChainTypeOK
  <2> QED
    BY <1>1, <2>1 DEF ChainIsSupported
<1>4. ASSUME NEW t \in Publishers, CacheKnowledge(t) PROVE ChainIsSupported'
  <2> DEFINE k == local[t].knowledge
             a == local[t].advice
  <2>1. /\ pc[t] = "cache" /\ UNCHANGED <<advice, knowledge>>
        /\ cache' = [cache EXCEPT ![a] = k]
    BY <1>4 DEF CacheKnowledge, Step
  <2>2. knowledge[k] = [advice |-> a]
    BY <2>1 DEF ChainInv, Knows
  <2>3. \A b \in Number : cache'[b] = IF b = a THEN k ELSE cache[b]
    BY <2>1 DEF ChainInv, ChainTypeOK
  <2> QED
    BY <1>1, <2>1, <2>2, <2>3 DEF ChainIsSupported
<1>5. ASSUME NEW t \in Publishers, AmendAdvice(t) \/ CreateAdvice(t) PROVE ChainIsSupported'
  <2> DEFINE new == Advised(t)
             a == local[t].advice
  <2>1. /\ pc[t] \in Holding
        /\ advice' = [advice EXCEPT ![a] = new] /\ UNCHANGED <<knowledge, cache>>
    BY <1>5 DEF AmendAdvice, CreateAdvice, Step, Holding
  <2>2. new \in Advice /\ new.incident = local[t].incident /\ new # None
    BY <2>1, AdvisedType
  <2>3. local[t].incident \in IncidentId /\ rows'[local[t].incident] # NoRow
    BY <1>0, <2>1 DEF HeldIsStored, TypeOK, Threads
  <2> HIDE DEF new
  <2>4. \A b \in Number : advice'[b] = advice[b] \/ advice'[b] = new
    BY <2>1 DEF ChainInv, ChainTypeOK
  <2>5. \A b \in Number : advice'[b] # None =>
            advice'[b].incident \in IncidentId /\ rows'[advice'[b].incident] # NoRow
    BY <1>0, <2>2, <2>3, <2>4 DEF ChainIsSupported
  <2>6. \A k \in Number : knowledge'[k] # None =>
            knowledge'[k].advice \in Number /\ advice'[knowledge'[k].advice] # None
    BY <2>1, <2>2, <2>4 DEF ChainIsSupported
  <2> QED
    BY <2>1, <2>5, <2>6 DEF ChainIsSupported
<1>6. ASSUME NEW t \in Publishers, SaveKnowledge(t) PROVE ChainIsSupported'
  <2> DEFINE k == local[t].knowledge
             a == local[t].advice
  <2>1. /\ pc[t] = "save"
        /\ knowledge' = [knowledge EXCEPT ![k] = [advice |-> a]]
        /\ UNCHANGED <<advice, cache>>
    BY <1>6 DEF SaveKnowledge, CacheKnowledge, Step
  <2>2. k \in Number /\ knowledge[k] = None /\ a \in Number /\ advice[a] # None
    BY <2>1, ChainAssumption DEF ChainInv, Knows, Stored, Explaining, NumbersOK, Number
  <2>3. \A l \in Number : knowledge'[l] = IF l = k THEN [advice |-> a] ELSE knowledge[l]
    BY <2>1 DEF ChainInv, ChainTypeOK
  <2>5. \A b \in Number : cache[b] # 0 => cache[b] \in Number /\ cache[b] # k
    <3>1. \A b \in Number : [advice |-> b] # None
      BY NoneIsNone DEF Knowledge
    <3>2. \A b \in Number : cache[b] # 0 => cache[b] \in Number
      BY ChainAssumption DEF ChainInv, ChainTypeOK, Number
    <3>3. \A b \in Number : cache[b] # 0 => knowledge[cache[b]] # None
      BY <3>1 DEF ChainIsSupported
    <3> QED
      BY <2>2, <3>2, <3>3
  <2>6. \A b \in Number : cache'[b] # 0 => knowledge'[cache'[b]] = [advice |-> b]
    BY <2>1, <2>3, <2>5 DEF ChainIsSupported
  <2>7. \A l \in Number : knowledge'[l] # None =>
            knowledge'[l].advice \in Number /\ advice'[knowledge'[l].advice] # None
    BY <2>1, <2>2, <2>3 DEF ChainIsSupported
  <2> QED
    BY <1>0, <2>1, <2>6, <2>7 DEF ChainIsSupported
<1> QED
  BY <1>2, <1>3, <1>4, <1>5, <1>6, ChainChanges

(* Whichever call of whichever repository fails, and however many threads  *)
(* are at work on one incident.                                            *)
THEOREM SupportCorrect == ChainSpec => []ChainIsSupported
<1>1. ChainInit => HeldIsStored /\ ChainIsSupported
  BY DEF ChainInit, Init, HeldIsStored, Holding, ChainIsSupported
<1> QED
  BY <1>1, TypeCorrect, WritingCorrect, Numbers, ChainCorrect, HeldStep, SupportStep, PTL
     DEF ChainSpec

-----------------------------------------------------------------------------
(* One recommendation and one explanation, while no two threads are at     *)
(* work on one incident: a thread that found none stays right about it.    *)

NoAdvice(t) == \A a \in Number : advice[a] # None => advice[a].incident # local[t].incident
NoKnowledge(t) == \A k \in Number : knowledge[k] # None => knowledge[k].advice # local[t].advice

Generating == {"generate", "numberResult", "save"}

Alone ==
    ~crowded =>
        /\ ~Crowd
        /\ \A t \in Publishers : /\ pc[t] \in Creating => NoAdvice(t)
                                 /\ pc[t] \in Generating => NoKnowledge(t)
        /\ OneAdviceUnlessCrowded

(* What the acting thread knows when it comes to create or to generate.    *)
LEMMA Knowing ==
    ASSUME TypeOK, NumbersOK, Alone, ~crowded, [ChainNext]_allVars, NEW t \in Publishers
    PROVE  /\ pc'[t] \in Creating =>
                /\ NoAdvice(t) /\ local'[t].incident = local[t].incident
                /\ pc[t] \in Creating \/ UNCHANGED advice
           /\ pc'[t] \in Generating =>
                /\ NoKnowledge(t) /\ local'[t].advice = local[t].advice
                /\ pc[t] \in Generating \/ UNCHANGED knowledge
<1>0. \A stage : Goto(t, stage) => pc'[t] = stage
  BY DEF Goto, TypeOK, Threads
<1>1. CASE UNCHANGED <<pc[t], local[t]>>
  BY <1>1 DEF Alone
<1>2. CASE \E u \in Threads : Moves(u) /\ u # t
  BY <1>1, <1>2, OthersStay DEF Threads
<1>3. CASE \/ Publish(t) \/ ExecuteBegin(t) \/ Find(t) \/ FindFallback(t) \/ WriteBack(t)
           \/ ReadSequence(t) \/ WriteSequence(t) \/ ReadClock(t) \/ Insert(t)
           \/ DatabaseRaises(t) \/ ExecuteEnd(t)
  <2>1. pc'[t] \notin Stored \cup Creating
    BY <1>3, StagesOfTheAgent
  <2> QED
    BY <2>1 DEF Stored, Explaining, Generating
<1>4. CASE FindAdvice(t)
  <2>1. CASE Goto(t, "amend")
    BY <1>0, <2>1 DEF Creating, Generating
  <2>2. CASE /\ Goto(t, "numberAdvice") /\ local' = local
             /\ {a \in Number : advice[a] # None /\ advice[a].incident = local[t].incident} = {}
    BY <1>0, <1>4, <2>2 DEF FindAdvice, chainVars, NoAdvice, Creating, Generating
  <2> QED
    BY <1>4, <2>1, <2>2 DEF FindAdvice, Step
<1>5. CASE NumberAdvice(t)
  <2>1. pc'[t] = "create" /\ pc[t] = "numberAdvice" /\ local'[t].incident = local[t].incident
    BY <1>0, <1>5, ChainKeepsIncident DEF NumberAdvice, Step
  <2> QED
    BY <2>1 DEF Alone, Creating, Generating
<1>6. CASE FindKnowledge(t)
  <2>1. CASE Goto(t, "cache")
    BY <1>0, <2>1 DEF Creating, Generating
  <2>2. CASE /\ Goto(t, "generate") /\ local' = local
             /\ {k \in Number : knowledge[k] # None /\ knowledge[k].advice = local[t].advice} = {}
    BY <1>0, <1>6, <2>2 DEF FindKnowledge, chainVars, NoKnowledge, Creating, Generating
  <2> QED
    BY <1>6, <2>1, <2>2 DEF FindKnowledge, Step
<1>7. CASE Generate(t) \/ NumberKnowledge(t)
  <2>1. /\ pc'[t] \in {"end", "numberResult", "save"} /\ pc[t] \in Generating
        /\ local'[t].advice = local[t].advice
    BY <1>0, <1>7 DEF Generate, NumberKnowledge, Step, Generating, Remember, TypeOK, Threads, Local
  <2> QED
    BY <2>1 DEF Alone, Creating, Generating
<1>8. CASE \/ AmendAdvice(t) \/ CreateAdvice(t) \/ LookUpCache(t) \/ SaveKnowledge(t)
           \/ CacheKnowledge(t) \/ ChainBreaks(t)
  <2>1. pc'[t] \in {"explain", "end", "lookup", "cache"}
    BY <1>0, <1>8 DEF AmendAdvice, CreateAdvice, LookUpCache, SaveKnowledge, CacheKnowledge,
                      ChainBreaks, Step
  <2> QED
    BY <2>1 DEF Creating, Generating
<1>9. CASE Unsubscribe \/ Shutdown \/ CacheExpires \/ UNCHANGED allVars
  BY <1>1, <1>9 DEF Unsubscribe, Shutdown, CacheExpires, allVars, vars
<1>10. ASSUME NEW u \in Operators, ReadIncident(u) \/ ChangeStatus(u) PROVE Moves(u) /\ u # t
  BY <1>10, ActorsMove, AgentAssumption
<1> QED
  BY <1>2, <1>3, <1>4, <1>5, <1>6, <1>7, <1>8, <1>9, <1>10, ActorsMove DEF ChainNext, Next, Threads

LEMMA AloneStep ==
    TypeOK /\ NumbersOK /\ ChainInv /\ Alone /\ [ChainNext]_allVars => Alone'
<1> SUFFICES ASSUME TypeOK, NumbersOK, ChainInv, Alone, [ChainNext]_allVars, ~crowded'
             PROVE  /\ ~Crowd'
                    /\ \A t \in Publishers : /\ pc'[t] \in Creating => NoAdvice(t)'
                                             /\ pc'[t] \in Generating => NoKnowledge(t)'
                    /\ OneAdviceUnlessCrowded'
  BY DEF Alone
<1>0. crowded' = (crowded \/ Crowd') \/ crowded' = crowded
  BY DEF ChainNext, allVars
<1>1. ~crowded /\ ~Crowd /\ OneAdviceUnlessCrowded
  <2>1. ~crowded
    <3>1. CASE crowded' = (crowded \/ Crowd')
      BY <3>1, Zenon
    <3>2. CASE crowded' = crowded
      BY <3>2
    <3> QED
      BY <1>0, <3>1, <3>2
  <2> QED
    BY <2>1 DEF Alone
<1>2. ~Crowd'
  BY <1>1 DEF ChainNext, allVars, vars, Crowd
<1>3. \A t, u \in Publishers :
          t # u /\ pc[t] \in Advising /\ pc[u] \in Advising => local[t].incident # local[u].incident
  BY <1>1 DEF Crowd
<1> DEFINE Know == \A t \in Publishers : /\ pc'[t] \in Creating => NoAdvice(t)'
                                         /\ pc'[t] \in Generating => NoKnowledge(t)'
<1>4. CASE UNCHANGED <<advice, knowledge>>
  <2>1. Know
    BY <1>1, <1>4, Knowing DEF NoAdvice, NoKnowledge
  <2>2. OneAdviceUnlessCrowded'
    BY <1>1, <1>4 DEF OneAdviceUnlessCrowded
  <2> QED
    BY <1>2, <2>1, <2>2
<1>5. ASSUME NEW u \in Publishers, AmendAdvice(u) \/ CreateAdvice(u)
      PROVE  Know /\ OneAdviceUnlessCrowded'
  <2> DEFINE new == Advised(u)
             a == local[u].advice
  <2>1. /\ pc[u] \in {"amend", "create"} /\ pc'[u] = "explain"
        /\ advice' = [advice EXCEPT ![a] = new]
        /\ UNCHANGED <<local, knowledge>>
    BY <1>5 DEF AmendAdvice, CreateAdvice, Step, Goto, TypeOK, Threads
  <2>2. new.incident = local[u].incident
    BY <2>1, AdvisedType DEF Holding
  <2> HIDE DEF new
  <2>3. \A b \in Number : advice'[b] = IF b = a THEN new ELSE advice[b]
    BY <2>1 DEF ChainInv, ChainTypeOK
  <2>4. ASSUME NEW t \in Publishers, pc'[t] \in Creating PROVE NoAdvice(t)'
    <3>1. t # u /\ NoAdvice(t)
      BY <1>1, <2>1, <2>4, Knowing DEF Creating
    <3>2. CASE UNCHANGED advice
      BY <2>1, <3>1, <3>2 DEF NoAdvice
    <3>3. CASE pc[t] \in Creating
      <4>1. local[t].incident # local[u].incident
        BY <1>3, <2>1, <3>1, <3>3 DEF Creating, Advising
      <4> QED
        BY <2>1, <2>2, <2>3, <3>1, <4>1 DEF NoAdvice
    <3> QED
      BY <1>1, <2>4, <3>2, <3>3, Knowing
  <2>5. ASSUME NEW t \in Publishers, pc'[t] \in Generating PROVE NoKnowledge(t)'
    BY <1>1, <2>1, <2>5, Knowing DEF NoKnowledge
  <2>6. \A b \in Number : b # a /\ advice[b] # None => advice[b].incident # new.incident
    <3>1. CASE pc[u] = "create"
      BY <1>1, <2>2, <3>1 DEF Alone, NoAdvice, Creating
    <3>2. CASE pc[u] = "amend"
      <4>1. a \in Number /\ advice[a] # None /\ advice[a].incident = local[u].incident
        BY <3>2 DEF ChainInv, Knows, Stored
      <4> QED
        BY <1>1, <2>2, <4>1 DEF OneAdviceUnlessCrowded
    <3> QED
      BY <2>1, <3>1, <3>2
  <2>7. OneAdviceUnlessCrowded'
    BY <1>1, <2>1, <2>3, <2>6 DEF OneAdviceUnlessCrowded
  <2> QED
    BY <2>4, <2>5, <2>7
<1>6. ASSUME NEW u \in Publishers, SaveKnowledge(u)
      PROVE  Know /\ OneAdviceUnlessCrowded'
  <2> DEFINE k == local[u].knowledge
             a == local[u].advice
  <2>1. /\ pc[u] = "save" /\ pc'[u] = "cache"
        /\ knowledge' = [knowledge EXCEPT ![k] = [advice |-> a]]
        /\ UNCHANGED <<local, advice>>
    BY <1>6 DEF SaveKnowledge, CacheKnowledge, Step, Goto, TypeOK, Threads
  <2>2. \A l \in Number : knowledge'[l] = IF l = k THEN [advice |-> a] ELSE knowledge[l]
    BY <2>1 DEF ChainInv, ChainTypeOK
  <2>3. NoKnowledge(u) /\ advice[a].incident = local[u].incident
    BY <1>1, <2>1 DEF Alone, Generating, ChainInv, Knows, Stored, Explaining
  <2>4. ASSUME NEW t \in Publishers, pc'[t] \in Creating PROVE NoAdvice(t)'
    BY <1>1, <2>1, <2>4, Knowing DEF NoAdvice
  <2>5. ASSUME NEW t \in Publishers, pc'[t] \in Generating PROVE NoKnowledge(t)'
    <3>1. t # u /\ NoKnowledge(t)
      BY <1>1, <2>1, <2>5, Knowing DEF Generating
    <3>2. CASE UNCHANGED knowledge
      BY <2>1, <3>1, <3>2 DEF NoKnowledge
    <3>3. CASE pc[t] \in Generating
      <4>1. /\ local[t].incident # local[u].incident
            /\ advice[local[t].advice].incident = local[t].incident
        BY <1>3, <2>1, <3>1, <3>3 DEF Generating, Advising, ChainInv, Knows, Stored, Explaining
      <4>2. local[t].advice # a
        BY <2>3, <4>1
      <4> QED
        BY <2>1, <2>2, <3>1, <4>2 DEF NoKnowledge
    <3> QED
      BY <1>1, <2>5, <3>2, <3>3, Knowing
  <2>6. OneAdviceUnlessCrowded'
    <3>1. \A l \in Number : l # k /\ knowledge[l] # None => knowledge[l] # [advice |-> a]
      BY <2>3 DEF NoKnowledge
    <3>2. \A l, m \in Number : knowledge[l] # None /\ knowledge[l] = knowledge[m] => l = m
      BY <1>1 DEF OneAdviceUnlessCrowded
    <3>3. [advice |-> a] # None
      BY DEF None
    <3>4. \A l, m \in Number : knowledge'[l] # None /\ knowledge'[l] = knowledge'[m] => l = m
      BY <2>2, <3>1, <3>2, <3>3
    <3> QED
      BY <1>1, <2>1, <3>4 DEF OneAdviceUnlessCrowded
  <2> QED
    BY <2>4, <2>5, <2>6
<1> QED
  BY <1>2, <1>4, <1>5, <1>6, ChainChanges DEF CacheExpires, CacheKnowledge

(* Search and creation are separate calls, and any call may fail; only two *)
(* threads at one incident can double its recommendation or explanation.   *)
THEOREM OneAdviceCorrect == ChainSpec => []OneAdviceUnlessCrowded
<1>1. ChainInit => Alone
  <2> SUFFICES ASSUME ChainInit PROVE Alone
    OBVIOUS
  <2>1. \A t \in Publishers : pc[t] = "idle"
    BY DEF ChainInit, Init, Threads
  <2>2. OneAdviceUnlessCrowded
    BY DEF ChainInit, OneAdviceUnlessCrowded
  <2> QED
    BY <2>1, <2>2 DEF Alone, Crowd, Advising, Creating, Generating
<1>2. Alone => OneAdviceUnlessCrowded
  BY DEF Alone, OneAdviceUnlessCrowded
<1> QED
  BY <1>1, <1>2, AloneStep, ChainCorrect, TypeCorrect, Numbers, PTL DEF ChainSpec

-----------------------------------------------------------------------------
(* Threads of one repository object number their incidents one at a time:  *)
(* the number a thread read is still the sequence's, and the numbers that  *)
(* wait to be inserted are each other's, counted and free.                 *)

Shared == \A t, u \in Publishers : deployment.repositoryOf[t] = deployment.repositoryOf[u]

(* The stages of a thread that has its number to itself.                   *)
Numbered == {"stamp", "insert"}

Numbering ==
    /\ collided = FALSE
    /\ \A i \in IncidentId : i > seq => rows[i] = NoRow
    /\ \A t \in Publishers :
        /\ pc[t] = "number" => local[t].next = seq
        /\ pc[t] \in Numbered => local[t].next < seq /\ rows[local[t].next + 1] = NoRow
    /\ \A t, u \in Publishers : t # u =>
        /\ ~(pc[t] = "number" /\ pc[u] = "number")
        /\ {pc[t], pc[u]} \subseteq Numbered => local[t].next # local[u].next

(* What does not number keeps it.                                          *)
LEMMA NotNumbering ==
    ASSUME TypeOK, Numbering, UNCHANGED <<seq, collided>>,
           \A i \in IncidentId : rows[i] = NoRow => rows'[i] = NoRow,
           \A t \in Publishers : \/ pc'[t] = pc[t] /\ local'[t] = local[t]
                                 \/ pc'[t] \notin {"number", "stamp", "insert"}
    PROVE  Numbering'
<1>1. \A t \in Publishers : pc[t] \in Numbered => local[t].next + 1 \in IncidentId
  BY IncidentAssumption DEF TypeOK, Threads, Local, IncidentId, Numbered
<1> QED
  BY <1>1 DEF Numbering, Numbered

LEMMA FreeRowsStay ==
    ASSUME TypeOK, HeldIsStored, NEW t \in Threads,
           \/ t \in Publishers /\ WriteBack(t)
           \/ t \in Operators /\ ChangeStatus(t)
    PROVE  \A i \in IncidentId : rows[i] = NoRow => rows'[i] = NoRow
<1>1. UNCHANGED rows \/ \E row : rows' = [rows EXCEPT ![local[t].incident] = row]
  BY DEF WriteBack, ChangeStatus, UpdateIncident, incidentVars
<1>2. rows[local[t].incident] # NoRow
  BY DEF WriteBack, ChangeStatus, HeldIsStored, Holding
<1> QED
  BY <1>1, <1>2 DEF TypeOK

LEMMA NumberingStep ==
    TypeOK /\ HeldIsStored /\ Shared /\ Numbering /\ [ChainNext]_allVars => Numbering'
<1> SUFFICES ASSUME TypeOK, HeldIsStored, Shared, Numbering, [ChainNext]_allVars
             PROVE  Numbering'
  OBVIOUS
<1>1. ASSUME NEW t \in Threads, Moves(t), UNCHANGED <<seq, collided>>,
             \A i \in IncidentId : rows[i] = NoRow => rows'[i] = NoRow,
             t \in Publishers => pc'[t] \notin {"number", "stamp", "insert"}
      PROVE  Numbering'
  <2>1. \A u \in Publishers : u # t => pc'[u] = pc[u] /\ local'[u] = local[u]
    BY <1>1, OthersStay DEF Threads
  <2> QED
    BY <1>1, <2>1, NotNumbering
<1>2. CASE UNCHANGED <<incidentVars, collided, pc, local>>
  BY <1>2, NotNumbering DEF incidentVars
<1>3. ASSUME NEW t \in Publishers, ReadSequence(t) PROVE Numbering'
  <2>1. /\ pc'[t] = "number" /\ local'[t].next = seq
        /\ \A u \in Publishers : u # t => pc'[u] = pc[u] /\ local'[u] = local[u]
        /\ UNCHANGED <<rows, seq, collided>>
    BY <1>3 DEF ReadSequence, Goto, Remember, Only, incidentVars, TypeOK, Threads, Local
  <2>2. \A u \in Publishers : pc[u] # "number"
    BY <1>3 DEF ReadSequence, Shared
  <2> QED
    BY <2>1, <2>2 DEF Numbering, Numbered
<1>4. ASSUME NEW t \in Publishers, WriteSequence(t) PROVE Numbering'
  <2>1. /\ local[t].next = seq /\ seq < MaxIncidents /\ seq \in Nat
        /\ \A u \in Publishers : u # t => pc[u] # "number"
    BY <1>4, IncidentAssumption DEF WriteSequence, ReadClock, Numbering, TypeOK
  <2>2. /\ seq' = seq + 1 /\ collided' = FALSE /\ Goto(t, "stamp")
        /\ UNCHANGED <<rows, local>>
    BY <1>4, <2>1 DEF WriteSequence, ReadClock, Numbering, Only
  <2>3. /\ pc'[t] = "stamp"
        /\ \A u \in Publishers : u # t => pc'[u] = pc[u]
    BY <2>2 DEF Goto, TypeOK, Threads
  <2>4. rows[seq + 1] = NoRow
    BY <2>1, IncidentAssumption DEF Numbering, IncidentId
  <2>5. \A u \in Publishers : pc[u] \in Numbered => local[u].next \in Nat /\ local[u].next < seq
    BY IncidentAssumption DEF Numbering, TypeOK, Threads, Local
  <2>6. \A i \in IncidentId : i > seq' => rows'[i] = NoRow
    BY <2>1, <2>2 DEF Numbering, IncidentId
  <2> QED
    BY <2>1, <2>2, <2>3, <2>4, <2>5, <2>6 DEF Numbering, Numbered
<1>11. ASSUME NEW t \in Publishers, ReadClock(t) PROVE Numbering'
  <2>1. /\ pc[t] = "stamp" /\ pc'[t] = "insert" /\ local'[t].next = local[t].next
        /\ \A u \in Publishers : u # t => pc'[u] = pc[u] /\ local'[u] = local[u]
        /\ UNCHANGED <<rows, seq, collided>>
    BY <1>11 DEF ReadClock, Goto, Remember, incidentVars, TypeOK, Threads, Local
  <2> QED
    BY <2>1 DEF Numbering, Numbered
<1>5. ASSUME NEW t \in Publishers, Insert(t) PROVE Numbering'
  <2> DEFINE i == local[t].next + 1
  <2>1. /\ rows[i] = NoRow /\ local[t].next < seq /\ i \in IncidentId /\ pc[t] = "insert"
    BY <1>5, IncidentAssumption DEF Insert, Numbering, Numbered, TypeOK, Threads, Local, IncidentId
  <2>2. /\ \E row : rows' = [rows EXCEPT ![i] = row]
        /\ \E l : Remember(t, l)
        /\ Goto(t, "advise") \/ Goto(t, "end")
        /\ UNCHANGED <<seq, collided>>
    BY <1>5, <2>1 DEF Insert, CreateIncident
  <2>3. /\ pc'[t] \in {"advise", "end"}
        /\ \A u \in Publishers : u # t => pc'[u] = pc[u] /\ local'[u] = local[u]
    BY <2>2 DEF Goto, Remember, TypeOK, Threads
  <2>4. \A j \in IncidentId : j # i => rows'[j] = rows[j]
    BY <2>2 DEF TypeOK
  <2>5. \A j \in IncidentId : j > seq => rows'[j] = NoRow
    BY <2>1, <2>4, IncidentAssumption DEF Numbering, TypeOK, Threads, Local, IncidentId
  <2>6. ASSUME NEW u \in Publishers, u # t, pc[u] \in Numbered
        PROVE  local[u].next < seq /\ rows'[local[u].next + 1] = NoRow
    <3>1. /\ local[u].next + 1 \in IncidentId /\ local[u].next # local[t].next
          /\ local[u].next \in Nat /\ local[t].next \in Nat
      BY <2>1, <2>6, IncidentAssumption DEF Numbering, Numbered, TypeOK, Threads, Local, IncidentId
    <3> QED
      BY <2>4, <2>6, <3>1 DEF Numbering
  <2> QED
    BY <2>2, <2>3, <2>5, <2>6 DEF Numbering, Numbered
<1>6. ASSUME NEW t \in Publishers, WriteBack(t) PROVE Numbering'
  <2>1. UNCHANGED <<seq, collided>> /\ (Goto(t, "advise") \/ Goto(t, "end"))
    BY <1>6 DEF WriteBack, UpdateIncident, Only
  <2>2. pc'[t] \notin {"number", "stamp", "insert"}
    BY <2>1 DEF Goto, TypeOK, Threads
  <2> QED
    BY <1>1, <1>6, <2>1, <2>2, ActorsMove, FreeRowsStay
<1>7. ASSUME NEW t \in Operators, ReadIncident(t) \/ ChangeStatus(t) PROVE Numbering'
  <2>1. UNCHANGED <<seq, collided>>
    BY <1>7 DEF ReadIncident, ChangeStatus, UpdateIncident, Only, incidentVars
  <2>2. \A i \in IncidentId : rows[i] = NoRow => rows'[i] = NoRow
    <3>1. CASE ReadIncident(t)
      BY <3>1 DEF ReadIncident, incidentVars
    <3> QED
      BY <1>7, <3>1, FreeRowsStay DEF Threads
  <2> QED
    BY <1>1, <1>7, <2>1, <2>2, ActorsMove, AgentAssumption
<1>8. ASSUME NEW t \in Publishers,
             \/ Publish(t) \/ ExecuteBegin(t) \/ Find(t) \/ FindFallback(t) \/ DatabaseRaises(t)
             \/ ExecuteEnd(t)
      PROVE  Numbering'
  <2>1. UNCHANGED <<rows, seq, collided>>
    BY <1>8 DEF Publish, ExecuteBegin, Find, FindFallback, DatabaseRaises, ExecuteEnd, Only,
                incidentVars
  <2>2. ASSUME NEW stage \in {"notified", "find", "idle", "decide", "fallback", "read", "end"},
               Goto(t, stage)
        PROVE  pc'[t] \notin {"number", "stamp", "insert"}
    BY <2>2 DEF Goto, TypeOK, Threads
  <2>3. CASE Publish(t) \/ DatabaseRaises(t) \/ ExecuteEnd(t)
    <3>1. Goto(t, "notified") \/ Goto(t, "end") \/ Goto(t, "idle")
      BY <2>3 DEF Publish, DatabaseRaises, ExecuteEnd
    <3> QED
      BY <1>1, <1>8, <2>1, <2>2, <3>1, ActorsMove
  <2>4. CASE ExecuteBegin(t)
    <3>1. Goto(t, "find") \/ Goto(t, "idle")
      BY <2>4 DEF ExecuteBegin
    <3> QED
      BY <1>1, <1>8, <2>1, <2>2, <3>1, ActorsMove
  <2>5. CASE Find(t) \/ FindFallback(t)
    <3>1. Goto(t, "decide") \/ Goto(t, "fallback") \/ Goto(t, "read") \/ Goto(t, "end")
      BY <2>5 DEF Find, FindFallback
    <3> QED
      BY <1>1, <1>8, <2>1, <2>2, <3>1, ActorsMove
  <2> QED
    BY <1>8, <2>3, <2>4, <2>5
<1>9. ASSUME NEW t \in Publishers,
             \/ FindAdvice(t) \/ AmendAdvice(t) \/ NumberAdvice(t) \/ CreateAdvice(t)
             \/ LookUpCache(t) \/ FindKnowledge(t) \/ Generate(t) \/ NumberKnowledge(t)
             \/ SaveKnowledge(t) \/ CacheKnowledge(t) \/ ChainBreaks(t)
      PROVE  Numbering'
  <2>1. UNCHANGED <<rows, seq, collided>>
    BY <1>9 DEF FindAdvice, AmendAdvice, NumberAdvice, CreateAdvice, LookUpCache, FindKnowledge,
                Generate, NumberKnowledge, SaveKnowledge, CacheKnowledge, ChainBreaks, Here, incidentVars
  <2>2. \E stage \in Holding \cup {"end"} : Goto(t, stage)
    BY <1>9 DEF FindAdvice, AmendAdvice, NumberAdvice, CreateAdvice, LookUpCache, FindKnowledge,
                Generate, NumberKnowledge, SaveKnowledge, CacheKnowledge, ChainBreaks, Step, Holding
  <2>3. pc'[t] \notin {"number", "stamp", "insert"}
    BY <2>2 DEF Goto, TypeOK, Threads, Holding
  <2> QED
    BY <1>1, <1>9, <2>1, <2>3, ActorsMove
<1>10. CASE Unsubscribe \/ Shutdown \/ CacheExpires \/ UNCHANGED allVars
  BY <1>2, <1>10 DEF Unsubscribe, Shutdown, CacheExpires, Here, allVars, vars
<1> QED
  BY <1>3, <1>4, <1>5, <1>6, <1>7, <1>8, <1>9, <1>10, <1>11
     DEF ChainNext, Next

(* The lock of a repository object is enough for its own threads.          *)
THEOREM NumbersNeverCollide == ChainSpec => []OneRepositoryNeverCollides
<1>1. ChainInit => HeldIsStored /\ (Shared => Numbering)
  <2> SUFFICES ASSUME ChainInit PROVE HeldIsStored /\ Numbering
    OBVIOUS
  <2>1. \A t \in Threads : pc[t] = "idle"
    BY DEF ChainInit, Init
  <2> QED
    BY <2>1 DEF ChainInit, Init, IncidentInit, HeldIsStored, Holding, Numbering, Numbered, Threads
<1>2. [ChainNext]_allVars => (Shared' <=> Shared)
  BY DEF ChainNext, Next, Only, Here, allVars, vars, Publish, ExecuteBegin, Find, FindFallback,
         WriteBack, ReadSequence, WriteSequence, ReadClock, Insert, DatabaseRaises, ExecuteEnd, ReadIncident,
         ChangeStatus, Unsubscribe, Shutdown, FindAdvice, AmendAdvice, NumberAdvice, CreateAdvice,
         LookUpCache, FindKnowledge, Generate, NumberKnowledge, SaveKnowledge, CacheKnowledge, ChainBreaks,
         CacheExpires, Shared
<1>3. (Shared => Numbering) => OneRepositoryNeverCollides
  BY DEF Shared, Numbering, OneRepositoryNeverCollides
<1> QED
  BY <1>1, <1>2, <1>3, NumberingStep, HeldStep, TypeCorrect, WritingCorrect, Numbers, PTL
     DEF ChainSpec
=============================================================================
