--------------------------- MODULE RemediationChain ---------------------------
(***************************************************************************)
(* What follows an incident's event, in the thread that published it: the  *)
(* recommendation agent finds or creates the incident's recommendation and *)
(* publishes it, the knowledge agent has it explained by a language model  *)
(* (agents/recommendation, agents/knowledge).                              *)
(*                                                                         *)
(* Both agents listen on one bus, each with one repository object; a       *)
(* repository call is one step, under that object's lock, the numbering    *)
(* included.  No lock is held between two calls.  A recommendation is the  *)
(* incident it is for and its priority; its plans follow from templates.   *)
(* An error ends the chain and is only logged.  The cache's entries are    *)
(* dropped when they expire, at any time.                                  *)
(***************************************************************************)
EXTENDS IncidentAgent

CONSTANT MaxAdvice     (* bound: numbers handed out for recommendations
                          and for results                                 *)

VARIABLES
    advice, adviceSeq,        (* tables recommendations, .._sequence       *)
    knowledge, knowledgeSeq,  (* tables knowledge_results, .._sequence     *)
    cache,                    (* KnowledgeCache: the result cached for
                                 each recommendation, 0 for none          *)
    crowded                   (* history: two threads were at work on one
                                 incident's recommendation                *)

chainVars == <<advice, adviceSeq, knowledge, knowledgeSeq, cache>>
allVars == <<vars, chainVars, crowded>>

ASSUME ChainAssumption == MaxAdvice \in Nat \ {0}

Number == 1..MaxAdvice
None == [none |-> TRUE]

ChainInit ==
    /\ Init
    /\ advice = [a \in Number |-> None] /\ adviceSeq = 0
    /\ knowledge = [k \in Number |-> None] /\ knowledgeSeq = 0
    /\ cache = [a \in Number |-> 0]
    /\ crowded = FALSE

MapSeverityToPriority(severity) == IF severity = "INFO" THEN "LOW" ELSE severity

Step(t, from, to) == pc[t] = from /\ Goto(t, to)
Here == UNCHANGED <<incidentVars, deployment, agent, stop, overlapped, clock, collided,
                    predictions, changes>>

----------------------------------------------------------------------------
(* RecommendationService.generate_recommendation_for_incident.             *)

(* A variant that takes every event for that of a new incident.            *)
AdviseAnew(t) ==
    /\ Step(t, "advise", "numberAdvice")
    /\ Here /\ UNCHANGED <<local, chainVars>>

(* The newest by clocks that were read before the search: any.             *)
FindAdvice(t) ==
    LET found == {a \in Number : advice[a] # None /\ advice[a].incident = local[t].incident}
    IN  /\ \/ Step(t, "advise", "amend") /\ \E a \in found : Remember(t, [local[t] EXCEPT !.advice = a])
           \/ Step(t, "advise", "numberAdvice") /\ found = {} /\ UNCHANGED local
        /\ Here /\ UNCHANGED chainVars

Advised(t) == [incident |-> local[t].incident,
               priority |-> MapSeverityToPriority(local[t].row.severity)]

AmendAdvice(t) ==
    /\ Step(t, "amend", "explain")
    /\ advice' = [advice EXCEPT ![local[t].advice] = Advised(t)]
    /\ Here /\ UNCHANGED <<local, adviceSeq, knowledge, knowledgeSeq, cache>>

NumberAdvice(t) ==
    /\ Step(t, "numberAdvice", "create") /\ adviceSeq < MaxAdvice
    /\ adviceSeq' = adviceSeq + 1
    /\ Remember(t, [local[t] EXCEPT !.advice = adviceSeq'])
    /\ Here /\ UNCHANGED <<advice, knowledge, knowledgeSeq, cache>>

CreateAdvice(t) ==
    /\ Step(t, "create", "explain")
    /\ advice' = [advice EXCEPT ![local[t].advice] = Advised(t)]
    /\ Here /\ UNCHANGED <<local, adviceSeq, knowledge, knowledgeSeq, cache>>

----------------------------------------------------------------------------
(* KnowledgeService.generate_knowledge_for_recommendation.  What is cached *)
(* or stored for a recommendation answers for all its later versions.      *)

LookUpCache(t) ==
    /\ Step(t, "explain", IF cache[local[t].advice] # 0 THEN "end" ELSE "lookup")
    /\ Here /\ UNCHANGED <<local, chainVars>>

FindKnowledge(t) ==
    LET a     == local[t].advice
        found == {k \in Number : knowledge[k] # None /\ knowledge[k].advice = a}
    IN  /\ \/ /\ Step(t, "lookup", "cache")
              /\ \E k \in found : Remember(t, [local[t] EXCEPT !.knowledge = k])
           \/ Step(t, "lookup", "generate") /\ found = {} /\ UNCHANGED local
        /\ Here /\ UNCHANGED chainVars

(* OllamaProvider.generate has no more retries, or answers with the record *)
(* of its offline fallback, which the parser cannot read.                  *)
Generate(t) ==
    /\ \/ Step(t, "generate", "numberResult")
       \/ Step(t, "generate", "end")
    /\ Here /\ UNCHANGED <<local, chainVars>>

NumberKnowledge(t) ==
    /\ Step(t, "numberResult", "save") /\ knowledgeSeq < MaxAdvice
    /\ knowledgeSeq' = knowledgeSeq + 1
    /\ Remember(t, [local[t] EXCEPT !.knowledge = knowledgeSeq'])
    /\ Here /\ UNCHANGED <<advice, adviceSeq, knowledge, cache>>

(* A variant that caches first: the save may still fail.                   *)
CacheFirst(t) ==
    /\ Step(t, "save", "end")
    /\ cache' = [cache EXCEPT ![local[t].advice] = local[t].knowledge]
    /\ \/ knowledge' = [knowledge EXCEPT ![local[t].knowledge] = [advice |-> local[t].advice]]
       \/ UNCHANGED knowledge
    /\ Here /\ UNCHANGED <<local, advice, adviceSeq, knowledgeSeq>>

SaveKnowledge(t) ==
    /\ Step(t, "save", "cache")
    /\ knowledge' = [knowledge EXCEPT ![local[t].knowledge] = [advice |-> local[t].advice]]
    /\ Here /\ UNCHANGED <<local, advice, adviceSeq, knowledgeSeq, cache>>

(* What was found or saved is cached.                                      *)
CacheKnowledge(t) ==
    /\ Step(t, "cache", "end")
    /\ cache' = [cache EXCEPT ![local[t].advice] = local[t].knowledge]
    /\ Here /\ UNCHANGED <<local, advice, adviceSeq, knowledge, knowledgeSeq>>

(* The database raises.                                                    *)
ChainBreaks(t) ==
    /\ \E from \in {"advise", "amend", "numberAdvice", "create", "lookup", "numberResult", "save"} :
           Step(t, from, "end")
    /\ Here /\ UNCHANGED <<local, chainVars>>

CacheExpires ==
    /\ \E a \in Number : cache[a] # 0 /\ cache' = [cache EXCEPT ![a] = 0]
    /\ Here /\ UNCHANGED <<pc, local, advice, adviceSeq, knowledge, knowledgeSeq>>

Advising == {"advise", "amend", "numberAdvice", "create", "explain", "lookup", "generate",
             "numberResult", "save", "cache"}
Crowd == \E t, u \in Publishers :
            t # u /\ {pc[t], pc[u]} \subseteq Advising /\ local[t].incident = local[u].incident

ChainNext ==
    /\ \/ Next /\ UNCHANGED chainVars
       \/ \E t \in Publishers :
            \/ FindAdvice(t) \/ AmendAdvice(t) \/ NumberAdvice(t) \/ CreateAdvice(t)
            \/ LookUpCache(t) \/ FindKnowledge(t) \/ Generate(t) \/ NumberKnowledge(t)
            \/ SaveKnowledge(t) \/ CacheKnowledge(t) \/ ChainBreaks(t)
       \/ CacheExpires
    /\ crowded' = (crowded \/ Crowd')

ChainSpec == ChainInit /\ [][ChainNext]_allVars

----------------------------------------------------------------------------
(* Three tables that no foreign key relates, written by three repositories *)
(* of which each may fail at any call, and a cache in memory: a            *)
(* recommendation is for an incident that was stored, an explanation for a *)
(* recommendation that was, and what is cached can be found again once the *)
(* cache has dropped it.                                                   *)
ChainIsSupported ==
    /\ \A a \in Number : advice[a] # None =>
           advice[a].incident \in IncidentId /\ rows[advice[a].incident] # NoRow
    /\ \A k \in Number : knowledge[k] # None =>
           knowledge[k].advice \in Number /\ advice[knowledge[k].advice] # None
    /\ \A a \in Number : cache[a] # 0 => knowledge[cache[a]] = [advice |-> a]

(* Search and creation are calls of their own, twice in a row.  Only two   *)
(* threads at one incident at once can give it a second recommendation, or *)
(* the recommendation a second explanation: errors, retries by the next    *)
(* prediction and an expired cache do not.                                 *)
OneAdviceUnlessCrowded ==
    ~crowded =>
        /\ \A a, b \in Number : /\ advice[a] # None /\ advice[b] # None
                                 /\ advice[a].incident = advice[b].incident => a = b
        /\ \A k, l \in Number : knowledge[k] # None /\ knowledge[k] = knowledge[l] => k = l
=============================================================================
