----------------------------- MODULE ToolResults -----------------------------
(***************************************************************************)
(* What the LangGraph nodes read from a conversation                       *)
(* (experia/integrations/langgraph/utils.py and nodes.py).                 *)
(*                                                                         *)
(* A message has a type, a content ("" or some text), the ids of the calls *)
(* it declares if it is an AI message, and the id of the call it answers   *)
(* if it is a tool's.  NoId is an id that is None or blank, BadId one that *)
(* cannot be hashed.                                                       *)
(***************************************************************************)
EXTENDS Naturals, Sequences, SequencesExt, FiniteSets

NoId == "no id"
BadId == "unhashable"
Nothing == <<>>
Message(type, content, calls, answers) ==
    [type |-> type, content |-> content, calls |-> calls, answers |-> answers]
Messages == [type : STRING, content : STRING, calls : Seq(STRING), answers : STRING]

IsTool(m) == m.type = "tool"
IsHuman(m) == m.type = "human"

\* The last of some positions, 0 if there is none.
LastOf(found) == CHOOSE i \in found \cup {0} : \A j \in found : j <= i
LastTool(messages) == LastOf({i \in DOMAIN messages : IsTool(messages[i])})
LastOther(messages) == LastOf({i \in DOMAIN messages : ~IsTool(messages[i])})
LastHuman(messages) == LastOf({i \in DOMAIN messages : IsHuman(messages[i])})

\* _latest_contiguous_tool_group: the AI message and the results right after
\* it that are the newest results of the conversation.
LatestGroup(messages) ==
    LET end == LastTool(messages)
        ai == LastOther(SubSeq(messages, 1, end))
    IN IF end = 0 \/ ai = 0 \/ messages[ai].type # "ai" \/ messages[ai].calls = <<>>
       THEN Nothing
       ELSE [ai |-> ai, calls |-> messages[ai].calls,
             results |-> SubSeq(messages, ai + 1, end)]

\* Mutant: results are matched by their number whenever an id is missing.
AssociatedLoosely(calls, results) ==
    LET ids == {results[i].answers : i \in DOMAIN results}
    IN IF NoId \in Range(calls) \cup ids
       THEN Len(calls) = Len(results)
       ELSE IsInjective(calls) /\ ids = Range(calls)

\* _associate_tool_results: whether the results are those of the calls.
Associated(calls, results) ==
    LET given == Range(calls)
        answered == {results[i].answers : i \in DOMAIN results}
    IN /\ BadId \notin given \cup answered
       /\ \/ NoId \notin given \cup answered
             /\ IsInjective(calls) /\ answered = given
          \/ given \cup answered = {NoId} /\ Len(calls) = Len(results)

\* default_messages_state_extractor
Extracted(messages) ==
    LET group == LatestGroup(messages)
        human == LastHuman(SubSeq(messages, 1, group.ai - 1))
        filled == \/ Len(group.results) > 1
                  \/ \E i \in DOMAIN group.results : group.results[i].content # ""
    IN IF group = Nothing THEN Nothing
       ELSE IF ~Associated(group.calls, group.results) THEN Nothing
       ELSE IF human = 0 THEN Nothing
       ELSE IF messages[human].content = "" \/ ~filled THEN Nothing
       ELSE [task |-> messages[human].content, action |-> group.calls,
             result |-> [i \in DOMAIN group.results |-> group.results[i].content]]

\* ExperiaLearningNode: what it hands to record() or schedule_record().
\* finalize_experience_candidate refuses blank texts; several blank results
\* joined by newlines are blank.
Blank(contents) == \A i \in DOMAIN contents : contents[i] = ""
Learned(messages) ==
    LET candidate == Extracted(messages)
    IN IF candidate = Nothing THEN Nothing
       ELSE IF Blank(candidate.result) THEN Nothing ELSE candidate

\* ExperiaContextNode: the query it retrieves for; "" means no retrieval.
Query(messages) ==
    LET human == LastHuman(messages)
    IN IF human = 0 THEN "" ELSE messages[human].content
-----------------------------------------------------------------------------
\* utils.py: "Extract the newest complete LangGraph task/action/result tool
\* group ... preventing cross-run guesses".  What is learned is the answers
\* that stand right after the AI message they are attributed to, all of them
\* and no others; each call has an answer among them; nothing newer answers
\* anything; and the task is what the human had last asked before.
IsGroup(messages, ai, end) ==
    /\ ai < end /\ messages[ai].type = "ai" /\ messages[ai].calls # <<>>
    /\ \A i \in ai + 1 .. end : IsTool(messages[i])
    /\ \A i \in end + 1 .. Len(messages) : ~IsTool(messages[i])
Answers(messages, ai, end) ==
    LET calls == messages[ai].calls IN
    \/ /\ \A i \in ai + 1 .. end : \E c \in DOMAIN calls :
              calls[c] = messages[i].answers /\ calls[c] \notin {NoId, BadId}
       /\ \A c \in DOMAIN calls : \E i \in ai + 1 .. end : messages[i].answers = calls[c]
       /\ \A c, d \in DOMAIN calls : calls[c] = calls[d] => c = d
    \/ /\ \A i \in ai + 1 .. end : messages[i].answers = NoId
       /\ \A c \in DOMAIN calls : calls[c] = NoId
       /\ end - ai = Len(calls)
LearnsWholeGroups(messages) ==
    LET learned == Learned(messages)
        groups == {g \in (1 .. Len(messages)) \X (1 .. Len(messages)) :
                      IsGroup(messages, g[1], g[2]) /\ Answers(messages, g[1], g[2])}
        Asked(a, h) == /\ h < a /\ IsHuman(messages[h])
                       /\ \A i \in h + 1 .. a : ~IsHuman(messages[i])
    IN \/ learned = Nothing /\ \A g \in groups :
             \/ \A i \in g[1] + 1 .. g[2] : messages[i].content = ""
             \/ \A h \in DOMAIN messages : Asked(g[1], h) => messages[h].content = ""
       \/ /\ learned # Nothing
          /\ \E g \in groups, h \in DOMAIN messages :
                /\ Asked(g[1], h)
                /\ learned.task = messages[h].content
                /\ learned.action = messages[g[1]].calls
                /\ learned.result = [i \in 1 .. g[2] - g[1] |->
                                        messages[g[1] + i].content]
=============================================================================
