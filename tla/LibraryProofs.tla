--------------------------- MODULE LibraryProofs ---------------------------
(***************************************************************************)
(* Proofs about the parts of the library, for every conversation, every    *)
(* table and query, every prompt, every payload and sanitizer, every       *)
(* record, and every two signatures and snapshots.                         *)
(*                                                                         *)
(* What a LangGraph node learns is read off the ends of the conversation:  *)
(* a group that answers its calls can only be the newest results and the   *)
(* message right before them (OneGroup), and the code finds just that one. *)
(*                                                                         *)
(* Sorting is by place, the number of members ahead (SortedPlaces).  A     *)
(* search ranks a table of what is in its reach, and the ranker has, after *)
(* each row, the best of the rows so far (Best, AddKeepsBest).             *)
(*                                                                         *)
(* The prompt builder's loop has, after each memory, taken just those that *)
(* fitted (Taken, TakesNext).  What a memory writes is plain, so each      *)
(* block adds three lines and keeps the frame (Framed, FrameGrows).        *)
(*                                                                         *)
(* A signature that passes keeps the places of the old positional          *)
(* parameters (PlacesKept), and so every call (CallsOfBaseline), unless    *)
(* it takes a place or a keyword: then the call that fills every place     *)
(* (FullCall) is not kept (TakenPlace, TakenKeyword).                      *)
(*                                                                         *)
(* What is said of nested data is said level by level: a recursion that    *)
(* looks one level down has a function (RecursionExists), so the copy of a *)
(* payload unfolds (CopyUnfolds) and has clean leaves (AllCopiesClean).    *)
(*                                                                         *)
(* The encoder's validator goes down a heap with the containers it is in,  *)
(* and what is left to visit gets less (StrictUnfolds): it refuses just    *)
(* the cycles and what JSON has not (ValidationIsExact).  What it lets     *)
(* through is written no deeper than that (StrictDumps), so it is read.    *)
(***************************************************************************)
EXTENDS Library, Selections, Integers, SequenceTheorems, FiniteSetTheorems, WellFoundedInduction, TLAPS

-----------------------------------------------------------------------------
\* Once a part is in use nothing happens.
InUse ==
    \/ part = "none"
    \/ part = "prompt" /\ input \in Prompts
    \/ part = "conversation" /\ input \in Conversations
    \/ part = "query" /\ input \in Queries
    \/ part = "signature" /\ input \in Signatures
    \/ part = "release" /\ input \in Releases
    \/ part = "request" /\ input \in Requests
    \/ part = "json" /\ input \in JsonValues
    \/ part = "record" /\ input \in Records

\* In every behaviour a part in use has an input of its kind.
LEMMA UsedAlways == Spec => []InUse
  <1>1. Init => InUse
    BY DEF Init, InUse
  <1>2. InUse /\ [Next]_vars => InUse'
    BY DEF Next, Use, vars, InUse
  <1> QED
    BY <1>1, <1>2, PTL DEF Spec
-----------------------------------------------------------------------------
\* A bounded set of positions has a last one, and CHOOSE finds it.
LEMMA LastPosition ==
    ASSUME NEW n \in Nat, NEW F \in SUBSET (1 .. n)
    PROVE  LET l == CHOOSE i \in F \cup {0} : \A j \in F : j <= i
           IN  /\ l \in F \cup {0}
               /\ \A j \in F : j <= l
  <1> DEFINE T == {n - j : j \in F \cup {0}}
  <1>1. T \in SUBSET Nat /\ T # {}
    OBVIOUS
  <1>2. PICK m \in T : \A k \in T : ~ (<<k, m>> \in OpToRel(<, Nat))
    BY <1>1, NatLessThanWellFounded, WFMin, Zenon
  <1>3. \A k \in T : ~ (k < m)
    BY <1>1, <1>2 DEF OpToRel
  <1>4. PICK l \in F \cup {0} : m = n - l
    OBVIOUS
  <1>5. \A j \in F : j <= l
    <2>1. ASSUME NEW j \in F
          PROVE  j <= l
      <3>1. n - j \in T /\ j \in Nat /\ l \in Nat
        OBVIOUS
      <3>2. ~ (n - j < n - l)
        BY <1>3, <1>4, <3>1
      <3> QED
        BY <3>1, <3>2
    <2> QED
      BY <2>1
  <1>6. \E i \in F \cup {0} : \A j \in F : j <= i
    BY <1>5
  <1> QED
    BY <1>6, Zenon

\* The last message of each kind.
LEMMA LastToolFound ==
    ASSUME NEW s \in Seq(Graph!Messages)
    PROVE  LET l == Graph!LastTool(s)
           IN  /\ l \in 0 .. Len(s)
               /\ l # 0 => s[l].type = "tool"
               /\ \A i \in 1 .. Len(s) : s[i].type = "tool" => i <= l
  <1> DEFINE F == {i \in DOMAIN s : s[i].type = "tool"}
             l == Graph!LastTool(s)
  <1>1. F \in SUBSET (1 .. Len(s)) /\ Len(s) \in Nat /\ DOMAIN s = 1 .. Len(s)
    BY LenProperties
  <1>2. l = CHOOSE i \in F \cup {0} : \A j \in F : j <= i
    BY DEF Graph!LastTool, Graph!LastOf, Graph!IsTool
  <1>3. l \in F \cup {0} /\ \A j \in F : j <= l
    <2> HIDE DEF F, l
    <2> QED
      BY <1>1, <1>2, LastPosition
  <1> QED
    BY <1>1, <1>3

\* The last message that is no result.
LEMMA LastOtherFound ==
    ASSUME NEW s \in Seq(Graph!Messages)
    PROVE  LET l == Graph!LastOther(s)
           IN  /\ l \in 0 .. Len(s)
               /\ l # 0 => s[l].type # "tool"
               /\ \A i \in 1 .. Len(s) : s[i].type # "tool" => i <= l
  <1> DEFINE F == {i \in DOMAIN s : s[i].type # "tool"}
             l == Graph!LastOther(s)
  <1>1. F \in SUBSET (1 .. Len(s)) /\ Len(s) \in Nat /\ DOMAIN s = 1 .. Len(s)
    BY LenProperties
  <1>2. l = CHOOSE i \in F \cup {0} : \A j \in F : j <= i
    BY DEF Graph!LastOther, Graph!LastOf, Graph!IsTool
  <1>3. l \in F \cup {0} /\ \A j \in F : j <= l
    <2> HIDE DEF F, l
    <2> QED
      BY <1>1, <1>2, LastPosition
  <1> QED
    BY <1>1, <1>3

\* The last message of a person.
LEMMA LastHumanFound ==
    ASSUME NEW s \in Seq(Graph!Messages)
    PROVE  LET l == Graph!LastHuman(s)
           IN  /\ l \in 0 .. Len(s)
               /\ l # 0 => s[l].type = "human"
               /\ \A i \in 1 .. Len(s) : s[i].type = "human" => i <= l
  <1> DEFINE F == {i \in DOMAIN s : s[i].type = "human"}
             l == Graph!LastHuman(s)
  <1>1. F \in SUBSET (1 .. Len(s)) /\ Len(s) \in Nat /\ DOMAIN s = 1 .. Len(s)
    BY LenProperties
  <1>2. l = CHOOSE i \in F \cup {0} : \A j \in F : j <= i
    BY DEF Graph!LastHuman, Graph!LastOf, Graph!IsHuman
  <1>3. l \in F \cup {0} /\ \A j \in F : j <= l
    <2> HIDE DEF F, l
    <2> QED
      BY <1>1, <1>2, LastPosition
  <1> QED
    BY <1>1, <1>3
-----------------------------------------------------------------------------
\* The newest results end at End, and the message before them is at First.
End(s) == Graph!LastTool(s)
First(s) == Graph!LastOther(SubSeq(s, 1, End(s)))
Results(s) == SubSeq(s, First(s) + 1, End(s))
Whole(s) == [ai |-> First(s), calls |-> s[First(s)].calls, results |-> Results(s)]

\* The messages between First and End are the results, and they are the newest.
LEMMA GroupEnds ==
    ASSUME NEW s \in Seq(Graph!Messages)
    PROVE  /\ End(s) \in 0 .. Len(s) /\ First(s) \in 0 .. End(s)
           /\ First(s) = End(s) => End(s) = 0
           /\ \A i \in First(s) + 1 .. End(s) : s[i].type = "tool"
           /\ \A i \in End(s) + 1 .. Len(s) : s[i].type # "tool"
           /\ End(s) # 0 => s[End(s)].type = "tool"
           /\ First(s) # 0 => s[First(s)].type # "tool"
  <1> DEFINE e == End(s)
             t == SubSeq(s, 1, e)
             a == First(s)
  <1>1. /\ Len(s) \in Nat /\ e \in 0 .. Len(s)
        /\ e # 0 => s[e].type = "tool"
        /\ \A i \in 1 .. Len(s) : s[i].type = "tool" => i <= e
    BY LastToolFound, LenProperties DEF End
  <1>2. \A i \in 1 .. e : s[i] \in Graph!Messages
    BY <1>1, ElementOfSeq
  <1> HIDE DEF e
  <1>3. /\ t \in Seq(Graph!Messages) /\ Len(t) = e
        /\ \A i \in 1 .. e : t[i] = s[i]
    BY <1>1, <1>2, SubSeqProperties
  <1> HIDE DEF t
  <1>4. /\ a \in 0 .. Len(t)
        /\ a # 0 => t[a].type # "tool"
        /\ \A i \in 1 .. Len(t) : t[i].type # "tool" => i <= a
    BY <1>3, LastOtherFound DEF First, t, e
  <1> HIDE DEF a
  <1>5. /\ \A i \in a + 1 .. e : s[i].type = "tool"
        /\ a # 0 => s[a].type # "tool"
    BY <1>1, <1>3, <1>4
  <1>6. \A i \in e + 1 .. Len(s) : s[i].type # "tool"
    BY <1>1
  <1>7. a \in 0 .. e /\ (a = e => e = 0)
    BY <1>1, <1>3, <1>4, <1>5
  <1> QED
    BY <1>1, <1>5, <1>6, <1>7 DEF e, a

\* Each of them is a message of the conversation, in its place.
LEMMA ResultsOfGroup ==
    ASSUME NEW s \in Seq(Graph!Messages)
    PROVE  /\ Results(s) \in Seq(Graph!Messages)
           /\ Len(Results(s)) = End(s) - First(s)
           /\ DOMAIN Results(s) = 1 .. End(s) - First(s)
           /\ \A i \in 1 .. End(s) - First(s) : Results(s)[i] = s[First(s) + i]
  <1> DEFINE e == End(s)
             a == First(s)
             r == Results(s)
  <1>1. e \in 0 .. Len(s) /\ a \in 0 .. e /\ Len(s) \in Nat
    BY GroupEnds, LenProperties
  <1>2. r = SubSeq(s, a + 1, e)
    BY DEF Results
  <1> HIDE DEF e, a, r
  <1>3. \A i \in a + 1 .. e : s[i] \in Graph!Messages
    BY <1>1, ElementOfSeq
  <1>4. /\ r \in Seq(Graph!Messages)
        /\ Len(r) = e - a
        /\ \A i \in 1 .. e - a : r[i] = s[a + i]
    <2>1. a + 1 \in Int /\ e \in Int
      BY <1>1
    <2>2. /\ SubSeq(s, a + 1, e) \in Seq(Graph!Messages)
          /\ Len(SubSeq(s, a + 1, e)) = IF a + 1 <= e THEN e - (a + 1) + 1 ELSE 0
          /\ \A i \in 1 .. e - (a + 1) + 1 : SubSeq(s, a + 1, e)[i] = s[a + 1 + i - 1]
      BY <1>3, <2>1, SubSeqProperties
    <2>3. e - (a + 1) + 1 = e - a /\ \A i \in Int : a + 1 + i - 1 = a + i
      BY <1>1
    <2> QED
      BY <1>1, <1>2, <2>2, <2>3
  <1>5. DOMAIN r = 1 .. Len(r)
    BY <1>4, LenProperties
  <1> QED
    BY <1>4, <1>5 DEF e, a, r

\* The code finds the group there is, and there is no other.
LEMMA OneGroup ==
    ASSUME NEW s \in Seq(Graph!Messages)
    PROVE  /\ Graph!LatestGroup(s) # Graph!Nothing =>
                /\ Graph!LatestGroup(s) = Whole(s)
                /\ Graph!IsGroup(s, First(s), End(s))
           /\ \A a, e \in 1 .. Len(s) : Graph!IsGroup(s, a, e) =>
                /\ a = First(s) /\ e = End(s)
                /\ Graph!LatestGroup(s) = Whole(s)
                /\ Graph!LatestGroup(s) # Graph!Nothing
  <1> DEFINE found == ~ \/ End(s) = 0 \/ First(s) = 0
                        \/ s[First(s)].type # "ai" \/ s[First(s)].calls = <<>>
  <1>1. Graph!LatestGroup(s) = IF found THEN Whole(s) ELSE Graph!Nothing
    BY DEF Graph!LatestGroup, Whole, Results, First, End
  <1>2. /\ End(s) \in 0 .. Len(s) /\ First(s) \in 0 .. End(s) /\ Len(s) \in Nat
        /\ First(s) = End(s) => End(s) = 0
        /\ \A i \in First(s) + 1 .. End(s) : s[i].type = "tool"
        /\ \A i \in End(s) + 1 .. Len(s) : s[i].type # "tool"
        /\ End(s) # 0 => s[End(s)].type = "tool"
        /\ First(s) # 0 => s[First(s)].type # "tool"
    BY GroupEnds, LenProperties
  <1>3. Whole(s) # Graph!Nothing
    <2>1. "ai" \in DOMAIN Whole(s) /\ DOMAIN Graph!Nothing = {}
      BY DEF Whole, Graph!Nothing
    <2> QED
      BY <2>1
  <1>4. found => Graph!IsGroup(s, First(s), End(s))
    BY <1>2 DEF Graph!IsGroup, Graph!IsTool
  <1>5. ASSUME NEW a \in 1 .. Len(s), NEW e \in 1 .. Len(s), Graph!IsGroup(s, a, e)
        PROVE  a = First(s) /\ e = End(s) /\ found
    <2>1. /\ a < e /\ s[a].type = "ai" /\ s[a].calls # <<>>
          /\ \A i \in a + 1 .. e : s[i].type = "tool"
          /\ \A i \in e + 1 .. Len(s) : s[i].type # "tool"
      BY <1>5 DEF Graph!IsGroup, Graph!IsTool
    <2> DEFINE y == End(s)
               x == First(s)
    <2>2. /\ y \in 0 .. Len(s) /\ x \in 0 .. y
          /\ x = y => y = 0
          /\ \A i \in x + 1 .. y : s[i].type = "tool"
          /\ \A i \in y + 1 .. Len(s) : s[i].type # "tool"
          /\ y # 0 => s[y].type = "tool"
          /\ x # 0 => s[x].type # "tool"
      BY <1>2
    <2> HIDE DEF x, y
    <2>3. s[e].type = "tool"
      BY <1>2, <2>1
    <2>4. e = y
      BY <1>2, <2>1, <2>2, <2>3
    <2>5. a = x
      <3>1. "ai" # "tool"
        OBVIOUS
      <3>2. ~ (a > x)
        BY <1>2, <2>1, <2>2, <2>4, <3>1
      <3>3. ~ (x > a)
        BY <1>2, <2>1, <2>2, <2>4
      <3> QED
        BY <1>2, <2>2, <3>2, <3>3
    <2> QED
      BY <1>2, <2>1, <2>4, <2>5 DEF x, y
  <1> HIDE DEF found
  <1> QED
    BY <1>1, <1>3, <1>4, <1>5

\* The code takes the results for the answers when they are.
LEMMA AssociatedAnswers ==
    ASSUME NEW s \in Seq(Graph!Messages), Graph!IsGroup(s, First(s), End(s)),
           First(s) # 0
    PROVE  Graph!Associated(s[First(s)].calls, Results(s))
             <=> Graph!Answers(s, First(s), End(s))
  <1> DEFINE e == End(s)
             a == First(s)
             r == Results(s)
             calls == s[a].calls
             ids == {r[i].answers : i \in DOMAIN r}
             given == {calls[i] : i \in DOMAIN calls}
  <1>1. /\ e \in 0 .. Len(s) /\ a \in 0 .. e /\ a # 0 /\ Len(s) \in Nat /\ a < e
        /\ calls # <<>>
    BY GroupEnds, LenProperties DEF Graph!IsGroup
  <1>2. /\ Len(r) = e - a /\ DOMAIN r = 1 .. e - a
        /\ \A i \in 1 .. e - a : r[i] = s[a + i]
    BY ResultsOfGroup
  <1>3. calls \in Seq(STRING) /\ Len(calls) \in Nat /\ DOMAIN calls = 1 .. Len(calls)
    <2>1. s[a] \in Graph!Messages
      BY <1>1, ElementOfSeq
    <2> QED
      BY <2>1, LenProperties DEF Graph!Messages
  <1>4. given # {}
    <2>1. Len(calls) # 0
      BY <1>1, <1>3, EmptySeq
    <2>2. 1 \in DOMAIN calls
      BY <1>3, <2>1
    <2>3. calls[1] \in given
      BY <2>2
    <2> QED
      BY <2>3
  <1> HIDE DEF e, a, r, calls
  <1>5. ids = {s[i].answers : i \in a + 1 .. e} /\ ids # {}
    <2>1. \A i \in a + 1 .. e : i - a \in 1 .. e - a /\ r[i - a] = s[i]
      <3>1. ASSUME NEW i \in a + 1 .. e
            PROVE  i - a \in 1 .. e - a /\ a + (i - a) = i
        BY <1>1
      <3> QED
        BY <1>2, <3>1
    <2>2. \A i \in 1 .. e - a : a + i \in a + 1 .. e
      BY <1>1
    <2>3. a + 1 \in a + 1 .. e
      BY <1>1
    <2>4. \A x : x \in ids <=> \E i \in a + 1 .. e : x = s[i].answers
      BY <1>2, <2>1, <2>2
    <2> QED
      BY <2>3, <2>4
  <1>6. Graph!Associated(calls, r) <=>
          /\ Graph!BadId \notin given \cup ids
          /\ \/ /\ Graph!NoId \notin given \cup ids
                /\ \A i, j \in DOMAIN calls : calls[i] = calls[j] => i = j
                /\ ids = given
             \/ given \cup ids = {Graph!NoId} /\ Len(calls) = e - a
    BY <1>2 DEF Graph!Associated, Graph!Range, Graph!IsInjective
  <1>7. Graph!Answers(s, a, e) <=>
          \/ /\ \A x \in ids : x \in given /\ x \notin {Graph!NoId, Graph!BadId}
             /\ \A x \in given : x \in ids
             /\ \A i, j \in DOMAIN calls : calls[i] = calls[j] => i = j
          \/ /\ \A x \in ids : x = Graph!NoId
             /\ \A x \in given : x = Graph!NoId
             /\ e - a = Len(calls)
    <2>1. /\ \A i \in a + 1 .. e : s[i].answers \in ids
          /\ \A x \in ids : \E i \in a + 1 .. e : x = s[i].answers
      BY <1>5
    <2>2. \A x : x \in given <=> \E c \in DOMAIN calls : x = calls[c]
      OBVIOUS
    <2>3. Graph!Answers(s, a, e) <=>
            \/ /\ \A i \in a + 1 .. e : \E c \in DOMAIN calls :
                      calls[c] = s[i].answers /\ calls[c] \notin {Graph!NoId, Graph!BadId}
               /\ \A c \in DOMAIN calls : \E i \in a + 1 .. e : s[i].answers = calls[c]
               /\ \A c, d \in DOMAIN calls : calls[c] = calls[d] => c = d
            \/ /\ \A i \in a + 1 .. e : s[i].answers = Graph!NoId
               /\ \A c \in DOMAIN calls : calls[c] = Graph!NoId
               /\ e - a = Len(calls)
      BY DEF Graph!Answers, calls
    <2> HIDE DEF ids, given
    <2>4. (\A i \in a + 1 .. e : \E c \in DOMAIN calls :
              calls[c] = s[i].answers /\ calls[c] \notin {Graph!NoId, Graph!BadId})
          <=> \A x \in ids : x \in given /\ x \notin {Graph!NoId, Graph!BadId}
      BY <2>1, <2>2
    <2>5. (\A c \in DOMAIN calls : \E i \in a + 1 .. e : s[i].answers = calls[c])
          <=> \A x \in given : x \in ids
      BY <2>1, <2>2
    <2>6. (\A i \in a + 1 .. e : s[i].answers = Graph!NoId)
          <=> \A x \in ids : x = Graph!NoId
      BY <2>1
    <2>7. (\A c \in DOMAIN calls : calls[c] = Graph!NoId)
          <=> \A x \in given : x = Graph!NoId
      BY <2>2
    <2> QED
      BY <2>3, <2>4, <2>5, <2>6, <2>7
  <1>8. Graph!NoId # Graph!BadId
    BY DEF Graph!NoId, Graph!BadId
  <1> HIDE DEF ids, given
  <1>9. Graph!Associated(calls, r) <=> Graph!Answers(s, a, e)
    BY <1>4, <1>5, <1>6, <1>7, <1>8
  <1> QED
    BY <1>9 DEF a, e, r, calls

\* What a node learns from any conversation is a whole group.
LEMMA LearningIsWhole ==
    ASSUME NEW s \in Seq(Graph!Messages)
    PROVE  Graph!LearnsWholeGroups(s)
  <1> DEFINE e == End(s)
             a == First(s)
             r == Results(s)
             before == SubSeq(s, 1, a - 1)
             human == Graph!LastHuman(before)
             contents == [i \in DOMAIN r |-> r[i].content]
             learned == Graph!Learned(s)
             filled == \/ Len(r) > 1
                       \/ \E i \in DOMAIN r : r[i].content # ""
             one == /\ Graph!LatestGroup(s) # Graph!Nothing
                    /\ Graph!Associated(s[a].calls, r)
                    /\ human # 0
                    /\ s[human].content # "" /\ filled
                    /\ ~ Graph!Blank(contents)
             lesson == [task |-> s[human].content, action |-> s[a].calls,
                        result |-> contents]
             Asked(x, h) == /\ h < x /\ Graph!IsHuman(s[h])
                            /\ \A i \in h + 1 .. x : ~ Graph!IsHuman(s[i])
  <1>1. /\ e \in 0 .. Len(s) /\ a \in 0 .. e /\ Len(s) \in Nat
        /\ DOMAIN s = 1 .. Len(s)
    BY GroupEnds, LenProperties
  <1>2. /\ Len(r) = e - a /\ DOMAIN r = 1 .. e - a
        /\ \A i \in 1 .. e - a : r[i] = s[a + i]
    BY ResultsOfGroup
  <1>3. ASSUME a # 0, s[a].type = "ai"
        PROVE  /\ human \in 0 .. a - 1
               /\ human # 0 => Asked(a, human)
               /\ \A h \in DOMAIN s : Asked(a, h) => h = human
    <2>1. \A i \in 1 .. a - 1 : s[i] \in Graph!Messages
      BY <1>1, ElementOfSeq
    <2>2. /\ before \in Seq(Graph!Messages) /\ Len(before) = a - 1
          /\ \A i \in 1 .. a - 1 : before[i] = s[i]
      <3> HIDE DEF a
      <3> QED
        BY <1>1, <1>3, <2>1, SubSeqProperties
    <2> HIDE DEF before
    <2>3. /\ human \in 0 .. a - 1
          /\ human # 0 => before[human].type = "human"
          /\ \A i \in 1 .. a - 1 : before[i].type = "human" => i <= human
      BY <2>2, LastHumanFound
    <2> HIDE DEF human, a
    <2>4. /\ human # 0 => s[human].type = "human"
          /\ \A i \in 1 .. a - 1 : s[i].type = "human" => i <= human
      BY <1>1, <2>2, <2>3
    <2>5. human # 0 => Asked(a, human)
      <3>1. ASSUME human # 0, NEW i \in human + 1 .. a
            PROVE  s[i].type # "human"
        <4>1. CASE i = a
          BY <4>1, <1>3
        <4>2. CASE i # a
          BY <4>2, <1>1, <2>3, <2>4, <3>1
        <4> QED
          BY <4>1, <4>2
      <3> QED
        BY <1>1, <2>3, <2>4, <3>1 DEF Graph!IsHuman
    <2>6. ASSUME NEW h \in DOMAIN s, Asked(a, h)
          PROVE  h = human
      <3>1. h \in 1 .. a - 1 /\ s[h].type = "human"
        BY <1>1, <2>6 DEF Graph!IsHuman
      <3>2. h <= human /\ human # 0
        BY <1>1, <2>3, <2>4, <3>1
      <3>3. ~ (h < human)
        BY <1>1, <2>3, <2>4, <2>6, <3>1, <3>2 DEF Graph!IsHuman
      <3> QED
        BY <1>1, <2>3, <3>1, <3>2, <3>3
    <2> QED
      BY <2>3, <2>5, <2>6
  <1>4. learned = IF one THEN lesson ELSE Graph!Nothing
    <2>1. lesson # Graph!Nothing
      <3>1. "task" \in DOMAIN lesson /\ DOMAIN Graph!Nothing = {}
        BY DEF Graph!Nothing
      <3> QED
        BY <3>1
    <2>2. CASE Graph!LatestGroup(s) = Graph!Nothing
      BY <2>2 DEF Graph!Learned, Graph!Extracted
    <2>3. CASE Graph!LatestGroup(s) # Graph!Nothing
      <3>1. /\ Graph!LatestGroup(s) = Whole(s)
            /\ Whole(s).ai = a /\ Whole(s).calls = s[a].calls /\ Whole(s).results = r
        BY <2>3, OneGroup DEF Whole
      <3>2. Graph!Extracted(s) =
              IF /\ Graph!Associated(s[a].calls, r) /\ human # 0
                 /\ s[human].content # "" /\ filled
              THEN lesson ELSE Graph!Nothing
        <4> HIDE DEF a, r
        <4> QED
          BY <2>3, <3>1 DEF Graph!Extracted
      <3>3. lesson.result = contents
        OBVIOUS
      <3> HIDE DEF lesson, filled, human, a, r, contents
      <3> QED
        BY <2>1, <2>3, <3>2, <3>3 DEF Graph!Learned
    <2> QED
      BY <2>2, <2>3
  <1>5. CASE one
    <2>1. /\ Graph!IsGroup(s, a, e) /\ a # 0 /\ s[a].type = "ai"
          /\ a \in 1 .. Len(s) /\ e \in 1 .. Len(s)
      <3>1. Graph!IsGroup(s, a, e) /\ Graph!LatestGroup(s) = Whole(s)
        BY <1>5, OneGroup
      <3>2. a # 0
        BY <1>5, <3>1 DEF Graph!LatestGroup, First, End
      <3>3. a < e /\ s[a].type = "ai"
        BY <3>1 DEF Graph!IsGroup
      <3> HIDE DEF a, e, one
      <3>4. a \in 1 .. Len(s) /\ e \in 1 .. Len(s)
        BY <1>1, <3>2, <3>3
      <3> QED
        BY <3>1, <3>2, <3>3, <3>4
    <2>2. Graph!Answers(s, a, e)
      BY <1>5, <2>1, AssociatedAnswers
    <2>3. human \in DOMAIN s /\ Asked(a, human)
      <3>1. human \in 0 .. a - 1 /\ human # 0 /\ Asked(a, human)
        BY <1>3, <1>5, <2>1
      <3> HIDE DEF human, a, e, Asked
      <3>2. human \in DOMAIN s
        BY <1>1, <3>1
      <3> QED
        BY <3>1, <3>2
    <2>4. contents = [i \in 1 .. e - a |-> s[a + i].content]
      BY <1>2
    <2>5. learned = lesson /\ learned # Graph!Nothing
      <3>1. "task" \in DOMAIN lesson /\ DOMAIN Graph!Nothing = {}
        BY DEF Graph!Nothing
      <3> QED
        BY <1>4, <1>5, <3>1
    <2>6. /\ learned.task = s[human].content
          /\ learned.action = s[a].calls
          /\ learned.result = contents
      BY <2>5
    <2> DEFINE g == <<a, e>>
    <2>7. /\ g \in (1 .. Len(s)) \X (1 .. Len(s))
          /\ g[1] = a /\ g[2] = e
      BY <2>1
    <2> HIDE DEF a, e, human, learned, contents, lesson, one, g
    <2>8. \E gg \in {x \in (1 .. Len(s)) \X (1 .. Len(s)) :
                        Graph!IsGroup(s, x[1], x[2]) /\ Graph!Answers(s, x[1], x[2])},
             h \in DOMAIN s :
            /\ Asked(gg[1], h)
            /\ learned.task = s[h].content
            /\ learned.action = s[gg[1]].calls
            /\ learned.result = [i \in 1 .. gg[2] - gg[1] |-> s[gg[1] + i].content]
      <3>1. g \in {x \in (1 .. Len(s)) \X (1 .. Len(s)) :
                     Graph!IsGroup(s, x[1], x[2]) /\ Graph!Answers(s, x[1], x[2])}
        BY <2>1, <2>2, <2>7
      <3>2. /\ Asked(g[1], human)
            /\ learned.task = s[human].content
            /\ learned.action = s[g[1]].calls
            /\ learned.result = [i \in 1 .. g[2] - g[1] |-> s[g[1] + i].content]
        BY <2>3, <2>4, <2>6, <2>7
      <3> QED
        BY <2>3, <3>1, <3>2
    <2> QED
      BY <2>5, <2>8 DEF Graph!LearnsWholeGroups, learned
  <1>6. CASE ~ one
    <2>1. learned = Graph!Nothing
      BY <1>4, <1>6
    <2>2. ASSUME NEW x \in 1 .. Len(s), NEW y \in 1 .. Len(s),
                 Graph!IsGroup(s, x, y), Graph!Answers(s, x, y)
          PROVE  \/ \A i \in x + 1 .. y : s[i].content = ""
                 \/ \A h \in DOMAIN s : Asked(x, h) => s[h].content = ""
      <3>1. x = a /\ y = e /\ Graph!LatestGroup(s) # Graph!Nothing
        BY <2>2, OneGroup
      <3>2. a # 0 /\ s[a].type = "ai" /\ a < e
        BY <1>1, <2>2, <3>1 DEF Graph!IsGroup
      <3>3. Graph!Associated(s[a].calls, r)
        BY <2>2, <3>1, <3>2, AssociatedAnswers
      <3>4. \/ human = 0 \/ s[human].content = "" \/ ~ filled \/ Graph!Blank(contents)
        BY <1>6, <3>1, <3>3
      <3>5. CASE human = 0 \/ s[human].content = ""
        <4>1. \A h \in DOMAIN s : Asked(a, h) => h = human /\ human # 0
          BY <1>1, <1>3, <3>2
        <4> QED
          BY <3>1, <3>5, <4>1
      <3>6. CASE ~ filled \/ Graph!Blank(contents)
        <4>1. \A i \in DOMAIN r : r[i].content = ""
          BY <3>6 DEF Graph!Blank
        <4>2. \A i \in a + 1 .. e : i - a \in 1 .. e - a /\ a + (i - a) = i
          BY <1>1
        <4> HIDE DEF a, e, r
        <4>3. ASSUME NEW i \in a + 1 .. e
              PROVE  s[i].content = ""
          <5>1. i - a \in DOMAIN r /\ r[i - a] = s[i]
            BY <1>2, <4>2
          <5> QED
            BY <4>1, <5>1
        <4> QED
          BY <3>1, <4>3
      <3> QED
        BY <3>4, <3>5, <3>6
    <2> HIDE DEF learned, one, a, e, human
    <2> QED
      BY <2>1, <2>2 DEF Graph!LearnsWholeGroups, learned
  <1> QED
    BY <1>5, <1>6

\* What the learning node records is a complete group: the answers that stand
\* right after the message they are attributed to, all of them, under the
\* question last asked before (default_messages_state_extractor,
\* ExperiaLearningNode).
THEOREM LearnedGroupsAreWhole == Spec => []GroupsAreWhole
  <1>1. InUse => GroupsAreWhole
    BY ConversationsOfMessages, LearningIsWhole DEF GroupsAreWhole, InUse
  <1> QED
    BY <1>1, UsedAlways, PTL

-----------------------------------------------------------------------------
\* The gate lets no path go in silence.
LEMMA NoSilentRemoval ==
    ASSUME NEW old, NEW new, NEW R, NEW guide \in Seq(R),
           Gate!IsSnapshot(old), Gate!IsSnapshot(new), Gate!DeprecationIssues(old) = {},
           Gate!SnapshotIssues(old, new) = {}, Gate!GuideAccepts(old, new, guide),
           NEW p \in Gate!Paths(old), Gate!Missing(old, new, p)
    PROVE  LET node == old.nodes[p]
               since == node.deprecation.since
           IN /\ old.version.major < new.version.major
              /\ \/ node.shape = Gate!EnumValue
                 \/ Gate!Missing(old, new, node.parent)
                 \/ \E i \in DOMAIN guide :
                       /\ guide[i].path = p
                       /\ node.deprecation.deprecated =>
                            /\ guide[i].replacement = node.deprecation.replacement
                            /\ \/ since.major < old.version.major
                               \/ since.minor + 2 <= old.version.minor
  <1> DEFINE node == old.nodes[p]
             d == node.deprecation
             major(v) == v.version.major
  <1>1. /\ major(old) \in Nat /\ old.version.minor \in Nat
        /\ major(new) \in Nat /\ new.version.minor \in Nat
        /\ node.parent \in Gate!Paths(old) \cup {Gate!None}
        /\ d.since.major \in Nat /\ d.since.minor \in Nat
    BY DEF Gate!IsSnapshot, Gate!Versions
  <1>2. p \in Gate!Paths(old) \ Gate!Paths(new)
    BY DEF Gate!Missing
  <1>3. major(old) < major(new)
    <2>1. CASE major(old) = major(new)
      <3>1. Gate!SameMajorIssues(old, new) = {}
        BY <2>1 DEF Gate!SnapshotIssues
      <3>2. <<"removed", p>> \in Gate!SameMajorIssues(old, new)
        BY <1>2 DEF Gate!SameMajorIssues
      <3> QED
        BY <3>1, <3>2
    <2>2. CASE major(new) < major(old)
      <3>1. Gate!Precedes(new.version, old.version)
        BY <2>2 DEF Gate!Precedes
      <3> QED
        BY <3>1 DEF Gate!SnapshotIssues
    <2> QED
      BY <1>1, <2>1, <2>2
  <1>4. CASE node.parent \notin Gate!Paths(new) \cup {Gate!None}
    BY <1>1, <1>3, <1>4 DEF Gate!Missing
  <1>5. CASE node.parent \in Gate!Paths(new) \cup {Gate!None} /\ node.shape # Gate!EnumValue
    <2>0. p \in Gate!Listed(old) \ Gate!Listed(new)
      BY <1>2, <1>5 DEF Gate!Listed
    <2>1. p \in Gate!Removed(old, new)
      BY <1>5, <2>0 DEF Gate!Removed
    <2>2. /\ Gate!Guided(guide, p) # Gate!None
          /\ Gate!Recorded(old, p) \in {Gate!None, Gate!Guided(guide, p)}
      BY <1>1, <1>3, <2>1 DEF Gate!GuideAccepts
    <2>3. PICK i \in DOMAIN guide :
             guide[i].path = p /\ guide[i].replacement = Gate!Guided(guide, p)
      <3> DEFINE at == {k \in DOMAIN guide : guide[k].path = p}
                 l == CHOOSE k \in at : \A j \in at : j <= k
      <3>1. at # {} /\ Gate!Guided(guide, p) = guide[l].replacement
        BY <2>2 DEF Gate!Guided
      <3>2. at \in SUBSET (1 .. Len(guide)) /\ Len(guide) \in Nat
        BY LenProperties
      <3>3. \E k \in at : \A j \in at : j <= k
        <4> DEFINE m == CHOOSE k \in at \cup {0} : \A j \in at : j <= k
        <4>1. m \in at \cup {0} /\ \A j \in at : j <= m
          <5> HIDE DEF at, m
          <5> QED
            BY <3>2, LastPosition DEF m
        <4> HIDE DEF at, m
        <4>2. PICK k \in at : k \in 1 .. Len(guide) /\ k <= m
          BY <3>1, <3>2, <4>1
        <4>3. m # 0
          BY <3>2, <4>2
        <4> QED
          BY <4>1, <4>3
      <3>4. l \in at
        BY <3>3, Zenon
      <3> QED
        BY <3>1, <3>4
    <2>4. ASSUME d.deprecated
          PROVE  /\ guide[i].replacement = d.replacement
                 /\ \/ d.since.major < major(old)
                    \/ d.since.minor + 2 <= old.version.minor
      <3>1. d.replacement # Gate!None
        BY <2>0, <2>4 DEF Gate!DeprecationIssues
      <3>2. guide[i].replacement = d.replacement
        BY <2>2, <2>3, <2>4, <3>1 DEF Gate!Recorded
      <3>3. Gate!EarlyRemovals(old, new) = {}
        BY <1>1, <1>3 DEF Gate!SnapshotIssues
      <3>4. Gate!WindowElapsed(d.since, old.version)
        BY <1>5, <2>0, <2>4, <3>3 DEF Gate!EarlyRemovals
      <3>5. /\ ~ (major(old) < d.since.major)
            /\ \/ major(old) > d.since.major
               \/ old.version.minor - d.since.minor >= 2
        BY <3>4, Zenon DEF Gate!WindowElapsed, Gate!Precedes, Gate!MINOR_DEPRECATION_RELEASES
      <3> HIDE DEF d
      <3>6. d.since.major < major(old) \/ d.since.minor + 2 <= old.version.minor
        BY <1>1, <3>5
      <3> QED
        BY <3>2, <3>6
    <2> QED
      BY <1>3, <2>3, <2>4
  <1> QED
    BY <1>3, <1>4, <1>5

\* A path of the public API goes under a greater major version only, and, but for
\* the values of enums, with its export or with a guide that names the
\* replacement it announced two minor releases before (compare_snapshots, validate_breaking_change_migration_guide).
THEOREM RemovalsAreAnnounced == Spec => []RemovalsAnnounced
  <1>1. ASSUME NEW x \in Releases
        PROVE  Gate!RemovalsAreAnnounced(x.old, x.new, x.guide)
    BY ReleasesOfSnapshots, NoSilentRemoval
    DEF ReleasesOfSnapshots, Gate!RemovalsAreAnnounced
  <1>2. InUse => RemovalsAnnounced
    BY <1>1 DEF RemovalsAnnounced, InUse
  <1> QED
    BY <1>2, UsedAlways, PTL

-----------------------------------------------------------------------------
\* A set of numbers has a least one.
LEMMA LeastNumber ==
    ASSUME NEW T \in SUBSET Nat, T # {}
    PROVE  \E m \in T : \A k \in T : m <= k
  <1>1. PICK m \in T : \A k \in T : ~ (<<k, m>> \in OpToRel(<, Nat))
    BY NatLessThanWellFounded, WFMin, Zenon
  <1>2. \A k \in T : ~ (k < m)
    BY <1>1 DEF OpToRel
  <1> QED
    BY <1>2

\* What is true of 0, and with a number of the next one, is true up to n.
LEMMA UpToN ==
    ASSUME NEW n \in Nat, NEW A \in SUBSET (0 .. n), 0 \in A,
           \A i \in A : i < n => i + 1 \in A
    PROVE  A = 0 .. n
  <1> SUFFICES ASSUME A # 0 .. n PROVE FALSE
    OBVIOUS
  <1>1. PICK m \in (0 .. n) \ A : \A k \in (0 .. n) \ A : m <= k
    <2>1. \E i \in 0 .. n : i \notin A
      OBVIOUS
    <2>2. (0 .. n) \ A \in SUBSET Nat /\ (0 .. n) \ A # {}
      BY <2>1
    <2> QED
      BY <2>2, LeastNumber
  <1>2. m - 1 \in A /\ m - 1 < n
    BY <1>1
  <1> QED
    BY <1>1, <1>2

\* The parts select and sort alike.
LEMMA EngineSorted == ASSUME NEW S, NEW R PROVE Engine!Sorted(S, R) = Sorted(S, R)
  BY DEF Engine!Sorted, Sorted, Engine!Cardinality, Cardinality

\* R orders S, and no two members are equal in it.
Orders(R, S) ==
    /\ \A x \in S : <<x, x>> \notin R
    /\ \A x, y \in S : x # y => <<x, y>> \in R \/ <<y, x>> \in R
    /\ \A x, y, z \in S : <<x, y>> \in R /\ <<y, z>> \in R => <<x, z>> \in R
Ahead(S, R, x) == {y \in S : <<y, x>> \in R}

\* Who comes first has fewer ahead.
LEMMA AheadCounts ==
    ASSUME NEW S, IsFiniteSet(S), NEW R, Orders(R, S)
    PROVE  /\ \A x \in S : Cardinality(Ahead(S, R, x)) \in 0 .. Cardinality(S) - 1
           /\ \A x, y \in S : <<x, y>> \in R <=>
                 Cardinality(Ahead(S, R, x)) < Cardinality(Ahead(S, R, y))
  <1>1. ASSUME NEW x \in S
        PROVE  /\ IsFiniteSet(Ahead(S, R, x))
               /\ Cardinality(Ahead(S, R, x)) \in 0 .. Cardinality(S) - 1
    <2>1. Ahead(S, R, x) \in SUBSET (S \ {x})
      BY DEF Ahead, Orders
    <2>2. IsFiniteSet(S \ {x}) /\ Cardinality(S \ {x}) = Cardinality(S) - 1
      BY FS_RemoveElement
    <2>3. /\ IsFiniteSet(Ahead(S, R, x)) /\ Cardinality(Ahead(S, R, x)) \in Nat
          /\ Cardinality(Ahead(S, R, x)) <= Cardinality(S) - 1
      BY <2>1, <2>2, FS_Subset, FS_CardinalityType
    <2>4. Cardinality(S) \in Nat
      BY FS_CardinalityType
    <2> QED
      BY <2>3, <2>4
  <1>2. ASSUME NEW x \in S, NEW y \in S, <<x, y>> \in R
        PROVE  Cardinality(Ahead(S, R, x)) < Cardinality(Ahead(S, R, y))
    <2>1. Ahead(S, R, x) \in SUBSET (Ahead(S, R, y) \ {x})
      BY <1>2, Zenon DEF Ahead, Orders
    <2>2. x \in Ahead(S, R, y)
      BY <1>2 DEF Ahead
    <2>3. /\ IsFiniteSet(Ahead(S, R, y) \ {x})
          /\ Cardinality(Ahead(S, R, y) \ {x}) = Cardinality(Ahead(S, R, y)) - 1
      BY <1>1, <2>2, FS_RemoveElement
    <2>4. Cardinality(Ahead(S, R, x)) <= Cardinality(Ahead(S, R, y)) - 1
      BY <2>1, <2>3, FS_Subset
    <2>5. /\ Cardinality(Ahead(S, R, x)) \in Nat /\ Cardinality(Ahead(S, R, y)) \in Nat
      BY <1>1, FS_CardinalityType
    <2> QED
      BY <2>4, <2>5
  <1>3. ASSUME NEW x \in S, NEW y \in S, <<x, y>> \notin R
        PROVE  ~ (Cardinality(Ahead(S, R, x)) < Cardinality(Ahead(S, R, y)))
    <2>1. x = y \/ <<y, x>> \in R
      BY <1>3 DEF Orders
    <2>2. /\ Cardinality(Ahead(S, R, x)) \in Nat /\ Cardinality(Ahead(S, R, y)) \in Nat
      BY <1>1, FS_CardinalityType
    <2> QED
      BY <1>2, <2>1, <2>2
  <1> QED
    BY <1>1, <1>2, <1>3

\* There is one member for each place.
LEMMA EachPlace ==
    ASSUME NEW S, IsFiniteSet(S), NEW R, Orders(R, S), NEW k \in 1 .. Cardinality(S)
    PROVE  \E x \in S : Cardinality(Ahead(S, R, x)) = k - 1
  <1> DEFINE n == Cardinality(S)
             T == 0 .. n - 1
             f == [x \in S |-> Cardinality(Ahead(S, R, x))]
  <1>1. n \in Nat /\ IsFiniteSet(T) /\ Cardinality(T) = n
    <2>1. n \in Nat
      BY FS_CardinalityType
    <2> HIDE DEF n
    <2>2. 0 \in Int /\ n - 1 \in Int
      BY <2>1
    <2>3. IsFiniteSet(T) /\ Cardinality(T) = IF 0 > n - 1 THEN 0 ELSE n - 1 - 0 + 1
      BY <2>2, FS_Interval
    <2> QED
      BY <2>1, <2>3
  <1>2. \A x \in S : f[x] \in T
    BY AheadCounts
  <1>3. \A x, y \in S : f[x] = f[y] => x = y
    <2> SUFFICES ASSUME NEW x \in S, NEW y \in S, f[x] = f[y], x # y PROVE FALSE
      OBVIOUS
    <2>1. <<x, y>> \in R \/ <<y, x>> \in R
      BY DEF Orders
    <2>2. f[x] < f[y] \/ f[y] < f[x]
      BY <2>1, AheadCounts
    <2> HIDE DEF f
    <2> QED
      BY <1>1, <1>2, <2>2
  <1>4. f \in Injection(S, T)
    BY <1>2, <1>3 DEF Injection, IsInjective
  <1>5. f \in Surjection(S, T)
    <2> HIDE DEF f, T, n
    <2> QED
      BY <1>1, <1>4, FS_Injection DEF n
  <1>6. k - 1 \in T
    BY <1>1
  <1>7. \E x \in S : f[x] = k - 1
    BY <1>5, <1>6 DEF Surjection
  <1> QED
    BY <1>7

\* Sorting puts each member in the place of its order.
LEMMA SortedPlaces ==
    ASSUME NEW S, IsFiniteSet(S), NEW R, Orders(R, S)
    PROVE  /\ Cardinality(S) \in Nat
           /\ Sorted(S, R) \in Seq(S) /\ DOMAIN Sorted(S, R) = 1 .. Cardinality(S)
           /\ Len(Sorted(S, R)) = Cardinality(S)
           /\ \A k \in 1 .. Cardinality(S) :
                 /\ Sorted(S, R)[k] \in S
                 /\ Cardinality(Ahead(S, R, Sorted(S, R)[k])) = k - 1
           /\ \A i, j \in 1 .. Cardinality(S) :
                 i < j <=> <<Sorted(S, R)[i], Sorted(S, R)[j]>> \in R
           /\ \A x \in S : /\ Cardinality(Ahead(S, R, x)) + 1 \in 1 .. Cardinality(S)
                           /\ Sorted(S, R)[Cardinality(Ahead(S, R, x)) + 1] = x
  <1> DEFINE n == Cardinality(S)
             s == Sorted(S, R)
             C(x) == Cardinality(Ahead(S, R, x))
  <1>1. n \in Nat
    BY FS_CardinalityType
  <1>2. ASSUME NEW k \in 1 .. n
        PROVE  s[k] \in S /\ C(s[k]) = k - 1
    <2>1. \E x \in S : C(x) = k - 1
      BY EachPlace
    <2>2. s[k] = CHOOSE x \in S : C(x) = k - 1
      BY DEF Sorted, Ahead
    <2> HIDE DEF s, C
    <2> QED
      BY <2>1, <2>2
  <1>3. s = [k \in 1 .. n |-> s[k]]
    <2> DEFINE T(k) == CHOOSE x \in S : C(x) = k - 1
    <2>1. s = [k \in 1 .. n |-> T(k)]
      BY DEF Sorted, Ahead
    <2> HIDE DEF s, T, n
    <2> QED
      BY <2>1
  <1>4. \A x, y \in S : <<x, y>> \in R <=> C(x) < C(y)
    BY AheadCounts
  <1>5. \A x \in S : C(x) \in 0 .. n - 1
    BY AheadCounts
  <1>6. \A x, y \in S : C(x) = C(y) => x = y
    <2> HIDE DEF C
    <2>1. \A x, y \in S : x # y => C(x) < C(y) \/ C(y) < C(x)
      BY <1>4, Zenon DEF Orders
    <2> QED
      BY <1>5, <1>1, <2>1
  <1> HIDE DEF s, C, n
  <1>7. s \in Seq(S) /\ DOMAIN s = 1 .. n /\ Len(s) = n
    BY <1>1, <1>2, <1>3
  <1>8. \A i, j \in 1 .. n : i < j <=> <<s[i], s[j]>> \in R
    BY <1>1, <1>2, <1>4
  <1>9. \A x \in S : C(x) + 1 \in 1 .. n /\ s[C(x) + 1] = x
    BY <1>1, <1>2, <1>5, <1>6
  <1> QED
    BY <1>1, <1>2, <1>7, <1>8, <1>9 DEF s, C, n

\* p lists the positions S in order, and the selection of s has what is there.
Lists(s, S, p) ==
    /\ Cardinality(S) \in Nat
    /\ InOrder(s, S) = [k \in 1 .. Cardinality(S) |-> s[p[k]]]
    /\ \A k \in 1 .. Cardinality(S) : p[k] \in S /\ Cardinality({i \in S : i < p[k]}) = k - 1
    /\ \A i, j \in 1 .. Cardinality(S) : i < j <=> p[i] < p[j]
    /\ \A i \in S : \E k \in 1 .. Cardinality(S) : p[k] = i

\* Every bounded set of positions has such a list, and InOrder is made from it.
LEMMA InOrderLists ==
    ASSUME NEW n \in Nat, NEW S \in SUBSET (1 .. n), NEW s
    PROVE  \E p : Lists(s, S, p)
  <1> DEFINE R == {p \in S \X S : p[1] < p[2]}
             p == Sorted(S, R)
             c == Cardinality(S)
  <1>1. IsFiniteSet(S)
    <2>1. IsFiniteSet(1 .. n)
      BY FS_Interval
    <2> HIDE DEF R, p, c
    <2> QED
      BY <2>1, FS_Subset
  <1>2. \A i, j \in S : <<i, j>> \in R <=> i < j
    OBVIOUS
  <1>3. Orders(R, S)
    <2> HIDE DEF R
    <2> QED
      BY <1>2 DEF Orders
  <1>4. /\ c \in Nat /\ p \in Seq(S) /\ DOMAIN p = 1 .. c /\ Len(p) = c
        /\ \A k \in 1 .. c : p[k] \in S /\ Cardinality(Ahead(S, R, p[k])) = k - 1
        /\ \A i, j \in 1 .. c : i < j <=> <<p[i], p[j]>> \in R
        /\ \A x \in S : \E k \in 1 .. c : p[k] = x
    <2> HIDE DEF R
    <2>1. /\ c \in Nat /\ p \in Seq(S) /\ DOMAIN p = 1 .. c /\ Len(p) = c
          /\ \A k \in 1 .. c : p[k] \in S /\ Cardinality(Ahead(S, R, p[k])) = k - 1
          /\ \A i, j \in 1 .. c : i < j <=> <<p[i], p[j]>> \in R
          /\ \A x \in S : /\ Cardinality(Ahead(S, R, x)) + 1 \in 1 .. c
                          /\ p[Cardinality(Ahead(S, R, x)) + 1] = x
      BY <1>1, <1>3, SortedPlaces
    <2> HIDE DEF p, c
    <2> QED
      BY <2>1
  <1>5. InOrder(s, S) = [k \in 1 .. c |-> s[p[k]]]
    BY <1>4 DEF InOrder
  <1> HIDE DEF p, R, c
  <1>6. \A k \in 1 .. c : p[k] \in S
    BY <1>4
  <1>7. \A k \in 1 .. c : Ahead(S, R, p[k]) = {i \in S : i < p[k]}
    BY <1>2, <1>6 DEF Ahead
  <1>8. \A i, j \in 1 .. c : i < j <=> p[i] < p[j]
    BY <1>2, <1>4, <1>6
  <1> QED
    BY <1>4, <1>5, <1>6, <1>7, <1>8, Zenon DEF c, Lists

\* The elements at 1 .. n in order are the first n.
LEMMA OrderOfInterval ==
    ASSUME NEW n \in Nat, NEW s
    PROVE  InOrder(s, 1 .. n) = [k \in 1 .. n |-> s[k]]
  <1>1. Cardinality(1 .. n) = n
    BY FS_Interval
  <1>2. PICK p : Lists(s, 1 .. n, p)
    BY InOrderLists
  <1>3. /\ InOrder(s, 1 .. n) = [k \in 1 .. n |-> s[p[k]]]
        /\ \A k \in 1 .. n : p[k] \in 1 .. n
        /\ \A k \in 1 .. n : Cardinality({i \in 1 .. n : i < p[k]}) = k - 1
    BY <1>1, <1>2, Zenon DEF Lists
  <1>4. ASSUME NEW k \in 1 .. n
        PROVE  p[k] = k
    <2>1. p[k] \in 1 .. n /\ p[k] - 1 \in Nat
      BY <1>3
    <2>2. {i \in 1 .. n : i < p[k]} = 1 .. p[k] - 1
      BY <2>1
    <2>3. Cardinality(1 .. p[k] - 1) = p[k] - 1
      BY <2>1, FS_Interval
    <2>4. Cardinality({i \in 1 .. n : i < p[k]}) = k - 1
      BY <1>3
    <2>5. p[k] - 1 = k - 1
      BY <2>2, <2>3, <2>4, Zenon
    <2> QED
      BY <2>1, <2>5
  <1>5. [k \in 1 .. n |-> s[p[k]]] = [k \in 1 .. n |-> s[k]]
    BY <1>4
  <1> QED
    BY <1>3, <1>5, Zenon
-----------------------------------------------------------------------------
\* Rank keys are compared like Python's tuples.
LEMMA AboveOfFive ==
    ASSUME NEW j, NEW k, DOMAIN j = 1 .. 5
    PROVE  Engine!Above(j, k) <=>
              \/ j[1] > k[1]
              \/ j[1] = k[1] /\ j[2] > k[2]
              \/ j[1] = k[1] /\ j[2] = k[2] /\ j[3] > k[3]
              \/ j[1] = k[1] /\ j[2] = k[2] /\ j[3] = k[3] /\ j[4] > k[4]
              \/ j[1] = k[1] /\ j[2] = k[2] /\ j[3] = k[3] /\ j[4] = k[4] /\ j[5] > k[5]
  <1>1. Engine!Above(j, k) <=> \E i \in 1 .. 5 : j[i] > k[i] /\ \A h \in 1 .. i - 1 : j[h] = k[h]
    BY DEF Engine!Above
  <1>2. /\ \A h \in 1 .. 1 - 1 : j[h] = k[h]
        /\ (\A h \in 1 .. 2 - 1 : j[h] = k[h]) <=> j[1] = k[1]
        /\ (\A h \in 1 .. 3 - 1 : j[h] = k[h]) <=> j[1] = k[1] /\ j[2] = k[2]
        /\ (\A h \in 1 .. 4 - 1 : j[h] = k[h]) <=> j[1] = k[1] /\ j[2] = k[2] /\ j[3] = k[3]
        /\ (\A h \in 1 .. 5 - 1 : j[h] = k[h]) <=> j[1] = k[1] /\ j[2] = k[2] /\ j[3] = k[3] /\ j[4] = k[4]
    OBVIOUS
  <1>3. \A i : i \in 1 .. 5 <=> i = 1 \/ i = 2 \/ i = 3 \/ i = 4 \/ i = 5
    OBVIOUS
  <1>4. Engine!Above(j, k) <=>
            \/ j[1] > k[1] /\ \A h \in 1 .. 1 - 1 : j[h] = k[h]
            \/ j[2] > k[2] /\ \A h \in 1 .. 2 - 1 : j[h] = k[h]
            \/ j[3] > k[3] /\ \A h \in 1 .. 3 - 1 : j[h] = k[h]
            \/ j[4] > k[4] /\ \A h \in 1 .. 4 - 1 : j[h] = k[h]
            \/ j[5] > k[5] /\ \A h \in 1 .. 5 - 1 : j[h] = k[h]
    BY <1>1, <1>3, Zenon
  <1> QED
    BY <1>2, <1>4

\* Likewise the columns of the ORDER BY.
LEMMA AboveOfFour ==
    ASSUME NEW j, NEW k, DOMAIN j = 1 .. 4
    PROVE  Engine!Above(j, k) <=>
              \/ j[1] > k[1]
              \/ j[1] = k[1] /\ j[2] > k[2]
              \/ j[1] = k[1] /\ j[2] = k[2] /\ j[3] > k[3]
              \/ j[1] = k[1] /\ j[2] = k[2] /\ j[3] = k[3] /\ j[4] > k[4]
  <1>1. Engine!Above(j, k) <=> \E i \in 1 .. 4 : j[i] > k[i] /\ \A h \in 1 .. i - 1 : j[h] = k[h]
    BY DEF Engine!Above
  <1>2. /\ \A h \in 1 .. 1 - 1 : j[h] = k[h]
        /\ (\A h \in 1 .. 2 - 1 : j[h] = k[h]) <=> j[1] = k[1]
        /\ (\A h \in 1 .. 3 - 1 : j[h] = k[h]) <=> j[1] = k[1] /\ j[2] = k[2]
        /\ (\A h \in 1 .. 4 - 1 : j[h] = k[h]) <=> j[1] = k[1] /\ j[2] = k[2] /\ j[3] = k[3]
    OBVIOUS
  <1>3. \A i : i \in 1 .. 4 <=> i = 1 \/ i = 2 \/ i = 3 \/ i = 4
    OBVIOUS
  <1>4. Engine!Above(j, k) <=>
            \/ j[1] > k[1] /\ \A h \in 1 .. 1 - 1 : j[h] = k[h]
            \/ j[2] > k[2] /\ \A h \in 1 .. 2 - 1 : j[h] = k[h]
            \/ j[3] > k[3] /\ \A h \in 1 .. 3 - 1 : j[h] = k[h]
            \/ j[4] > k[4] /\ \A h \in 1 .. 4 - 1 : j[h] = k[h]
    BY <1>1, <1>3, Zenon
  <1> QED
    BY <1>2, <1>4

\* One memory beats another, and no chain of them comes back.
LEMMA BeatsOrders ==
    ASSUME NEW q
    PROVE  /\ \A m \in Engine!Rows : ~ Engine!Beats(m, m, q)
           /\ \A m, n \in Engine!Rows : m.id # n.id => Engine!Beats(m, n, q) \/ Engine!Beats(n, m, q)
           /\ \A m, n, l \in Engine!Rows :
                 Engine!Beats(m, n, q) /\ Engine!Beats(n, l, q) => Engine!Beats(m, l, q)
  <1> DEFINE S(m) == Engine!Score(m, q)
  <1>1. \A m \in Engine!Rows :
            /\ S(m) \in Int /\ m.importance \in Int /\ m.confidence \in Int
            /\ m.created \in Int /\ - m.id \in Int /\ m.id \in Int
    BY DEF Engine!Score, Engine!Rows
  <1> HIDE DEF S
  <1>2. ASSUME NEW m \in Engine!Rows, NEW n \in Engine!Rows
        PROVE  Engine!Beats(m, n, q) <=>
                  \/ S(m) > S(n)
                  \/ S(m) = S(n) /\ m.importance > n.importance
                  \/ S(m) = S(n) /\ m.importance = n.importance /\ m.confidence > n.confidence
                  \/ /\ S(m) = S(n) /\ m.importance = n.importance /\ m.confidence = n.confidence
                     /\ m.created > n.created
                  \/ /\ S(m) = S(n) /\ m.importance = n.importance /\ m.confidence = n.confidence
                     /\ m.created = n.created /\ - m.id > - n.id
    <2> DEFINE j == Engine!RankKey(m, q)
               k == Engine!RankKey(n, q)
    <2>1. /\ DOMAIN j = 1 .. 5
          /\ j[1] = S(m) /\ j[2] = m.importance /\ j[3] = m.confidence
          /\ j[4] = m.created /\ j[5] = - m.id
          /\ k[1] = S(n) /\ k[2] = n.importance /\ k[3] = n.confidence
          /\ k[4] = n.created /\ k[5] = - n.id
      BY DEF Engine!RankKey, S
    <2>2. Engine!Beats(m, n, q) <=> Engine!Above(j, k)
      BY DEF Engine!Beats
    <2> HIDE DEF j, k
    <2> QED
      BY <2>1, <2>2, AboveOfFive
  <1>3. \A m \in Engine!Rows : ~ Engine!Beats(m, m, q)
    BY <1>1, <1>2
  <1>4. ASSUME NEW m \in Engine!Rows, NEW n \in Engine!Rows, m.id # n.id
        PROVE  Engine!Beats(m, n, q) \/ Engine!Beats(n, m, q)
    <2>1. - m.id > - n.id \/ - n.id > - m.id
      BY <1>1, <1>4
    <2> QED
      BY <1>1, <1>2, <2>1
  <1>5. ASSUME NEW m \in Engine!Rows, NEW n \in Engine!Rows, NEW l \in Engine!Rows,
               Engine!Beats(m, n, q), Engine!Beats(n, l, q)
        PROVE  Engine!Beats(m, l, q)
    BY <1>1, <1>2, <1>5
  <1> QED
    BY <1>3, <1>4, <1>5

\* The places of a list of memories, the better memory first.
Places(K, q) == {p \in (DOMAIN K) \X (DOMAIN K) : Engine!Beats(K[p[1]], K[p[2]], q)}

\* The places of a table are in a total order.
LEMMA PlacesOrdered ==
    ASSUME NEW q, NEW K, Engine!IsTable(K)
    PROVE  /\ Orders(Places(K, q), DOMAIN K)
           /\ \A i, j \in DOMAIN K : <<i, j>> \in Places(K, q) <=> Engine!Beats(K[i], K[j], q)
           /\ DOMAIN K = 1 .. Len(K) /\ Len(K) \in Nat
           /\ IsFiniteSet(DOMAIN K) /\ Cardinality(DOMAIN K) = Len(K)
  <1>1. \A i, j \in DOMAIN K : <<i, j>> \in Places(K, q) <=> Engine!Beats(K[i], K[j], q)
    BY DEF Places
  <1>2. /\ \A i \in DOMAIN K : K[i] \in Engine!Rows
        /\ \A i, j \in DOMAIN K : i # j => K[i].id # K[j].id
        /\ DOMAIN K = 1 .. Len(K) /\ Len(K) \in Nat
    BY LenProperties, ElementOfSeq DEF Engine!IsTable
  <1>3. Orders(Places(K, q), DOMAIN K)
    BY <1>1, <1>2, BeatsOrders DEF Orders
  <1>4. IsFiniteSet(1 .. Len(K)) /\ Cardinality(1 .. Len(K)) = Len(K)
    BY <1>2, FS_Interval
  <1> QED
    BY <1>1, <1>2, <1>3, <1>4

\* There is a worst one, which every other beats.
LEMMA WorstIsLast ==
    ASSUME NEW q, NEW K, Engine!IsTable(K), Len(K) > 0
    PROVE  LET w == CHOOSE i \in DOMAIN K : \A j \in DOMAIN K \ {i} :
                        ~ Engine!Beats(K[i], K[j], q)
           IN  w \in DOMAIN K /\ \A j \in DOMAIN K \ {w} : Engine!Beats(K[j], K[w], q)
  <1> DEFINE D == DOMAIN K
             R == Places(K, q)
             w == CHOOSE i \in D : \A j \in D \ {i} : ~ Engine!Beats(K[i], K[j], q)
  <1>1. /\ Orders(R, D) /\ IsFiniteSet(D) /\ Cardinality(D) \in Nat /\ Cardinality(D) > 0
        /\ \A i, j \in D : <<i, j>> \in R <=> Engine!Beats(K[i], K[j], q)
    BY PlacesOrdered
  <1> HIDE DEF D, R
  <1>2. \E i \in D : \A j \in D : <<i, j>> \notin R
    <2>1. Cardinality(D) \in 1 .. Cardinality(D)
      BY <1>1
    <2>2. PICK i \in D : Cardinality(Ahead(D, R, i)) = Cardinality(D) - 1
      BY <1>1, <2>1, EachPlace
    <2>3. \A j \in D : /\ Cardinality(Ahead(D, R, j)) \in 0 .. Cardinality(D) - 1
                       /\ <<i, j>> \in R => Cardinality(Ahead(D, R, i)) < Cardinality(Ahead(D, R, j))
      BY <1>1, AheadCounts
    <2> QED
      BY <1>1, <2>2, <2>3
  <1>3. w \in D /\ \A j \in D \ {w} : ~ Engine!Beats(K[w], K[j], q)
    <2>1. \E i \in D : \A j \in D \ {i} : ~ Engine!Beats(K[i], K[j], q)
      BY <1>1, <1>2
    <2> QED
      BY <2>1, Zenon
  <1> HIDE DEF w
  <1>4. \A j \in D \ {w} : Engine!Beats(K[j], K[w], q)
    BY <1>1, <1>3 DEF Orders
  <1> QED
    BY <1>3, <1>4 DEF w, D

\* What the ranker holds of the first i rows: as many as the limit allows, each
\* of them once, and each better than all it has left out.
Best(q, rows, i, K) ==
    /\ Engine!IsTable(K)
    /\ Len(K) = IF i < q.limit THEN i ELSE q.limit
    /\ \A a \in DOMAIN K : \E j \in 1 .. i : K[a] = rows[j]
    /\ \A j \in 1 .. i : \/ \E a \in DOMAIN K : K[a] = rows[j]
                         \/ /\ q.limit < i
                            /\ \A a \in DOMAIN K : Engine!Beats(K[a], rows[j], q)

\* The ranker still holds the best when it has seen one row more (add).
LEMMA AddKeepsBest ==
    ASSUME NEW q, q.limit \in Nat, NEW rows, Engine!IsTable(rows),
           NEW i \in Nat, i < Len(rows), NEW K, Best(q, rows, i, K)
    PROVE  Best(q, rows, i + 1, Engine!Add(q, K, rows[i + 1]))
  <1> DEFINE m == rows[i + 1]
             L == Engine!Add(q, K, m)
  <1>1. /\ Len(rows) \in Nat /\ DOMAIN rows = 1 .. Len(rows)
        /\ \A j \in 1 .. i + 1 : j \in DOMAIN rows /\ rows[j] \in Engine!Rows
        /\ \A j \in 1 .. i : rows[j].id # m.id
    BY LenProperties, ElementOfSeq DEF Engine!IsTable
  <1>2. /\ Len(K) \in Nat /\ DOMAIN K = 1 .. Len(K) /\ K \in Seq(Engine!Rows)
        /\ \A a \in DOMAIN K : K[a] \in Engine!Rows
        /\ \A a, b \in DOMAIN K : K[a].id = K[b].id => a = b
    BY LenProperties, ElementOfSeq DEF Engine!IsTable, Best
  <1>3. \A a \in DOMAIN K : K[a].id # m.id
    BY <1>1 DEF Best
  <1>4. CASE q.limit = 0
    <2>1. L = K /\ DOMAIN K = {}
      BY <1>2, <1>4 DEF Engine!Add, Best
    <2> HIDE DEF L, m
    <2>2. Best(q, rows, i + 1, K)
      BY <1>2, <1>4, <2>1 DEF Best
    <2> QED
      BY <2>1, <2>2 DEF L, m
  <1>5. CASE q.limit # 0 /\ Len(K) < q.limit
    <2>1. L = Append(K, m) /\ i < q.limit /\ Len(K) = i
      BY <1>2, <1>5 DEF Engine!Add, Best
    <2>2. /\ L \in Seq(Engine!Rows) /\ Len(L) = i + 1 /\ DOMAIN L = 1 .. i + 1
          /\ \A a \in 1 .. i : a \in DOMAIN K /\ L[a] = K[a]
          /\ L[i + 1] = m
      BY <1>1, <1>2, <2>1, AppendProperties
    <2> HIDE DEF L, m
    <2>3. \A a, b \in DOMAIN L : L[a].id = L[b].id => a = b
      BY <1>2, <1>3, <2>2
    <2>4. \A a \in DOMAIN L : \E j \in 1 .. i + 1 : L[a] = rows[j]
      <3>1. \A a \in 1 .. i : \E j \in 1 .. i : L[a] = rows[j]
        BY <2>2 DEF Best
      <3>2. L[i + 1] = rows[i + 1]
        BY <2>2 DEF m
      <3>3. \A a \in DOMAIN L : a \in 1 .. i \/ a = i + 1
        BY <2>2
      <3>4. i + 1 \in 1 .. i + 1 /\ \A j \in 1 .. i : j \in 1 .. i + 1
        OBVIOUS
      <3> QED
        BY <3>1, <3>2, <3>3, <3>4, Zenon
    <2>5. \A j \in 1 .. i + 1 : \E a \in DOMAIN L : L[a] = rows[j]
      <3>1. \A j \in 1 .. i : \E a \in DOMAIN K : K[a] = rows[j]
        BY <2>1 DEF Best
      <3>2. DOMAIN K = 1 .. i
        BY <1>2, <2>1
      <3>3. \A j \in 1 .. i : \E a \in DOMAIN L : L[a] = rows[j]
        <4>1. \A a \in DOMAIN K : a \in DOMAIN L /\ L[a] = K[a]
          BY <2>2, <3>2
        <4> QED
          BY <3>1, <4>1
      <3>4. i + 1 \in DOMAIN L /\ L[i + 1] = rows[i + 1]
        BY <2>2 DEF m
      <3>5. \A j \in 1 .. i + 1 : j \in 1 .. i \/ j = i + 1
        OBVIOUS
      <3> QED
        BY <3>3, <3>4, <3>5, Zenon
    <2>6. Best(q, rows, i + 1, L)
      <3>1. Len(L) = IF i + 1 < q.limit THEN i + 1 ELSE q.limit
        BY <2>1, <2>2
      <3> QED
        BY <2>2, <2>3, <2>4, <2>5, <3>1 DEF Best, Engine!IsTable
    <2> QED
      BY <2>6 DEF L, m
  <1>6. CASE q.limit # 0 /\ ~ (Len(K) < q.limit)
    <2> DEFINE w == CHOOSE a \in DOMAIN K : \A b \in DOMAIN K \ {a} :
                        ~ Engine!Beats(K[a], K[b], q)
    <2>1. Len(K) = q.limit /\ q.limit < i + 1 /\ ~ (i + 1 < q.limit)
      BY <1>2, <1>6 DEF Best
    <2>2. w \in DOMAIN K /\ \A b \in DOMAIN K \ {w} : Engine!Beats(K[b], K[w], q)
      <3>1. Len(K) > 0 /\ Engine!IsTable(K)
        BY <1>6, <2>1 DEF Best
      <3> QED
        BY <3>1, WorstIsLast
    <2>3. L = IF Engine!Beats(m, K[w], q) THEN [K EXCEPT ![w] = m] ELSE K
      BY <1>6, Zenon DEF Engine!Add
    <2>4. m \in Engine!Rows /\ \A a \in DOMAIN K : Engine!Beats(m, K[a], q) \/ Engine!Beats(K[a], m, q)
      <3>1. m \in Engine!Rows
        BY <1>1
      <3> HIDE DEF m, w, L
      <3> QED
        BY <1>2, <1>3, <3>1, BeatsOrders
    <2> HIDE DEF w, L, m
    <2>5. CASE Engine!Beats(m, K[w], q)
      <3>1. /\ L \in Seq(Engine!Rows) /\ Len(L) = Len(K) /\ DOMAIN L = DOMAIN K
            /\ \A a \in DOMAIN K : L[a] = IF a = w THEN m ELSE K[a]
        BY <1>2, <2>2, <2>3, <2>4, <2>5, ExceptSeq
      <3>2. \A a, b \in DOMAIN L : L[a].id = L[b].id => a = b
        BY <1>2, <1>3, <3>1
      <3>3. \A a \in DOMAIN L : \E j \in 1 .. i + 1 : L[a] = rows[j]
        <4>1. \A a \in DOMAIN K : \E j \in 1 .. i + 1 : K[a] = rows[j]
          BY DEF Best
        <4> QED
          BY <3>1, <4>1 DEF m
      <3>4. \A a \in DOMAIN L : Engine!Beats(L[a], K[w], q)
        BY <2>2, <2>5, <3>1
      <3>5. ASSUME NEW j \in 1 .. i + 1
            PROVE  \/ \E a \in DOMAIN L : L[a] = rows[j]
                   \/ \A a \in DOMAIN L : Engine!Beats(L[a], rows[j], q)
        <4>1. CASE j = i + 1
          BY <2>2, <3>1, <4>1 DEF m
        <4>2. CASE j \in 1 .. i /\ \E a \in DOMAIN K : K[a] = rows[j]
          BY <3>1, <3>4, <4>2
        <4>3. CASE j \in 1 .. i /\ \A a \in DOMAIN K : Engine!Beats(K[a], rows[j], q)
          <5>1. Engine!Beats(K[w], rows[j], q) /\ K[w] \in Engine!Rows /\ rows[j] \in Engine!Rows
            BY <1>1, <1>2, <2>2, <4>3
          <5>2. \A a \in DOMAIN L : L[a] \in Engine!Rows
            BY <1>2, <2>4, <3>1
          <5> QED
            BY <3>4, <5>1, <5>2, BeatsOrders
        <4> QED
          BY <4>1, <4>2, <4>3 DEF Best
      <3> QED
        BY <2>1, <3>1, <3>2, <3>3, <3>5 DEF Best, Engine!IsTable, L, m
    <2>6. CASE ~ Engine!Beats(m, K[w], q)
      <3>1. L = K
        BY <2>3, <2>6
      <3>2. \A a \in DOMAIN K : \E j \in 1 .. i + 1 : K[a] = rows[j]
        BY DEF Best
      <3>3. \A a \in DOMAIN K : Engine!Beats(K[a], m, q)
        <4>1. Engine!Beats(K[w], m, q) /\ K[w] \in Engine!Rows
          BY <1>2, <2>2, <2>4, <2>6
        <4> QED
          BY <1>2, <2>2, <2>4, <4>1, BeatsOrders
      <3>4. ASSUME NEW j \in 1 .. i + 1
            PROVE  \/ \E a \in DOMAIN K : K[a] = rows[j]
                   \/ \A a \in DOMAIN K : Engine!Beats(K[a], rows[j], q)
        <4>1. CASE j = i + 1
          BY <3>3, <4>1 DEF m
        <4>2. CASE j \in 1 .. i
          BY <4>2 DEF Best
        <4> QED
          BY <4>1, <4>2
      <3>5. Best(q, rows, i + 1, K)
        BY <2>1, <3>2, <3>4 DEF Best
      <3> QED
        BY <3>1, <3>5 DEF L, m
    <2> QED
      BY <2>5, <2>6
  <1> QED
    BY <1>4, <1>5, <1>6

\* The ranker has a state after each row.
Runs(q, rows, n, f) ==
    f = [i \in 0 .. n |-> IF i = 0 THEN <<>> ELSE Engine!Add(q, f[i - 1], rows[i])]

\* Its states up to any row exist, so that CHOOSE finds them.
LEMMA RankerRuns ==
    ASSUME NEW q, NEW rows, NEW n \in Nat
    PROVE  \E f : Runs(q, rows, n, f)
  <1> DEFINE E(f, i) == IF i = 0 THEN <<>> ELSE Engine!Add(q, f[i - 1], rows[i])
             A == {k \in 0 .. n : \E f : f = [i \in 0 .. k |-> E(f, i)]}
  <1>1. \A f, g, i : f[i - 1] = g[i - 1] => E(f, i) = E(g, i)
    OBVIOUS
  <1>2. \A f, g : E(f, 0) = E(g, 0)
    OBVIOUS
  <1> HIDE DEF E
  <1>3. 0 \in A
    <2> DEFINE f == [i \in 0 .. 0 |-> E(<<>>, i)]
    <2>1. \A i \in 0 .. 0 : E(f, i) = E(<<>>, i)
      <3> HIDE DEF f
      <3>1. \A i \in 0 .. 0 : i = 0
        OBVIOUS
      <3> QED
        BY <1>2, <3>1
    <2>2. f = [i \in 0 .. 0 |-> E(f, i)]
      <3> DEFINE v(i) == E(f, i)
      <3>1. \A i \in 0 .. 0 : v(i) = E(<<>>, i)
        BY <2>1
      <3> HIDE DEF v
      <3>2. f = [i \in 0 .. 0 |-> v(i)]
        BY <3>1
      <3> QED
        BY <3>2 DEF v
    <2>3. 0 \in 0 .. n
      OBVIOUS
    <2> HIDE DEF f
    <2> QED
      BY <2>2, <2>3, Zenon
  <1>4. ASSUME NEW k \in A, k < n
        PROVE  k + 1 \in A
    <2>1. PICK g : g = [i \in 0 .. k |-> E(g, i)]
      OBVIOUS
    <2> DEFINE f == [i \in 0 .. k + 1 |-> E(g, i)]
    <2>2. k \in Nat /\ k + 1 \in 0 .. n
      BY <1>4
    <2>3. \A i \in 0 .. k : f[i] = g[i]
      <3> DEFINE v(i) == E(g, i)
      <3>1. g = [i \in 0 .. k |-> v(i)] /\ f = [i \in 0 .. k + 1 |-> v(i)]
        BY <2>1
      <3> HIDE DEF v, f
      <3> QED
        BY <2>2, <3>1
    <2>4. \A i \in 0 .. k + 1 : E(f, i) = E(g, i)
      <3> HIDE DEF f
      <3>1. \A i \in 0 .. k + 1 : i = 0 \/ f[i - 1] = g[i - 1]
        BY <2>2, <2>3
      <3> QED
        BY <1>1, <1>2, <3>1
    <2>5. f = [i \in 0 .. k + 1 |-> E(f, i)]
      <3> DEFINE v(i) == E(f, i)
      <3>1. \A i \in 0 .. k + 1 : v(i) = E(g, i)
        BY <2>4
      <3> HIDE DEF v
      <3>2. f = [i \in 0 .. k + 1 |-> v(i)]
        BY <3>1
      <3> QED
        BY <3>2 DEF v
    <2> QED
      BY <2>2, <2>5, Zenon
  <1>5. A \in SUBSET (0 .. n)
    OBVIOUS
  <1>6. n \in A
    <2> HIDE DEF A
    <2> QED
      BY <1>3, <1>4, <1>5, UpToN
  <1> QED
    BY <1>6 DEF E, Runs

\* At the end it has the best of the table.
LEMMA KeptIsBest ==
    ASSUME NEW q, q.limit \in Nat, NEW rows, Engine!IsTable(rows)
    PROVE  Best(q, rows, Len(rows), Engine!Kept(q, rows))
  <1> DEFINE n == Len(rows)
             kept == CHOOSE f : Runs(q, rows, n, f)
             A == {i \in 0 .. n : Best(q, rows, i, kept[i])}
  <1>1. n \in Nat
    BY LenProperties DEF Engine!IsTable
  <1>2. Runs(q, rows, n, kept)
    <2>1. \E f : Runs(q, rows, n, f)
      <3> HIDE DEF n
      <3> QED
        BY <1>1, RankerRuns
    <2> QED
      BY <2>1, Zenon
  <1>3. Engine!Kept(q, rows) = kept[n]
    BY DEF Engine!Kept, Runs
  <1> HIDE DEF kept
  <1>4. kept[0] = <<>> /\ \A i \in 0 .. n - 1 : kept[i + 1] = Engine!Add(q, kept[i], rows[i + 1])
    <2> DEFINE v(i) == IF i = 0 THEN <<>> ELSE Engine!Add(q, kept[i - 1], rows[i])
    <2>1. kept = [i \in 0 .. n |-> v(i)]
      BY <1>2, Zenon DEF Runs
    <2> HIDE DEF v, n
    <2>2. \A i \in 0 .. n : kept[i] = v(i)
      BY <2>1
    <2>3. 0 \in 0 .. n /\ \A i \in 0 .. n - 1 : i + 1 \in 0 .. n /\ i + 1 # 0 /\ i + 1 - 1 = i
      BY <1>1
    <2>4. v(0) = <<>> /\ \A i \in 0 .. n - 1 : v(i + 1) = Engine!Add(q, kept[i], rows[i + 1])
      BY <2>3 DEF v
    <2> QED
      BY <2>2, <2>3, <2>4
  <1>5. 0 \in A
    <2>1. /\ <<>> \in Seq(Engine!Rows) /\ Len(<<>>) = 0 /\ DOMAIN <<>> = {}
      OBVIOUS
    <2>2. Best(q, rows, 0, <<>>)
      BY <2>1 DEF Best, Engine!IsTable
    <2> QED
      BY <1>1, <1>4, <2>2
  <1>6. ASSUME NEW i \in A, i < n
        PROVE  i + 1 \in A
    <2>1. i \in Nat /\ i + 1 \in 0 .. n /\ i \in 0 .. n - 1
      BY <1>1, <1>6
    <2>2. Best(q, rows, i, kept[i])
      BY <1>6
    <2>3. Best(q, rows, i + 1, Engine!Add(q, kept[i], rows[i + 1]))
      BY <1>6, <2>1, <2>2, AddKeepsBest
    <2> QED
      BY <1>4, <2>1, <2>3
  <1>7. n \in A
    <2>1. A \in SUBSET (0 .. n)
      OBVIOUS
    <2> HIDE DEF A, n
    <2> QED
      BY <1>1, <1>5, <1>6, <2>1, UpToN
  <1> QED
    BY <1>3, <1>7

\* A ranking returns the best of a table, in order: as many as there are and the
\* limit allows, and each better than every row it leaves out.
Ranked(q, rows, found) ==
    /\ DOMAIN found = 1 .. Len(found)
    /\ Len(found) = IF Len(rows) < q.limit THEN Len(rows) ELSE q.limit
    /\ \A k \in DOMAIN found : \E i \in DOMAIN rows : found[k] = rows[i]
    /\ \A k, l \in DOMAIN found : k < l => Engine!Beats(found[k], found[l], q)
    /\ \A i \in DOMAIN rows :
          \/ \E k \in DOMAIN found : found[k] = rows[i]
          \/ \A k \in DOMAIN found : ~ Engine!Beats(rows[i], found[k], q)

\* So does what rank_memories returns, for every table and limit.
LEMMA RankedIsBest ==
    ASSUME NEW q, q.limit \in Nat, NEW rows, Engine!IsTable(rows)
    PROVE  Ranked(q, rows, Engine!RankMemories(q, rows))
  <1> DEFINE heap == Engine!Kept(q, rows)
             order == Sorted(DOMAIN heap, Places(heap, q))
             found == Engine!RankMemories(q, rows)
             c == Len(heap)
  <1>1. Len(rows) \in Nat /\ DOMAIN rows = 1 .. Len(rows)
        /\ \A i \in DOMAIN rows : rows[i] \in Engine!Rows
    BY LenProperties, ElementOfSeq DEF Engine!IsTable
  <1>2. Best(q, rows, Len(rows), heap)
    BY KeptIsBest
  <1>3. Engine!IsTable(heap) /\ heap \in Seq(Engine!Rows) /\ c \in Nat /\ DOMAIN heap = 1 .. c
        /\ \A i \in 1 .. c : heap[i] \in Engine!Rows
    BY <1>2, LenProperties, ElementOfSeq DEF Best, Engine!IsTable
  <1>4. found = [k \in DOMAIN order |-> heap[order[k]]]
    BY EngineSorted DEF Engine!RankMemories, Places
  <1> HIDE DEF heap, order, found
  <1>5. /\ \A k \in 1 .. c : order[k] \in 1 .. c
        /\ DOMAIN order = 1 .. c
        /\ \A k, l \in 1 .. c : k < l <=> Engine!Beats(heap[order[k]], heap[order[l]], q)
        /\ \A i \in 1 .. c : \E k \in 1 .. c : order[k] = i
    <2>1. /\ Orders(Places(heap, q), DOMAIN heap) /\ IsFiniteSet(DOMAIN heap)
          /\ Cardinality(DOMAIN heap) = c
          /\ \A i, j \in DOMAIN heap :
                <<i, j>> \in Places(heap, q) <=> Engine!Beats(heap[i], heap[j], q)
      BY <1>3, PlacesOrdered
    <2> HIDE DEF c
    <2>2. /\ \A k \in 1 .. c : order[k] \in DOMAIN heap
          /\ DOMAIN order = 1 .. c
          /\ \A k, l \in 1 .. c : k < l <=> <<order[k], order[l]>> \in Places(heap, q)
          /\ \A i \in DOMAIN heap : \E k \in 1 .. c : order[k] = i
      <3>1. /\ \A k \in 1 .. Cardinality(DOMAIN heap) : order[k] \in DOMAIN heap
            /\ DOMAIN order = 1 .. Cardinality(DOMAIN heap)
            /\ \A k, l \in 1 .. Cardinality(DOMAIN heap) :
                  k < l <=> <<order[k], order[l]>> \in Places(heap, q)
            /\ \A i \in DOMAIN heap : \E k \in 1 .. Cardinality(DOMAIN heap) : order[k] = i
        BY <2>1, SortedPlaces DEF order
      <3> QED
        BY <2>1, <3>1
    <2> QED
      BY <1>3, <2>1, <2>2
  <1> HIDE DEF c
  <1>6. /\ \A a \in 1 .. c : \E i \in DOMAIN rows : heap[a] = rows[i]
        /\ \A i \in DOMAIN rows :
              \/ \E a \in 1 .. c : heap[a] = rows[i]
              \/ \A a \in 1 .. c : Engine!Beats(heap[a], rows[i], q)
    <2>1. /\ \A a \in DOMAIN heap : \E i \in 1 .. Len(rows) : heap[a] = rows[i]
          /\ \A i \in 1 .. Len(rows) :
                \/ \E a \in DOMAIN heap : heap[a] = rows[i]
                \/ \A a \in DOMAIN heap : Engine!Beats(heap[a], rows[i], q)
      BY <1>2, Zenon DEF Best
    <2> QED
      BY <1>1, <1>3, <2>1
  <1>7. /\ found \in Seq(Engine!Rows) /\ Len(found) = c /\ DOMAIN found = 1 .. c
        /\ \A k \in 1 .. c : found[k] = heap[order[k]]
    <2>1. found = [k \in 1 .. c |-> heap[order[k]]]
      BY <1>4, <1>5
    <2>2. \A k \in 1 .. c : heap[order[k]] \in Engine!Rows
      BY <1>3, <1>5
    <2>3. c \in Nat
      BY <1>3
    <2> HIDE DEF found, c
    <2> QED
      BY <2>1, <2>2, <2>3
  <1>8. c = IF Len(rows) < q.limit THEN Len(rows) ELSE q.limit
    BY <1>2 DEF Best, c
  <1>9. ASSUME NEW k \in 1 .. c
        PROVE  \E i \in DOMAIN rows : found[k] = rows[i]
    <2>1. order[k] \in 1 .. c /\ found[k] = heap[order[k]]
      BY <1>5, <1>7
    <2>2. PICK i \in DOMAIN rows : heap[order[k]] = rows[i]
      BY <1>6, <2>1, Zenon
    <2> QED
      BY <2>1, <2>2
  <1>10. ASSUME NEW k \in 1 .. c, NEW l \in 1 .. c, k < l
         PROVE  Engine!Beats(found[k], found[l], q)
    <2>1. found[k] = heap[order[k]] /\ found[l] = heap[order[l]]
      BY <1>7
    <2>2. Engine!Beats(heap[order[k]], heap[order[l]], q)
      BY <1>5, <1>10
    <2> QED
      BY <2>1, <2>2
  <1>11. ASSUME NEW i \in DOMAIN rows
         PROVE  \/ \E k \in 1 .. c : found[k] = rows[i]
                \/ \A k \in 1 .. c : ~ Engine!Beats(rows[i], found[k], q)
    <2>1. CASE \E a \in 1 .. c : heap[a] = rows[i]
      <3>1. PICK a \in 1 .. c : heap[a] = rows[i]
        BY <2>1
      <3>2. PICK k \in 1 .. c : order[k] = a
        BY <1>5
      <3> QED
        BY <1>7, <3>1, <3>2
    <2>2. CASE \A a \in 1 .. c : Engine!Beats(heap[a], rows[i], q)
      <3>1. \A a \in 1 .. c : ~ Engine!Beats(rows[i], heap[a], q)
        BY <1>1, <1>3, <2>2, BeatsOrders
      <3> QED
        BY <1>5, <1>7, <3>1
    <2> QED
      BY <1>6, <2>1, <2>2
  <1> QED
    BY <1>7, <1>8, <1>9, <1>10, <1>11 DEF found, Ranked

\* The search selects rows as the library does.
LEMMA EngineInOrder == ASSUME NEW s, NEW S PROVE Engine!InOrder(s, S) = InOrder(s, S)
  BY EngineSorted, Zenon DEF Engine!InOrder, InOrder

\* A table has as many rows as members.
LEMMA TableCount ==
    ASSUME NEW t, Engine!IsTable(t)
    PROVE  IsFiniteSet({t[i] : i \in DOMAIN t}) /\ Cardinality({t[i] : i \in DOMAIN t}) = Len(t)
  <1> DEFINE T == {t[i] : i \in DOMAIN t}
             f == [i \in 1 .. Len(t) |-> t[i]]
  <1>1. /\ Len(t) \in Nat /\ DOMAIN t = 1 .. Len(t)
        /\ \A i, j \in DOMAIN t : t[i] = t[j] => i = j
    BY LenProperties DEF Engine!IsTable
  <1>2. f \in Bijection(1 .. Len(t), T)
    BY <1>1 DEF Bijection, Injection, Surjection, IsInjective
  <1>3. ExistsBijection(1 .. Len(t), T)
    BY <1>2, Zenon DEF ExistsBijection
  <1>4. IsFiniteSet(1 .. Len(t)) /\ Cardinality(1 .. Len(t)) = Len(t)
    BY <1>1, FS_Interval
  <1> HIDE DEF T, f
  <1>5. IsFiniteSet(T) /\ Cardinality(T) = Len(t)
    BY <1>3, <1>4, FS_Bijection
  <1> QED
    BY <1>5 DEF T

\* A selection of rows is a table of these rows.
LEMMA SelectedRows ==
    ASSUME NEW rows, Engine!IsTable(rows), NEW S \in SUBSET (DOMAIN rows)
    PROVE  LET t == Engine!InOrder(rows, S)
           IN  /\ Engine!IsTable(t)
               /\ \A k \in DOMAIN t : \E i \in S : t[k] = rows[i]
               /\ \A i \in S : \E k \in DOMAIN t : t[k] = rows[i]
  <1> DEFINE t == Engine!InOrder(rows, S)
             c == Cardinality(S)
  <1>1. /\ Len(rows) \in Nat /\ DOMAIN rows = 1 .. Len(rows)
        /\ \A i \in DOMAIN rows : rows[i] \in Engine!Rows
        /\ \A i, j \in DOMAIN rows : rows[i].id = rows[j].id => i = j
    BY LenProperties, ElementOfSeq DEF Engine!IsTable
  <1>2. PICK p : Lists(rows, S, p)
    <2>1. Len(rows) \in Nat /\ S \in SUBSET (1 .. Len(rows))
      BY <1>1
    <2> HIDE DEF c, t
    <2> QED
      BY <2>1, InOrderLists
  <1>3. /\ c \in Nat /\ InOrder(rows, S) = [k \in 1 .. c |-> rows[p[k]]]
        /\ \A k \in 1 .. c : p[k] \in S
        /\ \A i, j \in 1 .. c : i < j <=> p[i] < p[j]
        /\ \A i \in S : \E k \in 1 .. c : p[k] = i
    BY <1>2, Zenon DEF Lists
  <1> HIDE DEF c
  <1>9. t = [k \in 1 .. c |-> rows[p[k]]]
    BY <1>3, EngineInOrder
  <1> HIDE DEF t
  <1>4. /\ t \in Seq(Engine!Rows) /\ DOMAIN t = 1 .. c
        /\ \A k \in 1 .. c : t[k] = rows[p[k]]
    <2>1. \A k \in 1 .. c : rows[p[k]] \in Engine!Rows
      BY <1>1, <1>3
    <2> QED
      BY <1>3, <1>9, <2>1
  <1>5. \A k, l \in 1 .. c : t[k].id = t[l].id => k = l
    <2>1. \A k, l \in 1 .. c : p[k] = p[l] => k = l
      <3>1. \A k, l \in 1 .. c : k # l => k < l \/ l < k
        BY <1>3
      <3>2. \A k \in 1 .. c : p[k] \in Nat
        BY <1>1, <1>3
      <3> QED
        BY <1>3, <3>1, <3>2
    <2> QED
      BY <1>1, <1>3, <1>4, <2>1
  <1>6. Engine!IsTable(t)
    BY <1>4, <1>5 DEF Engine!IsTable
  <1>7. \A k \in 1 .. c : \E i \in S : t[k] = rows[i]
    BY <1>3, <1>4
  <1>8. ASSUME NEW i \in S
        PROVE  \E k \in 1 .. c : t[k] = rows[i]
    <2>1. PICK k \in 1 .. c : p[k] = i
      BY <1>3
    <2> QED
      BY <1>4, <2>1
  <1> QED
    BY <1>4, <1>6, <1>7, <1>8 DEF t

\* What a search owes once its reach is ranked.
Exact(q, found, reach) ==
    /\ {found[k] : k \in DOMAIN found} \subseteq reach
    /\ \A i, j \in DOMAIN found : i < j => Engine!Beats(found[i], found[j], q)
    /\ Len(found) = IF Cardinality(reach) < q.limit THEN Cardinality(reach) ELSE q.limit
    /\ \A m \in {found[k] : k \in DOMAIN found}, n \in reach \ {found[k] : k \in DOMAIN found} :
          ~ Engine!Beats(n, m, q)

\* A ranking of the reach is what a search owes.
LEMMA RankedIsExact ==
    ASSUME NEW q, q.limit \in Nat, NEW t, Engine!IsTable(t), NEW reach,
           reach = {t[i] : i \in DOMAIN t}
    PROVE  Exact(q, Engine!RankMemories(q, t), reach)
  <1> DEFINE found == Engine!RankMemories(q, t)
             F == {found[k] : k \in DOMAIN found}
  <1>1. Ranked(q, t, found)
    BY RankedIsBest
  <1>2. Cardinality(reach) = Len(t)
    BY TableCount
  <1> HIDE DEF found
  <1>3. F \subseteq reach
    BY <1>1 DEF Ranked
  <1>4. \A m \in F, n \in reach \ F : ~ Engine!Beats(n, m, q)
    <2> SUFFICES ASSUME NEW k \in DOMAIN found, NEW i \in DOMAIN t, t[i] \notin F
                 PROVE  ~ Engine!Beats(t[i], found[k], q)
      OBVIOUS
    <2>1. ~ \E l \in DOMAIN found : found[l] = t[i]
      OBVIOUS
    <2> QED
      BY <1>1, <2>1 DEF Ranked
  <1> QED
    BY <1>1, <1>2, <1>3, <1>4 DEF Exact, Ranked, found

\* The path without candidates.
LEMMA StreamIsExact ==
    ASSUME NEW q, q.limit \in Nat, NEW rows, Engine!IsTable(rows)
    PROVE  Exact(q, Engine!StreamExact(q, rows),
                 {m \in {rows[i] : i \in DOMAIN rows} :
                     Engine!Filtered(m, q, q.dimension = Engine!None) /\ Engine!Usable(m, q)})
  <1> DEFINE S == {i \in DOMAIN rows : /\ Engine!Filtered(rows[i], q, q.dimension = Engine!None)
                                       /\ Engine!Usable(rows[i], q)}
             t == Engine!InOrder(rows, S)
             reach == {m \in {rows[i] : i \in DOMAIN rows} :
                          Engine!Filtered(m, q, q.dimension = Engine!None) /\ Engine!Usable(m, q)}
  <1>1. Engine!StreamExact(q, rows) = Engine!RankMemories(q, t)
    BY DEF Engine!StreamExact
  <1>2. S \in SUBSET (DOMAIN rows)
    OBVIOUS
  <1>3. reach = {rows[i] : i \in S}
    OBVIOUS
  <1> HIDE DEF S, t, reach
  <1>4. /\ Engine!IsTable(t)
        /\ \A k \in DOMAIN t : \E i \in S : t[k] = rows[i]
        /\ \A i \in S : \E k \in DOMAIN t : t[k] = rows[i]
    BY <1>2, SelectedRows DEF t
  <1>5. reach = {t[k] : k \in DOMAIN t}
    BY <1>3, <1>4
  <1>6. Exact(q, Engine!RankMemories(q, t), reach)
    BY <1>4, <1>5, RankedIsExact
  <1> QED
    BY <1>1, <1>6 DEF reach

\* The first n of a sequence.
LEMMA CutProperties ==
    ASSUME NEW S, NEW s \in Seq(S), NEW n \in Nat
    PROVE  LET t == Engine!Cut(s, n)
           IN  /\ t \in Seq(S) /\ DOMAIN t = 1 .. Len(t)
               /\ Len(t) = IF Len(s) < n THEN Len(s) ELSE n
               /\ \A k \in 1 .. Len(t) : t[k] = s[k]
  <1> DEFINE l == IF Len(s) < n THEN Len(s) ELSE n
  <1>1. l \in Nat /\ l <= Len(s) /\ Len(s) \in Nat
    BY LenProperties
  <1>2. Engine!Cut(s, n) = SubSeq(s, 1, l)
    BY DEF Engine!Cut
  <1>3. \A k \in 1 .. l : s[k] \in S
    BY <1>1, ElementOfSeq
  <1> HIDE DEF l
  <1>4. SubSeq(s, 1, l) = [k \in 1 .. l |-> s[k]]
    BY <1>1
  <1>5. /\ Engine!Cut(s, n) \in Seq(S) /\ DOMAIN Engine!Cut(s, n) = 1 .. l
        /\ Len(Engine!Cut(s, n)) = l /\ \A k \in 1 .. l : Engine!Cut(s, n)[k] = s[k]
    BY <1>1, <1>2, <1>3, <1>4
  <1> QED
    BY <1>5 DEF l

\* Where values first stand.
LEMMA FirstPlaces ==
    ASSUME NEW s \in Seq(Nat)
    PROVE  /\ Firsts(s) \in SUBSET (1 .. Len(s)) /\ Len(s) \in Nat /\ DOMAIN s = 1 .. Len(s)
           /\ \A i, j \in Firsts(s) : s[i] = s[j] => i = j
           /\ \A i \in 1 .. Len(s) : \E j \in Firsts(s) : j <= i /\ s[j] = s[i]
           /\ \A i \in 1 .. Len(s) :
                 /\ IsFiniteSet({s[h] : h \in 1 .. i})
                 /\ Cardinality({s[h] : h \in 1 .. i}) = Cardinality({j \in Firsts(s) : j <= i})
  <1> DEFINE F == Firsts(s)
  <1>1. /\ F \in SUBSET (1 .. Len(s)) /\ Len(s) \in Nat /\ DOMAIN s = 1 .. Len(s)
        /\ \A i \in 1 .. Len(s) : i \in F <=> \A h \in 1 .. i - 1 : s[h] # s[i]
    BY LenProperties DEF Firsts
  <1> HIDE DEF F
  <1>2. ASSUME NEW i \in F, NEW j \in F, s[i] = s[j]
        PROVE  i = j
    <2>1. ASSUME i < j PROVE FALSE
      <3>1. i \in 1 .. j - 1
        BY <1>1, <2>1
      <3> QED
        BY <1>1, <1>2, <3>1
    <2>2. ASSUME j < i PROVE FALSE
      <3>1. j \in 1 .. i - 1
        BY <1>1, <2>2
      <3> QED
        BY <1>1, <1>2, <3>1
    <2> QED
      BY <1>1, <2>1, <2>2
  <1>3. ASSUME NEW i \in 1 .. Len(s)
        PROVE  \E j \in F : j <= i /\ s[j] = s[i]
    <2> DEFINE T == {h \in 1 .. i : s[h] = s[i]}
    <2>1. T \in SUBSET Nat /\ i \in T
      <3>1. i \in Nat /\ i \in 1 .. i
        BY <1>1
      <3> QED
        BY <3>1
    <2>2. PICK j \in T : \A h \in T : j <= h
      BY <2>1, LeastNumber
    <2>3. j \in 1 .. i /\ s[j] = s[i] /\ \A h \in 1 .. j - 1 : s[h] # s[i]
      BY <2>2
    <2>4. j \in 1 .. Len(s) /\ j <= i
      BY <1>1, <2>3
    <2> QED
      BY <1>1, <2>3, <2>4, Zenon
  <1>4. ASSUME NEW i \in 1 .. Len(s)
        PROVE  /\ IsFiniteSet({s[h] : h \in 1 .. i})
               /\ Cardinality({s[h] : h \in 1 .. i}) = Cardinality({j \in F : j <= i})
    <2> DEFINE A == {j \in F : j <= i}
               B == {s[h] : h \in 1 .. i}
               f == [j \in A |-> s[j]]
    <2>1. A \in SUBSET (1 .. i) /\ \A h \in 1 .. i : \E j \in A : s[j] = s[h]
      <3>1. \A j \in F : j \in Nat /\ j >= 1
        BY <1>1
      <3>3. A \in SUBSET (1 .. i)
        BY <3>1
      <3>2. ASSUME NEW h \in 1 .. i
            PROVE  \E j \in A : s[j] = s[h]
        <4>1. h \in 1 .. Len(s)
          BY <1>1
        <4>2. PICK j \in F : j <= h /\ s[j] = s[h]
          BY <1>3, <4>1
        <4> QED
          BY <1>1, <4>2
      <3> QED
        BY <3>3, <3>2
    <2>2. IsFiniteSet(A)
      <3>1. IsFiniteSet(1 .. i)
        BY FS_Interval
      <3> HIDE DEF A
      <3> QED
        BY <2>1, <3>1, FS_Subset
    <2>3. \A j, k \in A : s[j] = s[k] => j = k
      BY <1>2
    <2> HIDE DEF A
    <2>4. f \in Bijection(A, B)
      <3>1. \A j \in A : s[j] \in B
        BY <2>1
      <3>2. \A x \in B : \E j \in A : s[j] = x
        BY <2>1
      <3> HIDE DEF B
      <3> QED
        BY <2>3, <3>1, <3>2 DEF Bijection, Injection, Surjection, IsInjective
    <2>5. ExistsBijection(A, B)
      BY <2>4, Zenon DEF ExistsBijection
    <2> HIDE DEF B
    <2>6. IsFiniteSet(B) /\ Cardinality(B) = Cardinality(A)
      BY <2>2, <2>5, FS_Bijection
    <2> QED
      BY <2>6 DEF A, B
  <1> QED
    BY <1>1, <1>2, <1>3, <1>4 DEF F

\* The first ids of the index, each once: those up to which the budget lasts.
LEMMA LoadedIds ==
    ASSUME NEW s \in Seq(Nat), NEW b \in Nat
    PROVE  LET ids == Engine!Loaded(s, b)
               reach == {s[i] : i \in {j \in DOMAIN s : Cardinality({s[h] : h \in 1 .. j}) <= b}}
           IN  /\ {ids[k] : k \in DOMAIN ids} = reach
               /\ Cardinality(reach) = Len(ids) /\ Len(ids) \in 0 .. b
  <1> DEFINE F == Firsts(s)
             c == Cardinality(F)
             u == InOrder(s, F)
             ids == Engine!Loaded(s, b)
             V(i) == Cardinality({s[h] : h \in 1 .. i})
             reach == {s[i] : i \in {j \in DOMAIN s : V(j) <= b}}
             l == IF c < b THEN c ELSE b
  <1>1. /\ F \in SUBSET (1 .. Len(s)) /\ Len(s) \in Nat /\ DOMAIN s = 1 .. Len(s)
        /\ \A i, j \in F : s[i] = s[j] => i = j
        /\ \A i \in 1 .. Len(s) : \E j \in F : j <= i /\ s[j] = s[i]
        /\ \A i \in 1 .. Len(s) : s[i] \in Nat
        /\ \A i \in F : i \in 1 .. Len(s)
    BY FirstPlaces, ElementOfSeq
  <1>2. \A i \in 1 .. Len(s) : IsFiniteSet({s[h] : h \in 1 .. i})
                               /\ V(i) = Cardinality({j \in F : j <= i})
    BY FirstPlaces
  <1> HIDE DEF F
  <1>3. PICK p : Lists(s, F, p)
    BY <1>1, InOrderLists
  <1>4. /\ c \in Nat /\ u = [k \in 1 .. c |-> s[p[k]]]
        /\ \A k \in 1 .. c : p[k] \in F /\ Cardinality({i \in F : i < p[k]}) = k - 1
        /\ \A i, j \in 1 .. c : i < j <=> p[i] < p[j]
        /\ \A i \in F : \E k \in 1 .. c : p[k] = i
    BY <1>3, Zenon DEF Lists
  <1> HIDE DEF c, u, V, reach
  <1>5. u \in Seq(Nat) /\ Len(u) = c
    <2>1. \A k \in 1 .. c : s[p[k]] \in Nat
      BY <1>1, <1>4
    <2> QED
      BY <1>4, <2>1
  <1>6. ids = Engine!Cut(u, b)
    BY EngineInOrder DEF Engine!Loaded, Engine!Unique, Unique, Engine!Firsts, Firsts, F, u
  <1> HIDE DEF ids
  <1>7. /\ DOMAIN ids = 1 .. l /\ Len(ids) = l /\ l \in 0 .. b
        /\ \A k \in 1 .. l : k \in 1 .. c /\ ids[k] = s[p[k]]
    <2>1. /\ DOMAIN ids = 1 .. Len(ids) /\ Len(ids) = l
          /\ \A k \in 1 .. Len(ids) : ids[k] = u[k]
      BY <1>5, <1>6, CutProperties
    <2>2. l \in 0 .. b /\ \A k \in 1 .. l : k \in 1 .. c
      BY <1>4
    <2> HIDE DEF l
    <2> QED
      BY <1>4, <2>1, <2>2
  <1> HIDE DEF l
  \* The k-th of them is there after k different values.
  <1>8. ASSUME NEW k \in 1 .. c
        PROVE  V(p[k]) = k
    <2> DEFINE A == {i \in F : i < p[k]}
    <2>1. p[k] \in F /\ p[k] \in 1 .. Len(s) /\ Cardinality(A) = k - 1
      BY <1>1, <1>4
    <2>2. IsFiniteSet(A)
      <3>1. A \in SUBSET (1 .. Len(s))
        BY <1>1
      <3>2. IsFiniteSet(1 .. Len(s))
        BY <1>1, FS_Interval
      <3> HIDE DEF A
      <3> QED
        BY <3>1, <3>2, FS_Subset
    <2>3. p[k] \notin A /\ {j \in F : j <= p[k]} = A \cup {p[k]}
      <3>1. p[k] \in 1 .. Len(s) /\ \A j \in F : j \in 1 .. Len(s)
        BY <1>1, <2>1, Zenon
      <3> QED
        BY <2>1, <3>1
    <2> HIDE DEF A
    <2>4. Cardinality(A \cup {p[k]}) = k - 1 + 1
      BY <2>1, <2>2, <2>3, FS_AddElement
    <2>5. k - 1 + 1 = k
      OBVIOUS
    <2>6. V(p[k]) = Cardinality({j \in F : j <= p[k]})
      BY <1>2, <2>1
    <2> QED
      BY <2>3, <2>4, <2>5, <2>6
  <1>9. \A k \in 1 .. l : ids[k] \in reach
    <2> SUFFICES ASSUME NEW k \in 1 .. l PROVE ids[k] \in reach
      OBVIOUS
    <2>1. V(p[k]) = k /\ p[k] \in DOMAIN s /\ ids[k] = s[p[k]] /\ k <= b
      <3>1. k \in 1 .. c /\ ids[k] = s[p[k]]
        BY <1>7
      <3>2. k <= b
        BY <1>7
      <3> QED
        BY <1>1, <1>4, <1>8, <3>1, <3>2
    <2> QED
      BY <2>1 DEF reach
  <1>10. ASSUME NEW i \in DOMAIN s, V(i) <= b
         PROVE  \E k \in 1 .. l : ids[k] = s[i]
    <2>1. PICK j \in F : j <= i /\ s[j] = s[i]
      BY <1>1
    <2>2. PICK k \in 1 .. c : p[k] = j
      BY <1>4
    <2>3. k <= b
      <3> DEFINE X == {s[h] : h \in 1 .. j}
                 Y == {s[h] : h \in 1 .. i}
      <3>1. i \in 1 .. Len(s) /\ j \in 1 .. Len(s) /\ X \in SUBSET Y
        <4>1. i \in 1 .. Len(s) /\ j \in 1 .. Len(s)
          BY <1>1, <2>1
        <4>2. \A h \in 1 .. j : h \in 1 .. i
          BY <2>1, <4>1
        <4> QED
          BY <4>1, <4>2
      <3>2. IsFiniteSet(Y) /\ IsFiniteSet(X)
        BY <1>2, <3>1
      <3> HIDE DEF X, Y
      <3>3. Cardinality(X) <= Cardinality(Y) /\ Cardinality(X) \in Nat /\ Cardinality(Y) \in Nat
        BY <3>1, <3>2, FS_Subset, FS_CardinalityType
      <3>4. Cardinality(X) = V(j) /\ Cardinality(Y) = V(i)
        BY DEF X, Y, V
      <3>5. V(j) = k
        BY <1>8, <2>2
      <3> QED
        BY <1>10, <3>3, <3>4, <3>5
    <2>4. k \in 1 .. l
      BY <1>4, <2>3 DEF l
    <2> QED
      BY <1>7, <2>1, <2>2, <2>4
  <1>11. {ids[k] : k \in DOMAIN ids} = reach
    <2>1. \A x \in reach : \E k \in 1 .. l : ids[k] = x
      BY <1>10 DEF reach
    <2>2. DOMAIN ids = 1 .. l
      BY <1>7
    <2> QED
      BY <1>9, <2>1, <2>2
  <1>12. Cardinality(reach) = l
    <2>1. l \in Nat /\ IsFiniteSet(1 .. l) /\ Cardinality(1 .. l) = l
      <3>1. l \in Nat
        BY <1>7
      <3> QED
        BY <3>1, FS_Interval
    <2>2. \A k, m \in 1 .. l : ids[k] = ids[m] => k = m
      <3> SUFFICES ASSUME NEW k \in 1 .. l, NEW m \in 1 .. l, ids[k] = ids[m] PROVE k = m
        OBVIOUS
      <3>1. k \in 1 .. c /\ m \in 1 .. c /\ p[k] = p[m]
        <4>1. k \in 1 .. c /\ m \in 1 .. c /\ ids[k] = s[p[k]] /\ ids[m] = s[p[m]]
          BY <1>7
        <4>2. p[k] \in F /\ p[m] \in F
          BY <1>4, <4>1
        <4>3. s[p[k]] = s[p[m]]
          BY <4>1
        <4> QED
          BY <1>1, <4>1, <4>2, <4>3, Zenon
      <3> QED
        BY <1>8, <3>1
    <2> DEFINE f == [k \in 1 .. l |-> ids[k]]
    <2>3. \A x \in reach : \E k \in 1 .. l : ids[k] = x
      BY <1>7, <1>11
    <2>4. f \in Bijection(1 .. l, reach)
      BY <1>9, <2>2, <2>3 DEF Bijection, Injection, Surjection, IsInjective
    <2>5. ExistsBijection(1 .. l, reach)
      BY <2>4, Zenon DEF ExistsBijection
    <2> QED
      BY <2>1, <2>5, FS_Bijection
  <1> QED
    BY <1>7, <1>11, <1>12 DEF ids, V, reach

RowsOf(rows) == {rows[i] : i \in DOMAIN rows}

\* Who is in a table, is there once.
LEMMA TableRows ==
    ASSUME NEW rows, Engine!IsTable(rows)
    PROVE  /\ Engine!Range(rows) = RowsOf(rows) /\ RowsOf(rows) \subseteq Engine!Rows
           /\ IsFiniteSet(RowsOf(rows))
           /\ \A m, n \in RowsOf(rows) : m.id = n.id => m = n
  <1>1. IsFiniteSet(RowsOf(rows))
    BY TableCount DEF RowsOf
  <1>2. /\ \A i \in DOMAIN rows : rows[i] \in Engine!Rows
        /\ \A i, j \in DOMAIN rows : rows[i].id = rows[j].id => i = j
    BY LenProperties, ElementOfSeq DEF Engine!IsTable
  <1>3. \A m, n \in RowsOf(rows) : m.id = n.id => m = n
    BY <1>2 DEF RowsOf
  <1>4. Engine!Range(rows) = RowsOf(rows)
    BY DEF Engine!Range, RowsOf
  <1> QED
    BY <1>1, <1>2, <1>3, <1>4 DEF RowsOf

\* Among memories without an embedding the ORDER BY ranks as the ranker does.
LEMMA PlainOrder ==
    ASSUME NEW q, q.dimension # Engine!None, NEW m \in Engine!Rows, NEW n \in Engine!Rows,
           m.dimension = Engine!None, n.dimension = Engine!None
    PROVE  Engine!Above(Engine!SqlKey(m), Engine!SqlKey(n)) <=> Engine!Beats(m, n, q)
  <1> DEFINE j == Engine!SqlKey(m)
             k == Engine!SqlKey(n)
             v == Engine!RankKey(m, q)
             w == Engine!RankKey(n, q)
  <1>1. /\ DOMAIN j = 1 .. 4 /\ DOMAIN v = 1 .. 5
        /\ j[1] = m.importance /\ j[2] = m.confidence /\ j[3] = m.created /\ j[4] = - m.id
        /\ k[1] = n.importance /\ k[2] = n.confidence /\ k[3] = n.created /\ k[4] = - n.id
        /\ v[1] = m.importance /\ v[2] = j[1] /\ v[3] = j[2] /\ v[4] = j[3] /\ v[5] = j[4]
        /\ w[1] = n.importance /\ w[2] = k[1] /\ w[3] = k[2] /\ w[4] = k[3] /\ w[5] = k[4]
    BY DEF Engine!SqlKey, Engine!RankKey, Engine!Score
  <1>2. Engine!Beats(m, n, q) <=> Engine!Above(v, w)
    BY DEF Engine!Beats
  <1>3. m.importance \in Int /\ n.importance \in Int
    BY DEF Engine!Rows
  <1> HIDE DEF j, k, v, w
  <1>4. Engine!Above(j, k) <=> Engine!Above(v, w)
    BY <1>1, <1>3, AboveOfFour, AboveOfFive
  <1> QED
    BY <1>2, <1>4 DEF j, k

\* The memories without an embedding that a budget of b takes.
Plain(q, rows) == {m \in RowsOf(rows) : Engine!Usable(m, q) /\ m.dimension = Engine!None}
Foremost(q, rows, b) ==
    {m \in Plain(q, rows) : Cardinality({n \in Plain(q, rows) : Engine!Beats(n, m, q)}) < b}

\* They are what _add_unembedded_candidates adds, each once.
LEMMA UnembeddedRows ==
    ASSUME NEW q, q.dimension # Engine!None, NEW rows, Engine!IsTable(rows), NEW b \in Nat
    PROVE  /\ Engine!IsTable(Engine!Unembedded(q, rows, b))
           /\ RowsOf(Engine!Unembedded(q, rows, b)) = Foremost(q, rows, b)
  <1> DEFINE P == Plain(q, rows)
             R == {p \in P \X P : Engine!Above(Engine!SqlKey(p[1]), Engine!SqlKey(p[2]))}
             s == Sorted(P, R)
             u == Engine!Unembedded(q, rows, b)
             c == Cardinality(P)
             l == IF c < b THEN c ELSE b
  <1>1. /\ P \subseteq Engine!Rows /\ IsFiniteSet(P)
        /\ \A m, n \in P : m.id = n.id => m = n
        /\ \A m \in P : m.dimension = Engine!None
    <2>1. P \in SUBSET RowsOf(rows) /\ \A m \in P : m.dimension = Engine!None
      BY DEF Plain
    <2> HIDE DEF P
    <2> QED
      BY <2>1, TableRows, FS_Subset
  <1>2. P = {m \in Engine!Range(rows) : /\ Engine!Filtered(m, q, FALSE)
                                        /\ m.dimension = Engine!None /\ Engine!Eligible(m, q)}
    <2>1. \A m : m.dimension = Engine!None =>
              (Engine!Usable(m, q) <=> Engine!Filtered(m, q, FALSE) /\ Engine!Eligible(m, q))
      BY DEF Engine!Usable, Engine!Mismatch, Engine!Filtered, Engine!Eligible
    <2> QED
      BY <2>1, TableRows DEF Plain
  <1>3. u = Engine!Cut(s, b)
    BY <1>2, EngineSorted DEF Engine!Unembedded
  <1> HIDE DEF P, u
  <1>4. \A m, n \in P : <<m, n>> \in R <=> Engine!Beats(m, n, q)
    BY <1>1, PlainOrder
  <1> HIDE DEF R
  <1>5. Orders(R, P)
    BY <1>1, <1>4, BeatsOrders DEF Orders
  <1>6. /\ c \in Nat /\ s \in Seq(P) /\ DOMAIN s = 1 .. c /\ Len(s) = c
        /\ \A k \in 1 .. c : s[k] \in P /\ Cardinality(Ahead(P, R, s[k])) = k - 1
        /\ \A i, j \in 1 .. c : i < j <=> <<s[i], s[j]>> \in R
        /\ \A x \in P : /\ Cardinality(Ahead(P, R, x)) + 1 \in 1 .. c
                        /\ s[Cardinality(Ahead(P, R, x)) + 1] = x
    BY <1>1, <1>5, SortedPlaces
  <1>7. \A x \in P : Ahead(P, R, x) = {n \in P : Engine!Beats(n, x, q)}
    BY <1>4 DEF Ahead
  <1> HIDE DEF s, c
  <1>8. /\ u \in Seq(P) /\ DOMAIN u = 1 .. l /\ Len(u) = l
        /\ \A k \in 1 .. l : k \in 1 .. c /\ u[k] = s[k]
    <2>1. /\ u \in Seq(P) /\ DOMAIN u = 1 .. Len(u)
          /\ Len(u) = IF Len(s) < b THEN Len(s) ELSE b
          /\ \A k \in 1 .. Len(u) : u[k] = s[k]
      <3>1. s \in Seq(P)
        BY <1>6
      <3> HIDE DEF l
      <3> QED
        BY <1>3, <3>1, CutProperties
    <2>3. Len(u) = l
      BY <2>1, <1>6
    <2>2. \A k \in 1 .. l : k \in 1 .. c
      BY <1>6
    <2> HIDE DEF l
    <2> QED
      BY <2>1, <2>2, <2>3
  <1>9. l \in Nat /\ l <= b /\ \A k \in 1 .. c : k <= b => k \in 1 .. l
    BY <1>6
  <1> HIDE DEF l
  <1>10. Engine!IsTable(u)
    <2>1. \A k \in 1 .. l : u[k] \in P
      BY <1>6, <1>8
    <2>2. ASSUME NEW i \in 1 .. l, NEW j \in 1 .. l, u[i].id = u[j].id
          PROVE  i = j
      <3>1. s[i] = s[j] /\ i \in 1 .. c /\ j \in 1 .. c /\ s[i] \in P
        BY <1>1, <1>6, <1>8, <2>1, <2>2
      <3>2. <<s[i], s[i]>> \notin R
        BY <1>5, <3>1 DEF Orders
      <3>3. ~ (i < j) /\ ~ (j < i)
        BY <1>6, <3>1, <3>2
      <3> QED
        BY <3>1, <3>3
    <2>3. u \in Seq(Engine!Rows)
      BY <1>1, <1>8, <1>9, <2>1
    <2> QED
      BY <1>8, <2>2, <2>3 DEF Engine!IsTable
  <1>11. RowsOf(u) = Foremost(q, rows, b)
    <2>1. ASSUME NEW k \in 1 .. l
          PROVE  u[k] \in Foremost(q, rows, b)
      <3>1. k \in 1 .. c /\ u[k] = s[k] /\ s[k] \in P /\ k - 1 < b
        BY <1>6, <1>8, <1>9
      <3>2. Cardinality({n \in P : Engine!Beats(n, s[k], q)}) = k - 1
        BY <1>6, <1>7, <3>1
      <3> QED
        BY <3>1, <3>2 DEF Foremost, P
    <2>2. ASSUME NEW m \in Foremost(q, rows, b)
          PROVE  \E k \in 1 .. l : u[k] = m
      <3>1. m \in P /\ Cardinality({n \in P : Engine!Beats(n, m, q)}) < b
        BY DEF Foremost, P
      <3> DEFINE k == Cardinality(Ahead(P, R, m)) + 1
      <3>2. k \in 1 .. c /\ s[k] = m /\ Cardinality(Ahead(P, R, m)) < b
        BY <1>6, <1>7, <3>1
      <3>3. k <= b
        BY <1>6, <3>2
      <3> HIDE DEF k
      <3> QED
        BY <1>8, <1>9, <3>2, <3>3
    <2> QED
      BY <1>8, <2>1, <2>2 DEF RowsOf
  <1> QED
    BY <1>10, <1>11 DEF u

\* The rows that the ids of the index load: those in its reach that are usable.
Reached(s, b) == {s[i] : i \in {j \in DOMAIN s : Cardinality({s[h] : h \in 1 .. j}) <= b}}
Indexed(q, rows, s, b) == {m \in RowsOf(rows) : Engine!Usable(m, q) /\ m.id \in Reached(s, b)}

\* Two tables without a row in common are one table, one after the other.
LEMMA JoinedTables ==
    ASSUME NEW t, Engine!IsTable(t), NEW u, Engine!IsTable(u),
           \A m \in RowsOf(t), n \in RowsOf(u) : m.id # n.id
    PROVE  Engine!IsTable(t \o u) /\ RowsOf(t \o u) = RowsOf(t) \cup RowsOf(u)
  <1>1. /\ t \in Seq(Engine!Rows) /\ u \in Seq(Engine!Rows)
        /\ \A i, j \in DOMAIN t : t[i].id = t[j].id => i = j
        /\ \A i, j \in DOMAIN u : u[i].id = u[j].id => i = j
    BY DEF Engine!IsTable
  <1>2. /\ Len(t) \in Nat /\ Len(u) \in Nat
        /\ DOMAIN t = 1 .. Len(t) /\ DOMAIN u = 1 .. Len(u)
    BY <1>1, LenProperties
  <1> DEFINE v == t \o u
  <1>3. /\ v \in Seq(Engine!Rows) /\ DOMAIN v = 1 .. Len(t) + Len(u)
        /\ \A i \in 1 .. Len(t) + Len(u) :
              v[i] = IF i <= Len(t) THEN t[i] ELSE u[i - Len(t)]
    <2>1. /\ v \in Seq(Engine!Rows) /\ Len(v) = Len(t) + Len(u)
          /\ \A i \in 1 .. Len(t) + Len(u) :
                v[i] = IF i <= Len(t) THEN t[i] ELSE u[i - Len(t)]
      BY <1>1, ConcatProperties
    <2> HIDE DEF v
    <2> QED
      BY <2>1, LenProperties
  <1> HIDE DEF v
  <1>4. /\ \A i \in DOMAIN t : i \in DOMAIN v /\ v[i] = t[i]
        /\ \A i \in DOMAIN u : i + Len(t) \in DOMAIN v /\ v[i + Len(t)] = u[i]
        /\ \A i \in DOMAIN v : \/ i \in DOMAIN t /\ v[i] = t[i]
                               \/ i - Len(t) \in DOMAIN u /\ v[i] = u[i - Len(t)]
    <2>1. ASSUME NEW i \in DOMAIN u
          PROVE  i + Len(t) \in DOMAIN v /\ v[i + Len(t)] = u[i]
      <3>1. i + Len(t) \in 1 .. Len(t) + Len(u) /\ ~ (i + Len(t) <= Len(t))
            /\ i + Len(t) - Len(t) = i
        BY <1>2
      <3> QED
        BY <1>3, <3>1
    <2>2. \A i \in DOMAIN t : i \in DOMAIN v /\ v[i] = t[i]
      BY <1>2, <1>3
    <2>3. \A i \in DOMAIN v : \/ i \in DOMAIN t /\ v[i] = t[i]
                              \/ i - Len(t) \in DOMAIN u /\ v[i] = u[i - Len(t)]
      BY <1>2, <1>3
    <2> QED
      BY <2>1, <2>2, <2>3
  <1>5. RowsOf(v) = RowsOf(t) \cup RowsOf(u)
    <2>1. ASSUME NEW m \in RowsOf(v) PROVE m \in RowsOf(t) \cup RowsOf(u)
      BY <1>4 DEF RowsOf
    <2>2. \A m \in RowsOf(t) : m \in RowsOf(v)
      BY <1>4 DEF RowsOf
    <2>3. \A m \in RowsOf(u) : m \in RowsOf(v)
      <3> SUFFICES ASSUME NEW i \in DOMAIN u PROVE u[i] \in RowsOf(v)
        BY DEF RowsOf
      <3> QED
        BY <1>4 DEF RowsOf
    <2> QED
      BY <2>1, <2>2, <2>3
  <1>6. ASSUME NEW i \in DOMAIN v, NEW j \in DOMAIN v, v[i].id = v[j].id
        PROVE  i = j
    <2>1. /\ \A k \in DOMAIN t : t[k] \in RowsOf(t)
          /\ \A k \in DOMAIN u : u[k] \in RowsOf(u)
      BY DEF RowsOf
    <2>2. i \in Int /\ j \in Int
      BY <1>2, <1>3
    <2>3. CASE i \in DOMAIN t /\ v[i] = t[i] /\ j \in DOMAIN t /\ v[j] = t[j]
      BY <1>1, <1>6, <2>3
    <2>4. CASE /\ i - Len(t) \in DOMAIN u /\ v[i] = u[i - Len(t)]
               /\ j - Len(t) \in DOMAIN u /\ v[j] = u[j - Len(t)]
      <3>1. i - Len(t) = j - Len(t)
        BY <1>1, <1>6, <2>4
      <3> QED
        BY <1>2, <2>2, <3>1
    <2>5. CASE /\ i \in DOMAIN t /\ v[i] = t[i]
               /\ j - Len(t) \in DOMAIN u /\ v[j] = u[j - Len(t)]
      BY <1>6, <2>1, <2>5
    <2>6. CASE /\ j \in DOMAIN t /\ v[j] = t[j]
               /\ i - Len(t) \in DOMAIN u /\ v[i] = u[i - Len(t)]
      BY <1>6, <2>1, <2>6
    <2> QED
      BY <1>4, <2>3, <2>4, <2>5, <2>6
  <1> QED
    BY <1>3, <1>5, <1>6 DEF Engine!IsTable, v

\* The path with candidates.
LEMMA IndexedIsExact ==
    ASSUME NEW q, q.limit \in Nat, q.dimension # Engine!None, NEW rows, Engine!IsTable(rows),
           NEW s \in Seq(Nat), Engine!OfEmbedded(s, rows), NEW b \in Nat
    PROVE  Exact(q, Engine!RankIndexed(q, rows, s, b),
                 Indexed(q, rows, s, b)
                    \cup Foremost(q, rows, b - Cardinality(Reached(s, b))))
  <1> DEFINE ids == Engine!Loaded(s, b)
             left == b - Len(ids)
             S == {i \in DOMAIN rows : /\ rows[i].id \in Engine!Range(ids)
                                       /\ Engine!Usable(rows[i], q)}
             t == Engine!InOrder(rows, S)
             u == Engine!Unembedded(q, rows, left)
  <1>1. /\ Engine!Range(ids) = Reached(s, b) /\ Cardinality(Reached(s, b)) = Len(ids)
        /\ Len(ids) \in 0 .. b
    BY LoadedIds DEF Reached, Engine!Range
  <1>2. left \in Nat /\ left = b - Cardinality(Reached(s, b))
    <2> HIDE DEF ids
    <2> QED
      BY <1>1
  <1>3. Engine!RankIndexed(q, rows, s, b) = Engine!RankMemories(q, t \o u)
    BY DEF Engine!RankIndexed
  <1>4. S \in SUBSET (DOMAIN rows) /\ {rows[i] : i \in S} = Indexed(q, rows, s, b)
    BY <1>1 DEF Indexed, RowsOf
  <1>5. \A i \in DOMAIN s : \A m \in RowsOf(rows) : m.id = s[i] => m.dimension # Engine!None
    BY TableRows DEF Engine!OfEmbedded
  <1> HIDE DEF ids, left, S
  <1>6. /\ Engine!IsTable(t)
        /\ \A k \in DOMAIN t : \E i \in S : t[k] = rows[i]
        /\ \A i \in S : \E k \in DOMAIN t : t[k] = rows[i]
    BY <1>4, SelectedRows
  <1>7. Engine!IsTable(u) /\ RowsOf(u) = Foremost(q, rows, left)
    BY <1>2, UnembeddedRows
  <1> HIDE DEF t, u
  <1>8. RowsOf(t) = Indexed(q, rows, s, b)
    <2>1. RowsOf(t) = {rows[i] : i \in S}
      BY <1>6 DEF RowsOf
    <2> QED
      BY <1>4, <2>1
  <1>9. \A m \in RowsOf(t), n \in RowsOf(u) : m.id # n.id
    <2> SUFFICES ASSUME NEW m \in RowsOf(t), NEW n \in RowsOf(u), m.id = n.id
                 PROVE  FALSE
      OBVIOUS
    <2>1. m \in RowsOf(rows) /\ m.id \in Reached(s, b)
      BY <1>8 DEF Indexed
    <2>2. n \in RowsOf(rows) /\ n.dimension = Engine!None
      BY <1>7 DEF Foremost, Plain
    <2>3. PICK i \in DOMAIN s : m.id = s[i]
      BY <2>1 DEF Reached
    <2> QED
      BY <1>5, <2>2, <2>3
  <1>10. Engine!IsTable(t \o u) /\ RowsOf(t \o u) = RowsOf(t) \cup RowsOf(u)
    BY <1>6, <1>7, <1>9, JoinedTables
  <1>11. Exact(q, Engine!RankMemories(q, t \o u), RowsOf(t) \cup RowsOf(u))
    BY <1>10, RankedIsExact DEF RowsOf
  <1> QED
    BY <1>2, <1>3, <1>7, <1>8, <1>11

\* Exact is what the run checks of a search.
LEMMA ExactSearches ==
    ASSUME NEW q, NEW rows, NEW s, NEW b,
           Exact(q, Engine!Search(q, rows, s, b), Engine!InReach(q, rows, s, b))
    PROVE  Engine!SearchIsExact(q, rows, s, b)
  <1> DEFINE found == Engine!Search(q, rows, s, b)
             reach == Engine!InReach(q, rows, s, b)
             F == {found[k] : k \in DOMAIN found}
  <1>1. Engine!Range(found) = F
    BY DEF Engine!Range
  <1>2. Engine!Cardinality(reach) = Cardinality(reach)
    BY DEF Engine!Cardinality, Cardinality
  <1>3. Exact(q, found, reach)
    OBVIOUS
  <1> HIDE DEF reach, found
  <1>4. /\ F \subseteq reach
        /\ \A i, j \in DOMAIN found : i < j => Engine!Beats(found[i], found[j], q)
        /\ Len(found) = IF Cardinality(reach) < q.limit THEN Cardinality(reach) ELSE q.limit
        /\ \A m \in F, n \in reach \ F : ~ Engine!Beats(n, m, q)
    BY <1>3 DEF Exact
  <1> HIDE DEF F
  <1> QED
    BY <1>1, <1>2, <1>4 DEF Engine!SearchIsExact, found, reach

\* What is in reach of a search, by its path.
LEMMA ReachOfSearch ==
    ASSUME NEW q, NEW rows, Engine!IsTable(rows), NEW s, NEW b
    PROVE  Engine!InReach(q, rows, s, b) =
              IF q.dimension = Engine!None \/ s = Engine!NoCandidates
              THEN {m \in RowsOf(rows) : /\ Engine!Filtered(m, q, q.dimension = Engine!None)
                                         /\ Engine!Usable(m, q)}
              ELSE Indexed(q, rows, s, b)
                      \cup Foremost(q, rows, b - Cardinality(Reached(s, b)))
  <1>1. /\ \A m : Engine!Usable(m, q) => Engine!Filtered(m, q, FALSE)
        /\ \A m : Engine!Usable(m, q) =>
                     (Engine!Filtered(m, q, TRUE) <=> q.text \in {"", m.text})
    BY DEF Engine!Usable, Engine!Eligible, Engine!Filtered
  <1>2. Engine!Range(rows) = RowsOf(rows)
    BY TableRows
  <1>3. \A S : Engine!Cardinality(S) = Cardinality(S)
    BY DEF Engine!Cardinality, Cardinality
  <1>4. CASE q.dimension = Engine!None
    BY <1>1, <1>2, <1>4 DEF Engine!InReach
  <1>5. CASE q.dimension # Engine!None /\ s = Engine!NoCandidates
    <2>1. Engine!InReach(q, rows, s, b) = {m \in RowsOf(rows) : Engine!Usable(m, q)}
      BY <1>2, <1>5 DEF Engine!InReach
    <2>2. (q.dimension = Engine!None) = FALSE
      BY <1>5
    <2> QED
      BY <1>1, <1>5, <2>1, <2>2
  <1>6. CASE q.dimension # Engine!None /\ s # Engine!NoCandidates
    <2> DEFINE usable == {m \in RowsOf(rows) : Engine!Usable(m, q)}
               plain == {m \in usable : m.dimension = Engine!None}
               ids == {s[i] : i \in {j \in DOMAIN s :
                          Engine!Cardinality({s[h] : h \in 1 .. j}) <= b}}
    <2>1. Engine!InReach(q, rows, s, b) =
             {m \in usable : m.id \in ids}
             \cup {m \in plain : Engine!Cardinality({n \in plain : Engine!Beats(n, m, q)})
                                    < b - Engine!Cardinality(ids)}
      BY <1>2, <1>6 DEF Engine!InReach
    <2>2. plain = Plain(q, rows)
      BY DEF Plain
    <2>3. ids = Reached(s, b)
      BY <1>3 DEF Reached
    <2>4. {m \in usable : m.id \in Reached(s, b)} = Indexed(q, rows, s, b)
      BY DEF Indexed
    <2> HIDE DEF plain, ids, usable
    <2> QED
      BY <1>3, <1>6, <2>1, <2>2, <2>3, <2>4 DEF Foremost
  <1> QED
    BY <1>4, <1>5, <1>6

\* A limit of 0 asks for nothing.
LEMMA NothingIsExact ==
    ASSUME NEW q, q.limit = 0, NEW reach, IsFiniteSet(reach)
    PROVE  Exact(q, <<>>, reach)
  <1>1. Cardinality(reach) \in Nat
    BY FS_CardinalityType
  <1>2. DOMAIN << >> = {} /\ Len(<< >>) = 0
    OBVIOUS
  <1> QED
    BY <1>1, <1>2 DEF Exact

\* A search returns the best of its reach, whichever path it takes.
LEMMA SearchExact ==
    ASSUME NEW q \in Engine!RetrievalQueries, NEW rows, Engine!IsTable(rows), NEW s \in Seq(Nat),
           s # Engine!NoCandidates => Engine!OfEmbedded(s, rows), NEW b \in Nat
    PROVE  Exact(q, Engine!Search(q, rows, s, b), Engine!InReach(q, rows, s, b))
  <1> DEFINE reach == Engine!InReach(q, rows, s, b)
  <1>1. q.limit \in Nat
    BY DEF Engine!RetrievalQueries
  <1>2. CASE q.limit = 0
    <2>1. reach \subseteq RowsOf(rows)
      <3>1. /\ Indexed(q, rows, s, b) \subseteq RowsOf(rows)
            /\ \A n : Foremost(q, rows, n) \subseteq RowsOf(rows)
        BY DEF Indexed, Foremost, Plain
      <3>2. \/ reach = {m \in RowsOf(rows) : /\ Engine!Filtered(m, q, q.dimension = Engine!None)
                                            /\ Engine!Usable(m, q)}
            \/ reach = Indexed(q, rows, s, b)
                          \cup Foremost(q, rows, b - Cardinality(Reached(s, b)))
        BY ReachOfSearch
      <3> HIDE DEF reach
      <3> QED
        BY <3>1, <3>2
    <2> HIDE DEF reach
    <2>2. IsFiniteSet(reach)
      BY <2>1, TableRows, FS_Subset
    <2>3. Engine!Search(q, rows, s, b) = <<>>
      BY <1>2 DEF Engine!Search
    <2> QED
      BY <1>2, <2>2, <2>3, NothingIsExact DEF reach
  <1>3. CASE q.limit # 0 /\ (q.dimension = Engine!None \/ s = Engine!NoCandidates)
    <2>1. Engine!Search(q, rows, s, b) = Engine!StreamExact(q, rows)
      BY <1>3 DEF Engine!Search
    <2> QED
      BY <1>1, <1>3, <2>1, StreamIsExact, ReachOfSearch DEF RowsOf
  <1>4. CASE q.limit # 0 /\ q.dimension # Engine!None /\ s # Engine!NoCandidates
    <2>1. Engine!Search(q, rows, s, b) = Engine!RankIndexed(q, rows, s, b)
      BY <1>4 DEF Engine!Search
    <2> QED
      BY <1>1, <1>4, <2>1, IndexedIsExact, ReachOfSearch
  <1> QED
    BY <1>2, <1>3, <1>4

\* What a search cannot compare it reports.
LEMMA OmissionsReported ==
    ASSUME NEW q, NEW rows, NEW s, NEW b
    PROVE  Engine!OmissionsAreReported(q, rows, s, b)
  <1>1. \A m : Engine!Eligible(m, q) => Engine!Filtered(m, q, FALSE)
    BY DEF Engine!Eligible, Engine!Filtered
  <1>2. \A m : Engine!Eligible(m, q) /\ ~ Engine!Usable(m, q) => Engine!Mismatch(m, q)
    BY DEF Engine!Usable
  <1>3. ASSUME q.limit > 0, q.dimension # Engine!None, NEW m \in Engine!Range(rows),
               Engine!Eligible(m, q), ~ Engine!Usable(m, q)
        PROVE  m \in Engine!Diagnosed(q, rows, s, b)
    <2>1. q.limit # 0
      BY <1>3
    <2> QED
      BY <1>1, <1>2, <1>3, <2>1 DEF Engine!Diagnosed
  <1> QED
    BY <1>3 DEF Engine!OmissionsAreReported

\* Whatever the table, the query and the candidates, a search returns the
\* best of what is in its reach, and reports every memory it could not compare
\* (RetrievalEngine.search).
THEOREM SearchesAreExactAlways == Spec => []SearchesAreExact
  <1>1. ASSUME NEW x \in Queries
        PROVE  /\ Engine!SearchIsExact(x.query, x.rows, x.candidates, x.budget)
               /\ Engine!OmissionsAreReported(x.query, x.rows, x.candidates, x.budget)
    <2>1. /\ x.query \in Engine!RetrievalQueries /\ x.budget \in Nat
          /\ Engine!IsTable(x.rows) /\ x.candidates \in Seq(Nat)
          /\ x.candidates # Engine!NoCandidates => Engine!OfEmbedded(x.candidates, x.rows)
      BY QueriesOfTables DEF QueriesOfTables
    <2> QED
      BY <2>1, SearchExact, ExactSearches, OmissionsReported
  <1>2. InUse => SearchesAreExact
    BY <1>1 DEF SearchesAreExact, InUse
  <1> QED
    BY <1>2, UsedAlways, PTL

-----------------------------------------------------------------------------
\* Steps from a over 1 .. n make a function that has every value on the way.
Iterates(a, G, n, X, f) ==
    /\ f \in [0 .. n -> X] /\ f[0] = a
    /\ \A i \in 1 .. n : f[i] = G[<<i, f[i - 1]>>]

\* Such steps can be taken (a loop over a list).
LEMMA IterationExists ==
    ASSUME NEW n \in Nat, NEW X, NEW a \in X, NEW G \in [(1 .. n) \X X -> X]
    PROVE  \E f : Iterates(a, G, n, X, f)
  <1> DEFINE A == {k \in 0 .. n : \E f : Iterates(a, G, k, X, f)}
  <1>1. 0 \in A
    <2> DEFINE f == [i \in 0 .. 0 |-> a]
    <2>1. f \in [0 .. 0 -> X] /\ f[0] = a /\ 1 .. 0 = {}
      OBVIOUS
    <2> HIDE DEF f
    <2>2. Iterates(a, G, 0, X, f)
      BY <2>1 DEF Iterates
    <2> QED
      BY <2>2
  <1>2. ASSUME NEW k \in A, k < n
        PROVE  k + 1 \in A
    <2>1. PICK g : Iterates(a, G, k, X, g)
      OBVIOUS
    <2>2. k \in Nat /\ k + 1 \in 0 .. n /\ k + 1 \in 1 .. n
      BY <1>2
    <2>3. g \in [0 .. k -> X] /\ g[0] = a /\ \A i \in 1 .. k : g[i] = G[<<i, g[i - 1]>>]
      BY <2>1 DEF Iterates
    <2> DEFINE v == G[<<k + 1, g[k]>>]
               f == [i \in 0 .. k + 1 |-> IF i = k + 1 THEN v ELSE g[i]]
    <2>4. v \in X
      <3>1. k \in 0 .. k
        BY <2>2
      <3>2. g[k] \in X
        BY <2>3, <3>1
      <3>3. <<k + 1, g[k]>> \in (1 .. n) \X X
        BY <2>2, <3>2
      <3> HIDE DEF A
      <3> QED
        BY <3>3
    <2>5. /\ f[k + 1] = v /\ \A i \in 0 .. k : f[i] = g[i] /\ g[i] \in X
          /\ 0 .. k + 1 = (0 .. k) \cup {k + 1}
      <3> HIDE DEF v, A
      <3> QED
        BY <2>2, <2>3
    <2>6. f \in [0 .. k + 1 -> X]
      <3> HIDE DEF v, A
      <3> QED
        BY <2>4, <2>5
    <2>7. \A i \in 1 .. k + 1 : f[i] = G[<<i, f[i - 1]>>]
      <3> SUFFICES ASSUME NEW i \in 1 .. k + 1 PROVE f[i] = G[<<i, f[i - 1]>>]
        OBVIOUS
      <3> HIDE DEF f, A
      <3>1. CASE i = k + 1
        <4>1. f[i - 1] = g[k] /\ f[i] = v
          BY <2>2, <2>5, <3>1
        <4> QED
          BY <3>1, <4>1
      <3>2. CASE i # k + 1
        <4>1. i \in 1 .. k /\ i \in 0 .. k /\ i - 1 \in 0 .. k
          BY <2>2, <3>2
        <4> QED
          BY <2>3, <2>5, <4>1
      <3> QED
        BY <3>1, <3>2
    <2>8. f[0] = a
      BY <2>2, <2>3, <2>5
    <2> HIDE DEF f
    <2>9. Iterates(a, G, k + 1, X, f)
      BY <2>6, <2>7, <2>8 DEF Iterates
    <2> QED
      BY <2>2, <2>9
  <1>3. n \in A
    <2>1. A \in SUBSET (0 .. n)
      OBVIOUS
    <2> HIDE DEF A
    <2> QED
      BY <1>1, <1>2, <2>1, UpToN
  <1> QED
    BY <1>3
-----------------------------------------------------------------------------
\* The joined texts of the first i of s.
Joins(s, f) ==
    /\ f[0] = <<>>
    /\ \A i \in 1 .. Len(s) : f[i] = f[i - 1] \o s[i]

\* Texts one after the other.
LEMMA FlattenJoins ==
    ASSUME NEW T, NEW s \in Seq(Seq(T))
    PROVE  \E f \in [0 .. Len(s) -> Seq(T)] :
              Joins(s, f) /\ Builder!FlattenSeq(s) = f[Len(s)]
  <1> DEFINE n == Len(s)
             X == Seq(T)
             G == [p \in (1 .. n) \X X |-> p[2] \o s[p[1]]]
  <1>1. n \in Nat /\ <<>> \in X /\ \A i \in 1 .. n : s[i] \in X
    BY LenProperties, ElementOfSeq
  <1>2. G \in [(1 .. n) \X X -> X]
    <2>1. \A p \in (1 .. n) \X X : p[2] \o s[p[1]] \in X
      <3> SUFFICES ASSUME NEW i \in 1 .. n, NEW x \in X PROVE x \o s[i] \in X
        OBVIOUS
      <3>1. s[i] \in Seq(T)
        BY <1>1
      <3> QED
        BY <3>1, ConcatProperties
    <2> HIDE DEF X, n
    <2> QED
      BY <2>1
  <1>3. PICK f : Iterates(<<>>, G, n, X, f)
    <2> HIDE DEF G, X, n
    <2> QED
      BY <1>1, <1>2, IterationExists
  <1>4. f \in [0 .. n -> X] /\ f[0] = <<>> /\ \A i \in 1 .. n : f[i] = f[i - 1] \o s[i]
    <2>1. f \in [0 .. n -> X] /\ f[0] = <<>> /\ \A i \in 1 .. n : f[i] = G[<<i, f[i - 1]>>]
      BY <1>3, Zenon DEF Iterates
    <2> HIDE DEF X, n
    <2>2. \A i \in 1 .. n : <<i, f[i - 1]>> \in (1 .. n) \X X
      <3>1. \A i \in 1 .. n : i - 1 \in 0 .. n
        BY <1>1
      <3> QED
        BY <2>1, <3>1
    <2> QED
      BY <2>1, <2>2
  <1>5. Joins(s, f)
    BY <1>4 DEF Joins
  <1>6. CASE n = 0
    <2>1. Builder!FlattenSeq(s) = s
      BY <1>6 DEF Builder!FlattenSeq
    <2>2. s = <<>>
      BY <1>6
    <2> QED
      BY <1>4, <1>5, <1>6, <2>1, <2>2
  <1>7. CASE n # 0
    <2> DEFINE E(g, i) == IF i = 1 THEN s[i] ELSE g[i - 1] \o s[i]
               h == CHOOSE g : g = [i \in 1 .. n |-> E(g, i)]
               F == [i \in 1 .. n |-> f[i]]
    <2>1. Builder!FlattenSeq(s) = h[n]
      BY <1>7 DEF Builder!FlattenSeq
    <2>2. F = [i \in 1 .. n |-> E(F, i)]
      <3>1. \A i \in 1 .. n : f[i] = E(F, i)
        <4> SUFFICES ASSUME NEW i \in 1 .. n PROVE f[i] = E(F, i)
          OBVIOUS
        <4>1. CASE i = 1
          <5>3. f[i] = f[i - 1] \o s[i] /\ s[i] \in Seq(T) /\ f[0] = <<>>
            BY <1>1, <1>4
          <5>4. i - 1 = 0
            BY <4>1
          <5>1. f[i] = <<>> \o s[i] /\ s[i] \in Seq(T)
            BY <5>3, <5>4, Zenon
          <5>2. <<>> \o s[i] = s[i]
            BY <5>1, ConcatEmptySeq
          <5> QED
            BY <4>1, <5>1, <5>2
        <4>2. CASE i # 1
          <5>1. i - 1 \in 1 .. n
            BY <1>1, <4>2
          <5>2. F[i - 1] = f[i - 1]
            BY <5>1
          <5>3. f[i] = f[i - 1] \o s[i]
            BY <1>4
          <5> HIDE DEF F
          <5> QED
            BY <4>2, <5>2, <5>3
        <4> QED
          BY <4>1, <4>2
      <3> DEFINE v(i) == E(F, i)
      <3>2. \A i \in 1 .. n : f[i] = v(i)
        BY <3>1
      <3> HIDE DEF v
      <3>3. F = [i \in 1 .. n |-> v(i)]
        BY <3>2
      <3> QED
        BY <3>3 DEF v
    <2> HIDE DEF F, E
    <2>3. h = [i \in 1 .. n |-> E(h, i)]
      BY <2>2, Zenon
    <2> HIDE DEF h
    <2> DEFINE B == {i \in 0 .. n : i = 0 \/ h[i] = f[i]}
    <2>4. \A i \in 1 .. n : h[i] = IF i = 1 THEN s[i] ELSE h[i - 1] \o s[i]
      <3> DEFINE v(i) == E(h, i)
      <3>1. h = [i \in 1 .. n |-> v(i)]
        BY <2>3
      <3> HIDE DEF v
      <3>2. \A i \in 1 .. n : h[i] = v(i)
        BY <3>1
      <3> QED
        BY <3>2 DEF v, E
    <2>5. ASSUME NEW i \in B, i < n
          PROVE  i + 1 \in B
      <3>1. i + 1 \in 1 .. n /\ i + 1 \in 0 .. n /\ i + 1 - 1 = i
        BY <1>1, <2>5
      <3>2. CASE i = 0
        <4>3. 1 \in 1 .. n /\ 1 - 1 = 0
          BY <3>1, <3>2
        <4>1. h[1] = s[1] /\ f[1] = <<>> \o s[1] /\ s[1] \in Seq(T)
          BY <1>1, <1>4, <2>4, <4>3
        <4>2. <<>> \o s[1] = s[1]
          BY <4>1, ConcatEmptySeq
        <4> QED
          BY <3>1, <3>2, <4>1, <4>2
      <3>3. CASE i # 0
        <4>1. i + 1 # 1 /\ h[i] = f[i]
          BY <2>5, <3>3
        <4> DEFINE j == i + 1
        <4>3. j \in 1 .. n /\ j # 1 /\ j - 1 = i
          BY <3>1, <4>1
        <4> HIDE DEF j
        <4>4. h[j] = h[j - 1] \o s[j] /\ f[j] = f[j - 1] \o s[j]
          BY <1>4, <2>4, <4>3, Zenon
        <4>2. h[i + 1] = h[i] \o s[i + 1] /\ f[i + 1] = f[i] \o s[i + 1]
          BY <4>3, <4>4 DEF j
        <4> QED
          BY <3>1, <4>1, <4>2
      <3> QED
        BY <3>2, <3>3
    <2>6. n \in B
      <3>1. 0 \in B /\ B \in SUBSET (0 .. n)
        BY <1>1
      <3> HIDE DEF B, n
      <3> QED
        BY <1>1, <2>5, <3>1, UpToN
    <2>7. h[n] = f[n]
      BY <1>7, <2>6
    <2> QED
      BY <1>4, <1>5, <2>1, <2>7
  <1> QED
    BY <1>6, <1>7

\* A position after all of S comes last.
LEMMA InOrderAppends ==
    ASSUME NEW M, NEW s \in Seq(M), NEW S, NEW i \in 1 .. Len(s), S \in SUBSET (1 .. i - 1)
    PROVE  /\ InOrder(s, S) \in Seq(M)
           /\ InOrder(s, S \cup {i}) = Append(InOrder(s, S), s[i])
  <1> DEFINE n == Len(s)
             T == S \cup {i}
             c == Cardinality(S)
             d == Cardinality(T)
  <1>1. /\ n \in Nat /\ i \in Nat /\ S \in SUBSET (1 .. n) /\ T \in SUBSET (1 .. n) /\ i \notin S
        /\ \A j \in S : j < i /\ j \in Nat
        /\ \A j \in 1 .. n : s[j] \in M
    BY LenProperties, ElementOfSeq
  <1>2. PICK p : Lists(s, S, p)
    <2> HIDE DEF T, c, d
    <2> QED
      BY <1>1, InOrderLists
  <1>3. PICK r : Lists(s, T, r)
    <2> HIDE DEF T, c, d
    <2> QED
      BY <1>1, InOrderLists
  <1>4. /\ c \in Nat /\ InOrder(s, S) = [k \in 1 .. c |-> s[p[k]]]
        /\ \A k \in 1 .. c : p[k] \in S /\ Cardinality({x \in S : x < p[k]}) = k - 1
        /\ \A x \in S : \E k \in 1 .. c : p[k] = x
    BY <1>2, Zenon DEF Lists
  <1>5. /\ d \in Nat /\ InOrder(s, T) = [k \in 1 .. d |-> s[r[k]]]
        /\ \A k \in 1 .. d : r[k] \in T /\ Cardinality({x \in T : x < r[k]}) = k - 1
        /\ \A x \in T : \E k \in 1 .. d : r[k] = x
    BY <1>3, Zenon DEF Lists
  <1>6. d = c + 1
    <2>1. IsFiniteSet(1 .. n)
      BY <1>1, FS_Interval
    <2>2. IsFiniteSet(S)
      <3> HIDE DEF n
      <3> QED
        BY <1>1, <2>1, FS_Subset
    <2> QED
      BY <1>1, <2>2, FS_AddElement
  <1>7. {x \in T : x < i} = S
    <2>1. ~ (i < i) /\ \A j \in S : j < i
      BY <1>1
    <2> HIDE DEF n, c, d
    <2> QED
      BY <2>1
  <1>8. \A j \in S : {x \in T : x < j} = {x \in S : x < j}
    <2> SUFFICES ASSUME NEW j \in S PROVE {x \in T : x < j} = {x \in S : x < j}
      OBVIOUS
    <2>1. ~ (i < j)
      <3>1. i \in Nat /\ j \in Nat /\ j < i
        BY <1>1
      <3> QED
        BY <3>1
    <2> QED
      BY <2>1
  <1>9. i \in T /\ \A x \in T : x = i \/ x \in S
    OBVIOUS
  <1> HIDE DEF T, c, d, n
  <1>10. r[c + 1] = i
    <2>1. PICK k \in 1 .. d : r[k] = i
      BY <1>5, <1>9
    <2>2. Cardinality({x \in T : x < i}) = k - 1
      BY <1>5, <2>1, Zenon
    <2>3. c = k - 1
      BY <1>7, <2>2 DEF c
    <2> QED
      BY <1>4, <2>1, <2>3
  <1>11. ASSUME NEW k \in 1 .. c
         PROVE  r[k] = p[k]
    <2>1. k \in 1 .. d /\ k # c + 1
      BY <1>4, <1>6
    <2>2. r[k] \in T /\ Cardinality({x \in T : x < r[k]}) = k - 1
      BY <1>5, <2>1
    <2>3. r[k] # i
      <3> SUFFICES ASSUME r[k] = i PROVE FALSE
        OBVIOUS
      <3>1. Cardinality(S) = k - 1
        BY <1>7, <2>2
      <3> QED
        BY <1>4, <3>1 DEF c
    <2>4. r[k] \in S /\ {x \in T : x < r[k]} = {x \in S : x < r[k]}
      BY <1>8, <1>9, <2>2, <2>3
    <2>5. PICK l \in 1 .. c : p[l] = r[k]
      BY <1>4, <2>4
    <2>6. Cardinality({x \in S : x < r[k]}) = l - 1
      BY <1>4, <2>5, Zenon
    <2>7. k - 1 = l - 1
      BY <2>2, <2>4, <2>6
    <2> QED
      BY <1>4, <2>5, <2>7
  <1>12. InOrder(s, S) \in Seq(M) /\ Len(InOrder(s, S)) = c
    <2>1. \A k \in 1 .. c : s[p[k]] \in M
      BY <1>1, <1>4
    <2> QED
      BY <1>4, <2>1
  <1>13. Append(InOrder(s, S), s[i]) =
            [k \in 1 .. c + 1 |-> IF k = c + 1 THEN s[i] ELSE s[p[k]]]
    <2> DEFINE u == InOrder(s, S)
               w == Append(u, s[i])
    <2>1. /\ w \in Seq(M) /\ Len(w) = c + 1 /\ w[c + 1] = s[i]
          /\ \A k \in 1 .. c : w[k] = u[k]
      <3>1. s[i] \in M /\ u \in Seq(M) /\ Len(u) = c
        BY <1>1, <1>12 DEF n
      <3> HIDE DEF u
      <3> QED
        BY <3>1, AppendProperties
    <2>2. \A k \in 1 .. c : u[k] = s[p[k]]
      BY <1>4
    <2> HIDE DEF u, w
    <2>3. DOMAIN w = 1 .. c + 1 /\ w = [k \in DOMAIN w |-> w[k]]
      BY <2>1, LenProperties
    <2>4. \A k \in 1 .. c + 1 : w[k] = IF k = c + 1 THEN s[i] ELSE s[p[k]]
      BY <1>4, <2>1, <2>2
    <2>5. w = [k \in 1 .. c + 1 |-> IF k = c + 1 THEN s[i] ELSE s[p[k]]]
      BY <2>3, <2>4
    <2> QED
      BY <2>5 DEF w, u
  <1>14. InOrder(s, T) = [k \in 1 .. c + 1 |-> IF k = c + 1 THEN s[i] ELSE s[p[k]]]
    <2>1. \A k \in 1 .. c + 1 : s[r[k]] = IF k = c + 1 THEN s[i] ELSE s[p[k]]
      BY <1>4, <1>10, <1>11
    <2>2. InOrder(s, T) = [k \in 1 .. c + 1 |-> s[r[k]]]
      BY <1>5, <1>6
    <2> QED
      BY <2>1, <2>2
  <1> QED
    BY <1>12, <1>13, <1>14 DEF T

\* The builder selects as the library does.
LEMMA BuilderInOrder == ASSUME NEW s, NEW S PROVE Builder!InOrder(s, S) = InOrder(s, S)
  <1>1. \A T, R : Builder!Sorted(T, R) = Sorted(T, R)
    BY DEF Builder!Sorted, Sorted, Builder!Cardinality, Cardinality
  <1> QED
    BY <1>1, Zenon DEF Builder!InOrder, InOrder
-----------------------------------------------------------------------------
\* With what has been taken of the first i memories, each was taken that fitted.
Fitting(budget, blocks) == Builder!Fits(budget, Builder!Measure(budget, Builder!Assembled(blocks)))
Taken(budget, memories, i, S, blocks) ==
    /\ S \in SUBSET (1 .. i) /\ blocks = InOrder(memories, S)
    /\ S # {} => Fitting(budget, blocks)
    /\ \A j \in 1 .. i :
          j \in S <=> Fitting(budget, InOrder(memories, {h \in S : h < j} \cup {j}))

\* Another turn of the loop takes the next memory if it fits (format_for_prompt).
LEMMA TakesNext ==
    ASSUME NEW M, NEW memories \in Seq(M), NEW budget, NEW i \in Nat, i < Len(memories),
           NEW S, NEW blocks, Taken(budget, memories, i, S, blocks)
    PROVE  \E T : Taken(budget, memories, i + 1, T,
                        Builder!Select(budget, blocks, memories[i + 1]))
  <1> DEFINE m == memories[i + 1]
             T == S \cup {i + 1}
             next == Builder!Select(budget, blocks, m)
             F(B) == Fitting(budget, B)
  <1>1. /\ S \in SUBSET (1 .. i) /\ blocks = InOrder(memories, S)
        /\ S # {} => F(blocks)
        /\ \A j \in 1 .. i : j \in S <=> F(InOrder(memories, {h \in S : h < j} \cup {j}))
    BY Zenon DEF Taken
  <1>2. Append(blocks, m) = InOrder(memories, T)
    <2> DEFINE j == i + 1
    <2>1. j \in 1 .. Len(memories) /\ j - 1 = i
      BY LenProperties
    <2> HIDE DEF j
    <2>2. S \in SUBSET (1 .. j - 1)
      BY <1>1, <2>1
    <2>3. InOrder(memories, S \cup {j}) = Append(InOrder(memories, S), memories[j])
      BY <2>1, <2>2, InOrderAppends
    <2> QED
      BY <1>1, <2>3 DEF j
  <1>3. next = IF F(Append(blocks, m)) THEN Append(blocks, m) ELSE blocks
    BY DEF Builder!Select, Fitting
  <1>4. \A j \in 1 .. i + 1 : j \in 1 .. i \/ j = i + 1
    OBVIOUS
  <1>5. /\ {h \in S : h < i + 1} = S /\ {h \in T : h < i + 1} = S
        /\ \A j \in 1 .. i : {h \in T : h < j} = {h \in S : h < j}
        /\ i + 1 \in T /\ i + 1 \notin S
        /\ \A j \in 1 .. i : j \in T <=> j \in S
    <2>1. \A h \in S : h \in Nat /\ h <= i
      BY <1>1
    <2>2. {h \in S : h < i + 1} = S /\ {h \in T : h < i + 1} = S /\ i + 1 \notin S
      BY <2>1
    <2>3. ASSUME NEW j \in 1 .. i
          PROVE  {h \in T : h < j} = {h \in S : h < j} /\ (j \in T <=> j \in S)
      <3>1. ~ (i + 1 < j) /\ j # i + 1
        OBVIOUS
      <3> QED
        BY <3>1
    <2> QED
      BY <2>2, <2>3
  <1>6. S \in SUBSET (1 .. i + 1) /\ T \in SUBSET (1 .. i + 1) /\ T # {}
    BY <1>1
  <1>7. F(InOrder(memories, T)) <=> F(Append(blocks, m))
    BY <1>2
  <1> HIDE DEF F, next, m
  <1>8. CASE F(Append(blocks, m))
    <2>1. next = InOrder(memories, T) /\ F(next)
      BY <1>2, <1>3, <1>8
    <2>2. \A j \in 1 .. i + 1 : j \in T <=> F(InOrder(memories, {h \in T : h < j} \cup {j}))
      <3> SUFFICES ASSUME NEW j \in 1 .. i + 1
                   PROVE  j \in T <=> F(InOrder(memories, {h \in T : h < j} \cup {j}))
        OBVIOUS
      <3>1. CASE j \in 1 .. i
        BY <1>1, <1>5, <3>1, Zenon
      <3>2. CASE j = i + 1
        <4>1. {h \in T : h < j} \cup {j} = T /\ j \in T
          BY <1>5, <3>2, Zenon
        <4> QED
          BY <1>7, <1>8, <4>1
      <3> QED
        BY <1>4, <3>1, <3>2
    <2>3. Taken(budget, memories, i + 1, T, next)
      <3> HIDE DEF T
      <3> QED
        BY <1>6, <2>1, <2>2, Zenon DEF Taken, F
    <2> QED
      BY <2>3 DEF next, m
  <1>9. CASE ~ F(Append(blocks, m))
    <2>1. next = blocks
      BY <1>3, <1>9
    <2>2. \A j \in 1 .. i + 1 : j \in S <=> F(InOrder(memories, {h \in S : h < j} \cup {j}))
      <3> SUFFICES ASSUME NEW j \in 1 .. i + 1
                   PROVE  j \in S <=> F(InOrder(memories, {h \in S : h < j} \cup {j}))
        OBVIOUS
      <3>1. CASE j \in 1 .. i
        BY <1>1, <3>1, Zenon
      <3>2. CASE j = i + 1
        <4>1. {h \in S : h < j} \cup {j} = T /\ j \notin S
          BY <1>5, <3>2, Zenon
        <4> QED
          BY <1>7, <1>9, <4>1
      <3> QED
        BY <1>4, <3>1, <3>2
    <2>3. Taken(budget, memories, i + 1, S, next)
      BY <1>1, <1>6, <2>1, <2>2, Zenon DEF Taken, F
    <2> QED
      BY <2>3 DEF next, m
  <1> QED
    BY <1>8, <1>9

\* The loop takes each memory that fits after those before it.
LEMMA SelectionTaken ==
    ASSUME NEW M, NEW memories \in Seq(M), NEW budget
    PROVE  \E S : Taken(budget, memories, Len(memories), S, Builder!Selected(budget, memories))
  <1> DEFINE n == Len(memories)
             X == Seq(M)
             Step(i, x) == Builder!Select(budget, x, memories[i])
             E(g, i) == IF i = 0 THEN <<>> ELSE Step(i, g[i - 1])
             G == [p \in (1 .. n) \X X |-> Step(p[1], p[2])]
             h == CHOOSE g : g = [i \in 0 .. n |-> E(g, i)]
             A == {i \in 0 .. n : \E S : Taken(budget, memories, i, S, h[i])}
  <1>1. n \in Nat /\ <<>> \in X /\ \A i \in 1 .. n : memories[i] \in M
    BY LenProperties, ElementOfSeq
  <1>2. \A i \in 1 .. n, x \in X : Step(i, x) \in X
    BY <1>1, AppendProperties DEF Builder!Select
  <1>3. Builder!Selected(budget, memories) = h[n]
    BY DEF Builder!Selected
  <1> HIDE DEF n, X, Step, h
  <1>4. G \in [(1 .. n) \X X -> X]
    BY <1>2
  <1>5. PICK f : Iterates(<<>>, G, n, X, f)
    <2> HIDE DEF G
    <2> QED
      BY <1>1, <1>4, IterationExists
  <1>6. f \in [0 .. n -> X] /\ \A i \in 0 .. n : f[i] = E(f, i)
    <2>1. f \in [0 .. n -> X] /\ f[0] = <<>> /\ \A i \in 1 .. n : f[i] = G[<<i, f[i - 1]>>]
      BY <1>5, Zenon DEF Iterates
    <2>2. \A i \in 1 .. n : i - 1 \in 0 .. n
      BY <1>1
    <2>3. \A i \in 1 .. n : f[i] = Step(i, f[i - 1])
      BY <2>1, <2>2
    <2>4. \A i \in 0 .. n : i = 0 \/ i \in 1 .. n
      BY <1>1
    <2> HIDE DEF G
    <2>5. \A i \in 0 .. n : f[i] = E(f, i)
      BY <2>1, <2>3, <2>4
    <2> QED
      BY <2>1, <2>5
  <1>7. f = [i \in 0 .. n |-> E(f, i)]
    <2> DEFINE v(i) == E(f, i)
    <2>1. \A i \in 0 .. n : f[i] = v(i)
      BY <1>6
    <2> HIDE DEF v
    <2>2. f = [i \in 0 .. n |-> v(i)]
      BY <1>6, <2>1
    <2> QED
      BY <2>2 DEF v
  <1>8. h = [i \in 0 .. n |-> E(h, i)]
    <2> HIDE DEF E
    <2> QED
      BY <1>7, Zenon DEF h
  <1>9. h[0] = <<>> /\ \A i \in 0 .. n - 1 : h[i + 1] = Step(i + 1, h[i])
    <2> DEFINE v(i) == E(h, i)
    <2>1. h = [i \in 0 .. n |-> v(i)]
      BY <1>8
    <2> HIDE DEF v
    <2>2. \A i \in 0 .. n : h[i] = v(i)
      BY <2>1
    <2>3. 0 \in 0 .. n /\ \A i \in 0 .. n - 1 : i + 1 \in 0 .. n /\ i + 1 # 0 /\ i + 1 - 1 = i
      BY <1>1
    <2>4. v(0) = <<>> /\ \A i \in 0 .. n - 1 : v(i + 1) = Step(i + 1, h[i])
      BY <2>3 DEF v
    <2> QED
      BY <2>2, <2>3, <2>4
  <1> HIDE DEF E
  <1>10. 0 \in A
    <2>1. Taken(budget, memories, 0, {}, <<>>)
      <3>1. InOrder(memories, 1 .. 0) = <<>> /\ 1 .. 0 = {}
        <4>1. InOrder(memories, 1 .. 0) = [k \in 1 .. 0 |-> memories[k]]
          <5>1. 0 \in Nat
            OBVIOUS
          <5> QED
            BY <5>1, OrderOfInterval, Zenon
        <4> QED
          BY <4>1
      <3> QED
        BY <3>1 DEF Taken
    <2> QED
      BY <1>1, <1>9, <2>1
  <1>11. ASSUME NEW i \in A, i < n
         PROVE  i + 1 \in A
    <2>1. PICK S : Taken(budget, memories, i, S, h[i])
      OBVIOUS
    <2>2. i \in Nat /\ i + 1 \in 0 .. n /\ i \in 0 .. n - 1
      BY <1>1, <1>11
    <2>3. \E T : Taken(budget, memories, i + 1, T, Builder!Select(budget, h[i], memories[i + 1]))
      <3> HIDE DEF A
      <3>1. i < Len(memories)
        BY <1>11 DEF n
      <3> QED
        BY <2>1, <2>2, <3>1, TakesNext
    <2>4. h[i + 1] = Builder!Select(budget, h[i], memories[i + 1])
      BY <1>9, <2>2 DEF Step
    <2> QED
      BY <2>2, <2>3, <2>4
  <1>12. n \in A
    <2>1. A \in SUBSET (0 .. n)
      OBVIOUS
    <2> HIDE DEF A
    <2> QED
      BY <1>1, <1>10, <1>11, <2>1, UpToN
  <1> QED
    BY <1>3, <1>12 DEF n

\* A prompt is within its budget, of whole blocks, and has all that fits.
LEMMA PromptBounded ==
    ASSUME NEW M, NEW memories \in Seq(M), NEW budget
    PROVE  Builder!PromptIsBounded(budget, memories)
  <1> DEFINE result == Builder!FormatForPrompt(budget, memories)
             selected == Builder!Selected(budget, memories)
             n == Len(memories)
             Bound(S) == /\ S \in SUBSET (DOMAIN memories)
                         /\ result.text = Builder!Assembled(InOrder(memories, S))
                         /\ budget.unit # "none" =>
                               /\ Builder!Fits(budget, Builder!Measure(budget, result.text))
                               /\ Builder!Greedy(budget, memories, S)
  <1>1. n \in Nat /\ DOMAIN memories = 1 .. n
    BY LenProperties
  <1>2. SUFFICES ASSUME result.error = "none", result.text # <<>>
                 PROVE  \E S : Bound(S)
    BY BuilderInOrder DEF Builder!PromptIsBounded
  <1>3. \/ budget.unit = "none" /\ result.text = Builder!Assembled(memories)
        \/ /\ budget.unit # "none" /\ selected # <<>>
           /\ result.text = Builder!Assembled(selected)
    BY <1>2 DEF Builder!FormatForPrompt, Builder!Raised, Builder!Formatted
  <1> HIDE DEF result, selected
  <1>4. CASE budget.unit = "none" /\ result.text = Builder!Assembled(memories)
    <2>1. InOrder(memories, 1 .. n) = [k \in 1 .. n |-> memories[k]]
      <3> HIDE DEF n
      <3> QED
        BY <1>1, OrderOfInterval
    <2>2. [k \in 1 .. n |-> memories[k]] = memories
      BY <1>1
    <2>3. Bound(1 .. n)
      <3> HIDE DEF n
      <3> QED
        BY <1>1, <1>4, <2>1, <2>2
    <2> QED
      BY <2>3
  <1>5. CASE /\ budget.unit # "none" /\ selected # <<>>
             /\ result.text = Builder!Assembled(selected)
    <2>1. PICK S : Taken(budget, memories, n, S, selected)
      BY SelectionTaken DEF selected
    <2>2. /\ S \in SUBSET (1 .. n) /\ selected = InOrder(memories, S)
          /\ S # {} => Fitting(budget, selected)
          /\ \A j \in 1 .. n :
                j \in S <=> Fitting(budget, InOrder(memories, {i \in S : i < j} \cup {j}))
      BY <2>1, Zenon DEF Taken
    <2>3. S # {}
      <3> SUFFICES ASSUME S = {} PROVE FALSE
        OBVIOUS
      <3>4. 0 \in Nat /\ 1 .. 0 = {}
        OBVIOUS
      <3>1. InOrder(memories, 1 .. 0) = [k \in 1 .. 0 |-> memories[k]]
        BY <3>4, OrderOfInterval, Zenon
      <3>2. [k \in 1 .. 0 |-> memories[k]] = <<>>
        OBVIOUS
      <3>3. InOrder(memories, {}) = <<>>
        BY <3>1, <3>2, <3>4, Zenon
      <3> QED
        BY <1>5, <2>2, <3>3, Zenon
    <2>4. Builder!Fits(budget, Builder!Measure(budget, result.text))
      BY <1>5, <2>2, <2>3, Zenon DEF Fitting
    <2>5. Builder!Greedy(budget, memories, S)
      <3> SUFFICES ASSUME NEW j \in 1 .. n
                   PROVE  j \in S <=>
                             Fitting(budget, Builder!InOrder(memories, {i \in S : i < j} \cup {j}))
        BY <1>1, Zenon DEF Builder!Greedy, Fitting
      <3> QED
        BY <2>2, BuilderInOrder, Zenon
    <2> QED
      BY <1>1, <1>5, <2>2, <2>4, <2>5
  <1> QED
    BY <1>3, <1>4, <1>5

\* A selection has elements of what it selects from.
LEMMA InOrderType ==
    ASSUME NEW M, NEW s \in Seq(M), NEW S \in SUBSET (1 .. Len(s))
    PROVE  InOrder(s, S) \in Seq(M)
  <1> DEFINE c == Cardinality(S)
  <1>1. Len(s) \in Nat /\ \A i \in 1 .. Len(s) : s[i] \in M
    BY LenProperties, ElementOfSeq
  <1>2. PICK p : Lists(s, S, p)
    <2> HIDE DEF c
    <2> QED
      BY <1>1, InOrderLists
  <1>3. /\ c \in Nat /\ InOrder(s, S) = [k \in 1 .. c |-> s[p[k]]]
        /\ \A k \in 1 .. c : p[k] \in S
    BY <1>2, Zenon DEF Lists
  <1> HIDE DEF c
  <1>4. \A k \in 1 .. c : s[p[k]] \in M
    BY <1>1, <1>3
  <1> QED
    BY <1>3, <1>4

\* What a memory writes between its markers: no marker, no line.
Written == {"x", "nan", "\\"}
Signs == Written \cup {"instruction", "newline", "start", "end"}

\* A sign is a text.
LEMMA SignIsText ==
    \A a \in Signs : <<a>> \in Seq(Signs) /\ Len(<<a>>) = 1 /\ <<a>>[1] = a
  OBVIOUS

\* A memory is written without a marker and without a line's end
\* (_serialize_block).
LEMMA SerializedIsPlain ==
    ASSUME NEW m \in Seq(Builder!Atoms)
    PROVE  Builder!Serialized(m) \in Seq(Written)
  <1> DEFINE s == [i \in DOMAIN m |-> Builder!Escaped(m[i])]
             n == Len(m)
  <1>1. n \in Nat /\ DOMAIN m = 1 .. n /\ \A i \in 1 .. n : m[i] \in Builder!Atoms
    BY LenProperties, ElementOfSeq
  <1>2. \A a \in Builder!Atoms : Builder!Escaped(a) \in Seq(Written)
    <2> SUFFICES ASSUME NEW a \in Builder!Atoms PROVE Builder!Escaped(a) \in Seq(Written)
      OBVIOUS
    <2>1. <<"\\", "x">> \in Seq(Written) /\ \A w \in Written : <<w>> \in Seq(Written)
      BY DEF Written
    <2>2. a \in Builder!Unsafe \/ a \in Written
      BY DEF Builder!Atoms, Builder!Unserializable, Written
    <2> QED
      BY <2>1, <2>2 DEF Builder!Escaped
  <1>3. s \in Seq(Seq(Written))
    <2>1. \A i \in 1 .. n : Builder!Escaped(m[i]) \in Seq(Written)
      BY <1>1, <1>2
    <2>2. s = [i \in 1 .. n |-> Builder!Escaped(m[i])]
      BY <1>1
    <2> HIDE DEF s, n
    <2> QED
      BY <1>1, <2>1, <2>2
  <1>4. Builder!Serialized(m) = Builder!FlattenSeq(s)
    BY DEF Builder!Serialized
  <1> HIDE DEF s
  <1>5. PICK f \in [0 .. Len(s) -> Seq(Written)] : Builder!FlattenSeq(s) = f[Len(s)]
    BY <1>3, FlattenJoins
  <1>6. Len(s) \in 0 .. Len(s)
    BY <1>3, LenProperties
  <1> QED
    BY <1>4, <1>5, <1>6

\* A block on lines of its own, l characters between the markers.
Lined(b, l) ==
    /\ b \in Seq(Signs) /\ l \in Nat /\ Len(b) = l + 5
    /\ b[1] = "newline" /\ b[2] = "start" /\ b[3] = "newline"
    /\ \A i \in 4 .. l + 3 : b[i] \in Written
    /\ b[l + 4] = "newline" /\ b[l + 5] = "end"

\* So a block after a line's end is three lines (_serialize_block).
LEMMA BlockIsLined ==
    ASSUME NEW m \in Seq(Builder!Atoms)
    PROVE  \E l : Lined(Builder!Newline \o Builder!Block(m), l)
  <1> DEFINE z == Builder!Serialized(m)
             l == Len(z)
             n == <<"newline">>
             u == <<"start">> \o n
             v == u \o z
             w == v \o n
             x == w \o <<"end">>
             b == n \o x
  <1>1. z \in Seq(Written) /\ l \in Nat /\ \A i \in 1 .. l : z[i] \in Written
    BY SerializedIsPlain, LenProperties, ElementOfSeq
  <1>2. z \in Seq(Signs)
    <2>1. z = [i \in 1 .. l |-> z[i]]
      BY <1>1
    <2>2. \A i \in 1 .. l : z[i] \in Signs
      BY <1>1 DEF Signs
    <2> HIDE DEF z, l
    <2> QED
      BY <1>1, <2>1, <2>2
  <1>3. Builder!Newline \o Builder!Block(m) = b
    BY DEF Builder!Newline, Builder!Block, Builder!START_MARKER, Builder!END_MARKER
  <1> HIDE DEF z
  <1>13. /\ n \in Seq(Signs) /\ Len(n) = 1 /\ n[1] = "newline"
         /\ \A a \in {"start", "end"} : <<a>> \in Seq(Signs) /\ Len(<<a>>) = 1 /\ <<a>>[1] = a
    <2>1. "newline" \in Signs /\ "start" \in Signs /\ "end" \in Signs
      BY DEF Signs
    <2> QED
      BY <2>1, SignIsText, Zenon
  <1>4. u \in Seq(Signs) /\ Len(u) = 2 /\ u[1] = "start" /\ u[2] = "newline"
    <2> DEFINE e == <<"start">>
    <2>1. e \in Seq(Signs) /\ Len(e) = 1 /\ e[1] = "start"
      BY <1>13
    <2> HIDE DEF e, n
    <2>2. /\ e \o n \in Seq(Signs) /\ Len(e \o n) = Len(e) + Len(n)
          /\ \A i \in 1 .. Len(e) + Len(n) :
                (e \o n)[i] = IF i <= Len(e) THEN e[i] ELSE n[i - Len(e)]
      BY <1>13, <2>1, ConcatProperties
    <2>3. Len(e) + Len(n) = 2 /\ ~ (2 <= 1) /\ 2 - 1 = 1 /\ 1 \in 1 .. 2 /\ 2 \in 1 .. 2 /\ 1 <= 1
      BY <1>13, <2>1
    <2>4. e \o n \in Seq(Signs) /\ Len(e \o n) = 2 /\ (e \o n)[1] = e[1] /\ (e \o n)[2] = n[1]
      BY <1>13, <2>1, <2>2, <2>3
    <2> QED
      BY <1>13, <2>1, <2>4 DEF e
  <1> HIDE DEF u
  <1>5. /\ v \in Seq(Signs) /\ Len(v) = l + 2 /\ v[1] = "start" /\ v[2] = "newline"
        /\ \A i \in 3 .. l + 2 : v[i] \in Written
    <2>3. /\ v \in Seq(Signs) /\ Len(v) = Len(u) + Len(z)
          /\ \A i \in 1 .. Len(u) + Len(z) : v[i] = IF i <= Len(u) THEN u[i] ELSE z[i - Len(u)]
      BY <1>2, <1>4, ConcatProperties
    <2>1. /\ v \in Seq(Signs) /\ Len(v) = 2 + l
          /\ \A i \in 1 .. 2 + l : v[i] = IF i <= 2 THEN u[i] ELSE z[i - 2]
      <3> HIDE DEF v
      <3> QED
        BY <1>4, <2>3
    <2> HIDE DEF v, l
    <2>2. \A i \in 3 .. l + 2 : i \in 1 .. 2 + l /\ ~ (i <= 2) /\ i - 2 \in 1 .. l
      BY <1>1
    <2> QED
      BY <1>1, <1>4, <2>1, <2>2
  <1> HIDE DEF v
  <1>6. /\ w \in Seq(Signs) /\ Len(w) = l + 3
        /\ w[l + 3] = "newline" /\ \A i \in 1 .. l + 2 : w[i] = v[i]
    <2>1. n \in Seq(Signs) /\ Len(n) = 1 /\ n[1] = "newline"
      BY <1>13
    <2> HIDE DEF n
    <2>2. /\ w \in Seq(Signs) /\ Len(w) = Len(v) + Len(n)
          /\ \A i \in 1 .. Len(v) + Len(n) : w[i] = IF i <= Len(v) THEN v[i] ELSE n[i - Len(v)]
      BY <1>5, <2>1, ConcatProperties
    <2> HIDE DEF w, l
    <2>3. /\ l + 3 \in 1 .. l + 2 + 1 /\ ~ (l + 3 <= l + 2) /\ l + 3 - (l + 2) = 1
          /\ \A i \in 1 .. l + 2 : i \in 1 .. l + 2 + 1 /\ i <= l + 2
      BY <1>1
    <2> QED
      BY <1>1, <1>5, <2>1, <2>2, <2>3
  <1> HIDE DEF w
  <1>7. /\ x \in Seq(Signs) /\ Len(x) = l + 4
        /\ x[l + 4] = "end" /\ \A i \in 1 .. l + 3 : x[i] = w[i]
    <2> DEFINE e == <<"end">>
    <2>1. e \in Seq(Signs) /\ Len(e) = 1 /\ e[1] = "end"
      BY <1>13
    <2> HIDE DEF e
    <2>2. /\ w \o e \in Seq(Signs) /\ Len(w \o e) = Len(w) + Len(e)
          /\ \A i \in 1 .. Len(w) + Len(e) :
                (w \o e)[i] = IF i <= Len(w) THEN w[i] ELSE e[i - Len(w)]
      BY <1>6, <2>1, ConcatProperties
    <2>4. x = w \o e
      BY DEF e
    <2> HIDE DEF x, l
    <2>3. /\ l + 4 \in 1 .. l + 3 + 1 /\ ~ (l + 4 <= l + 3) /\ l + 4 - (l + 3) = 1
          /\ \A i \in 1 .. l + 3 : i \in 1 .. l + 3 + 1 /\ i <= l + 3
      BY <1>1
    <2> QED
      BY <1>1, <1>6, <2>1, <2>2, <2>3, <2>4
  <1> HIDE DEF x
  <1>8. /\ b \in Seq(Signs) /\ Len(b) = l + 5 /\ b[1] = "newline"
        /\ \A i \in 2 .. l + 5 : b[i] = x[i - 1]
    <2>1. n \in Seq(Signs) /\ Len(n) = 1 /\ n[1] = "newline"
      BY <1>13
    <2> HIDE DEF n
    <2>3. /\ b \in Seq(Signs) /\ Len(b) = Len(n) + Len(x)
          /\ \A i \in 1 .. Len(n) + Len(x) : b[i] = IF i <= Len(n) THEN n[i] ELSE x[i - Len(n)]
      BY <1>7, <2>1, ConcatProperties
    <2> HIDE DEF b, l
    <2>2. /\ b \in Seq(Signs) /\ Len(b) = 1 + Len(x)
          /\ \A i \in 1 .. 1 + Len(x) : b[i] = IF i <= 1 THEN n[i] ELSE x[i - 1]
      BY <2>1, <2>3
    <2> QED
      BY <1>1, <1>7, <2>1, <2>2
  <1> HIDE DEF b, l
  <1>9. \A i \in 2 .. l + 3 : b[i] = v[i - 1]
    <2>1. \A i \in 2 .. l + 3 : i \in 2 .. l + 5 /\ i - 1 \in 1 .. l + 3 /\ i - 1 \in 1 .. l + 2
      BY <1>1
    <2> QED
      BY <1>6, <1>7, <1>8, <2>1
  <1>10. b[l + 4] = "newline" /\ b[l + 5] = "end"
    <2>1. /\ l + 4 \in 2 .. l + 5 /\ (l + 4) - 1 = l + 3 /\ l + 3 \in 1 .. l + 3
          /\ l + 5 \in 2 .. l + 5 /\ (l + 5) - 1 = l + 4
      BY <1>1
    <2>2. b[l + 4] = x[l + 3] /\ b[l + 5] = x[l + 4]
      BY <1>8, <2>1, Zenon
    <2>3. x[l + 3] = w[l + 3]
      BY <1>7, <2>1
    <2> QED
      BY <1>6, <1>7, <2>2, <2>3
  <1>11. /\ b[2] = "start" /\ b[3] = "newline" /\ \A i \in 4 .. l + 3 : b[i] \in Written
    <2>1. /\ 2 \in 2 .. l + 3 /\ 3 \in 2 .. l + 3
          /\ \A i \in 4 .. l + 3 : i \in 2 .. l + 3 /\ i - 1 \in 3 .. l + 2
      BY <1>1
    <2> QED
      BY <1>5, <1>9, <2>1
  <1>12. Lined(b, l)
    BY <1>1, <1>8, <1>10, <1>11 DEF Lined
  <1> QED
    BY <1>3, <1>12

\* The lines before position i + 1, and what may stand at the start of a line.
Breaks(t, i) == {j \in 1 .. i : t[j] = "newline"}
Marked(first, line) ==
    /\ first = "instruction" <=> line = 1
    /\ first = "start" <=> line % 3 = 2
    /\ first = "end" <=> line % 3 = 1 /\ line > 1

\* A text of the instruction and k blocks.
Framed(t, k) ==
    /\ t \in Seq(Signs) /\ Len(t) >= 1 /\ t[Len(t)] # "newline"
    /\ IsFiniteSet(Breaks(t, Len(t))) /\ Cardinality(Breaks(t, Len(t))) = 3 * k
    /\ \A i \in 1 .. Len(t) : i = 1 \/ t[i - 1] = "newline"
           => Marked(t[i], 1 + Cardinality(Breaks(t, i - 1)))

\* The lines of the k-th block.
LEMMA BlockLines ==
    ASSUME NEW k \in Nat
    PROVE  /\ Marked("instruction", 1)
           /\ Marked("start", 1 + (3 * k + 1))
           /\ \A a \in Written \cup {"newline"} : Marked(a, 1 + (3 * k + 2))
           /\ Marked("end", 1 + (3 * k + 3))
  <1>1. /\ (1 + (3 * k + 1)) % 3 = 2 /\ (1 + (3 * k + 2)) % 3 = 0 /\ (1 + (3 * k + 3)) % 3 = 1
        /\ 1 + (3 * k + 1) # 1 /\ 1 + (3 * k + 2) # 1 /\ 1 + (3 * k + 3) > 1
        /\ 1 % 3 = 1
    OBVIOUS
  <1> QED
    BY <1>1 DEF Marked, Written

\* Another block keeps the frame.
LEMMA FrameGrows ==
    ASSUME NEW k \in Nat, NEW t, Framed(t, k), NEW b, NEW l, Lined(b, l)
    PROVE  Framed(t \o b, k + 1)
  <1> DEFINE L == Len(t)
             v == t \o b
             N == Breaks(t, L)
  <1>1. /\ t \in Seq(Signs) /\ L \in Nat /\ L >= 1 /\ t[L] # "newline"
        /\ IsFiniteSet(N) /\ Cardinality(N) = 3 * k
        /\ \A i \in 1 .. L : i = 1 \/ t[i - 1] = "newline"
               => Marked(t[i], 1 + Cardinality(Breaks(t, i - 1)))
    BY LenProperties DEF Framed
  <1>2. /\ b \in Seq(Signs) /\ l \in Nat /\ Len(b) = l + 5
        /\ b[1] = "newline" /\ b[2] = "start" /\ b[3] = "newline"
        /\ \A i \in 4 .. l + 3 : b[i] \in Written
        /\ b[l + 4] = "newline" /\ b[l + 5] = "end"
    BY DEF Lined
  <1>3. /\ v \in Seq(Signs) /\ Len(v) = L + (l + 5)
        /\ \A i \in 1 .. L : v[i] = t[i]
        /\ \A i \in 1 .. l + 5 : v[L + i] = b[i]
    <2>1. /\ v \in Seq(Signs) /\ Len(v) = Len(t) + Len(b)
          /\ \A i \in 1 .. Len(t) + Len(b) : v[i] = IF i <= Len(t) THEN t[i] ELSE b[i - Len(t)]
      BY <1>1, <1>2, ConcatProperties
    <2> HIDE DEF v
    <2>2. \A i \in 1 .. L : i \in 1 .. L + (l + 5) /\ i <= L
      BY <1>1, <1>2
    <2>3. L \in Nat
      BY <1>1
    <2>4. /\ v \in Seq(Signs) /\ Len(v) = L + (l + 5)
          /\ \A i \in 1 .. L + (l + 5) : i <= L => v[i] = t[i]
          /\ \A i \in 1 .. L + (l + 5) : ~ (i <= L) => v[i] = b[i - L]
      BY <1>2, <2>1
    <2> HIDE DEF L
    <2>5. \A i \in 1 .. L : v[i] = t[i]
      BY <2>2, <2>4, Zenon
    <2>6. ASSUME NEW i \in 1 .. l + 5
          PROVE  v[L + i] = b[i]
      <3> DEFINE j == L + i
      <3>1. j \in 1 .. L + (l + 5) /\ ~ (j <= L) /\ j - L = i
        <4>1. L \in Nat /\ l \in Nat /\ i \in 1 .. l + 5
          BY <1>2, <2>3
        <4> HIDE DEF L
        <4> QED
          BY <4>1
      <3> HIDE DEF j
      <3>2. v[j] = b[j - L]
        BY <2>4, <3>1
      <3>3. v[j] = b[i]
        BY <3>1, <3>2
      <3> QED
        BY <3>3 DEF j
    <2> QED
      BY <2>4, <2>5, <2>6
  <1> HIDE DEF v
  <1>4. /\ v[L + 1] = "newline" /\ v[L + 2] = "start" /\ v[L + 3] = "newline"
        /\ v[L + (l + 4)] = "newline" /\ v[L + (l + 5)] = "end"
        /\ \A i \in 4 .. l + 3 : v[L + i] \in Written
    <2>1. /\ 1 \in 1 .. l + 5 /\ 2 \in 1 .. l + 5 /\ 3 \in 1 .. l + 5
          /\ l + 4 \in 1 .. l + 5 /\ l + 5 \in 1 .. l + 5
          /\ \A i \in 4 .. l + 3 : i \in 1 .. l + 5
      BY <1>2
    <2>2. \A i \in 4 .. l + 3 : v[L + i] \in Written
      BY <1>2, <1>3, <2>1
    <2> QED
      BY <1>2, <1>3, <2>1, <2>2, Zenon
  <1>5. \A i \in 4 .. l + 3 : v[L + i] # "newline"
    BY <1>4 DEF Written
  \* Where the lines of the longer text end.
  <1>6. \A j : j \in 1 .. L + (l + 5) => \/ j \in 1 .. L \/ j = L + 1 \/ j = L + 2 \/ j = L + 3
                                        \/ j = L + (l + 4) \/ j = L + (l + 5)
                                        \/ \E i \in 4 .. l + 3 : j = L + i
    <2> SUFFICES ASSUME NEW j \in 1 .. L + (l + 5), j \notin 1 .. L, j # L + 1, j # L + 2,
                        j # L + 3, j # L + (l + 4), j # L + (l + 5)
                 PROVE  \E i \in 4 .. l + 3 : j = L + i
      OBVIOUS
    <2>2. L \in Nat /\ l \in Nat
      BY <1>1, <1>2
    <2> HIDE DEF L
    <2>1. j - L \in 4 .. l + 3 /\ j = L + (j - L)
      BY <2>2
    <2> QED
      BY <2>1
  <1>7. \A j \in 1 .. L : v[j] = "newline" <=> j \in N
    BY <1>3 DEF Breaks
  <1>8. ASSUME NEW i \in 1 .. L
        PROVE  Breaks(v, i - 1) = Breaks(t, i - 1)
    <2>1. \A j \in 1 .. i - 1 : v[j] = t[j]
      BY <1>1, <1>3
    <2> QED
      BY <2>1 DEF Breaks
  <1>9. /\ N \subseteq 1 .. L
        /\ \A j \in N : j < L + 1 /\ j # L + 3 /\ j # L + (l + 4)
    BY <1>1, <1>2 DEF Breaks
  <1>10. ASSUME NEW i \in {L + 1, L + 2, L + 3, L + (l + 3), L + (l + 4), L + (l + 5)}
         PROVE  Breaks(v, i) = {j \in N \cup {L + 1, L + 3, L + (l + 4)} : j <= i}
    <2>1. i \in Nat /\ i <= L + (l + 5) /\ \A j \in 1 .. i : j \in 1 .. L + (l + 5) /\ j <= i
      BY <1>1, <1>2
    <2>2. \A j \in 1 .. L + (l + 5) :
             v[j] = "newline" <=> j \in N \cup {L + 1, L + 3, L + (l + 4)}
      <3> SUFFICES ASSUME NEW j \in 1 .. L + (l + 5)
                   PROVE  v[j] = "newline" <=> j \in N \cup {L + 1, L + 3, L + (l + 4)}
        OBVIOUS
      <3>1. CASE j \in 1 .. L
        <4>1. j # L + 1 /\ j # L + 3 /\ j # L + (l + 4)
          BY <1>1, <1>2, <3>1
        <4> QED
          BY <1>7, <3>1, <4>1
      <3>2. CASE j \in {L + 1, L + 3, L + (l + 4)}
        BY <1>4, <3>2
      <3>3. CASE j = L + 2 \/ j = L + (l + 5)
        <4>1. j \notin N /\ j # L + 1 /\ j # L + 3 /\ j # L + (l + 4)
          BY <1>1, <1>2, <1>9, <3>3
        <4> QED
          BY <1>4, <3>3, <4>1
      <3>4. CASE \E h \in 4 .. l + 3 : j = L + h
        <4>1. j \notin N /\ j # L + 1 /\ j # L + 3 /\ j # L + (l + 4)
          BY <1>1, <1>2, <1>9, <3>4
        <4> QED
          BY <1>5, <3>4, <4>1
      <3> QED
        BY <1>6, <3>1, <3>2, <3>3, <3>4
    <2>3. \A j \in N \cup {L + 1, L + 3, L + (l + 4)} : j \in Nat /\ j >= 1
      BY <1>1, <1>2, <1>9
    <2>4. \A j : j \in Breaks(v, i) <=> j \in 1 .. i /\ v[j] = "newline"
      BY DEF Breaks
    <2>5. \A j : j \in {h \in N \cup {L + 1, L + 3, L + (l + 4)} : h <= i} <=>
                    j \in 1 .. i /\ v[j] = "newline"
      BY <2>1, <2>2, <2>3
    <2> QED
      BY <2>4, <2>5
  <1> HIDE DEF N, L
  <1>11. /\ Breaks(v, L + 1) = N \cup {L + 1}
         /\ Breaks(v, L + 3) = (N \cup {L + 1}) \cup {L + 3}
         /\ Breaks(v, L + (l + 4)) = ((N \cup {L + 1}) \cup {L + 3}) \cup {L + (l + 4)}
         /\ Breaks(v, L + (l + 5)) = ((N \cup {L + 1}) \cup {L + 3}) \cup {L + (l + 4)}
    <2>1. /\ \A j \in N : j <= L + 1 /\ j <= L + 3 /\ j <= L + (l + 4) /\ j <= L + (l + 5)
          /\ L + 1 <= L + 1 /\ L + 1 <= L + 3 /\ L + 1 <= L + (l + 4) /\ L + 1 <= L + (l + 5)
          /\ ~ (L + 3 <= L + 1) /\ L + 3 <= L + 3 /\ L + 3 <= L + (l + 4) /\ L + 3 <= L + (l + 5)
          /\ ~ (L + (l + 4) <= L + 1) /\ ~ (L + (l + 4) <= L + 3)
          /\ L + (l + 4) <= L + (l + 4) /\ L + (l + 4) <= L + (l + 5)
      BY <1>1, <1>2, <1>9
    <2>2. /\ {j \in N \cup {L + 1, L + 3, L + (l + 4)} : j <= L + 1} = N \cup {L + 1}
          /\ {j \in N \cup {L + 1, L + 3, L + (l + 4)} : j <= L + 3}
                = (N \cup {L + 1}) \cup {L + 3}
          /\ {j \in N \cup {L + 1, L + 3, L + (l + 4)} : j <= L + (l + 4)}
                = ((N \cup {L + 1}) \cup {L + 3}) \cup {L + (l + 4)}
          /\ {j \in N \cup {L + 1, L + 3, L + (l + 4)} : j <= L + (l + 5)}
                = ((N \cup {L + 1}) \cup {L + 3}) \cup {L + (l + 4)}
      BY <2>1
    <2> QED
      BY <1>10, <2>2
  <1>12. /\ Cardinality(Breaks(v, L + 1)) = 3 * k + 1
         /\ Cardinality(Breaks(v, L + 3)) = 3 * k + 2
         /\ Cardinality(Breaks(v, L + (l + 4))) = 3 * k + 3
         /\ Cardinality(Breaks(v, L + (l + 5))) = 3 * k + 3
         /\ IsFiniteSet(Breaks(v, L + (l + 5)))
    <2> DEFINE A == N \cup {L + 1}
               B == A \cup {L + 3}
               C == B \cup {L + (l + 4)}
    <2>1. L + 1 \notin N /\ L + 3 \notin A /\ L + (l + 4) \notin B
      <3>1. L + 3 # L + 1 /\ L + (l + 4) # L + 1 /\ L + (l + 4) # L + 3 /\ L + 1 \notin N
        BY <1>1, <1>2, <1>9
      <3> QED
        BY <1>9, <3>1
    <2>2. IsFiniteSet(A) /\ Cardinality(A) = 3 * k + 1
      BY <1>1, <2>1, FS_AddElement
    <2> HIDE DEF A
    <2>3. IsFiniteSet(B) /\ Cardinality(B) = 3 * k + 1 + 1
      BY <2>1, <2>2, FS_AddElement
    <2> HIDE DEF B
    <2>4. IsFiniteSet(C) /\ Cardinality(C) = 3 * k + 1 + 1 + 1
      BY <2>1, <2>3, FS_AddElement
    <2>5. 3 * k + 1 + 1 = 3 * k + 2 /\ 3 * k + 1 + 1 + 1 = 3 * k + 3
      OBVIOUS
    <2> QED
      BY <1>11, <2>2, <2>3, <2>4, <2>5, Zenon DEF A, B, C
  <1>13. ASSUME NEW i \in 1 .. L + (l + 5), i = 1 \/ v[i - 1] = "newline"
         PROVE  Marked(v[i], 1 + Cardinality(Breaks(v, i - 1)))
    <2>1. CASE i \in 1 .. L
      <3>1. v[i] = t[i] /\ (i = 1 \/ t[i - 1] = "newline")
        <4>1. i = 1 \/ i - 1 \in 1 .. L
          BY <1>1, <2>1
        <4> QED
          BY <1>3, <1>13, <2>1, <4>1
      <3> QED
        BY <1>1, <1>8, <2>1, <3>1
    <2>2. CASE i \notin 1 .. L
      <3> DEFINE j == i - 1
      <3>1. j \in 1 .. L + (l + 5) /\ j >= L /\ i # 1 /\ i = j + 1 /\ j <= L + (l + 4)
        BY <1>1, <1>2, <2>2
      <3>2. v[j] = "newline" /\ j # L
        <4>1. L \in 1 .. L
          BY <1>1
        <4> QED
          BY <1>1, <1>3, <1>13, <3>1, <4>1
      <3> HIDE DEF j
      <3>3. j = L + 1 \/ j = L + 3 \/ j = L + (l + 4)
        <4>1. j \notin 1 .. L /\ j # L + (l + 5)
          BY <1>1, <1>2, <3>1, <3>2
        <4>2. j # L + 2
          BY <1>4, <3>2
        <4> QED
          BY <1>5, <1>6, <3>1, <3>2, <4>1, <4>2
      <3>4. CASE j = L + 1
        <4>1. v[i] = "start"
          <5>1. i = L + 2
            BY <1>1, <3>1, <3>4
          <5> QED
            BY <1>4, <5>1
        <4> QED
          BY <1>12, <3>4, <4>1, BlockLines, Zenon DEF j
      <3>5. CASE j = L + 3
        <4>1. v[i] \in Written \cup {"newline"}
          <5>1. i = L + 4
            BY <1>1, <3>1, <3>5
          <5>2. CASE l = 0
            <6>1. L + 4 = L + (l + 4)
              BY <5>2
            <6> QED
              BY <1>4, <5>1, <6>1
          <5>3. CASE l # 0
            <6>1. 4 \in 4 .. l + 3
              BY <1>2, <5>3
            <6> QED
              BY <1>4, <5>1, <6>1
          <5> QED
            BY <5>2, <5>3
        <4> QED
          BY <1>12, <3>5, <4>1, BlockLines, Zenon DEF j
      <3>6. CASE j = L + (l + 4)
        <4>1. v[i] = "end"
          <5>1. i = L + (l + 5)
            BY <1>1, <1>2, <3>1, <3>6
          <5> QED
            BY <1>4, <5>1
        <4> QED
          BY <1>12, <3>6, <4>1, BlockLines, Zenon DEF j
      <3> QED
        BY <3>3, <3>4, <3>5, <3>6
    <2> QED
      BY <2>1, <2>2
  <1>14. v[L + (l + 5)] # "newline" /\ L + (l + 5) >= 1 /\ 3 * (k + 1) = 3 * k + 3
    BY <1>1, <1>2, <1>4
  <1> QED
    BY <1>3, <1>12, <1>13, <1>14, Zenon DEF Framed, v

\* A text of blocks is framed (_assemble).
LEMMA AssembledIsFramed ==
    ASSUME NEW blocks \in Seq(Seq(Builder!Atoms))
    PROVE  \E k : Framed(Builder!Assembled(blocks), k)
  <1> DEFINE n == Len(blocks)
             I == <<"instruction">>
             B(i) == Builder!Newline \o Builder!Block(blocks[i])
             s == [i \in DOMAIN blocks |-> B(i)]
  <1>1. n \in Nat /\ DOMAIN blocks = 1 .. n /\ \A i \in 1 .. n : blocks[i] \in Seq(Builder!Atoms)
    BY LenProperties, ElementOfSeq
  <1>2. \A i \in 1 .. n : \E l : Lined(B(i), l)
    BY <1>1, BlockIsLined
  <1>3. \A i \in 1 .. n : B(i) \in Seq(Signs)
    BY <1>2 DEF Lined
  <1> HIDE DEF B, n
  <1>4. s \in Seq(Seq(Signs)) /\ Len(s) = n /\ \A i \in 1 .. n : s[i] = B(i)
    BY <1>1, <1>3
  <1>5. Builder!Assembled(blocks) = I \o Builder!FlattenSeq(s)
    BY DEF Builder!Assembled, Builder!Instruction, B
  <1> HIDE DEF s
  <1>6. PICK f \in [0 .. n -> Seq(Signs)] : Joins(s, f) /\ Builder!FlattenSeq(s) = f[n]
    BY <1>4, FlattenJoins
  <1>7. f[0] = <<>> /\ \A i \in 1 .. n : f[i] = f[i - 1] \o s[i]
    BY <1>4, <1>6 DEF Joins
  <1>8. I \in Seq(Signs) /\ Len(I) = 1 /\ I[1] = "instruction"
    <2>1. "instruction" \in Signs
      BY DEF Signs
    <2> QED
      BY <2>1, SignIsText, Zenon
  <1> HIDE DEF I
  <1> DEFINE A == {i \in 0 .. n : Framed(I \o f[i], i)}
  <1>9. 0 \in A
    <2>1. I \o f[0] = I
      BY <1>7, <1>8, ConcatEmptySeq
    <2>2. Breaks(I, 1) = {} /\ Breaks(I, 0) = {}
      <3>1. I[1] # "newline" /\ \A j \in 1 .. 1 : j = 1
        BY <1>8
      <3>2. 1 .. 0 = {}
        OBVIOUS
      <3> QED
        BY <3>1, <3>2 DEF Breaks
    <2>3. IsFiniteSet({}) /\ Cardinality({}) = 0
      BY FS_EmptySet
    <2>4. Marked("instruction", 1)
      BY BlockLines
    <2>5. Framed(I, 0)
      <3>1. ASSUME NEW i \in 1 .. 1
            PROVE  Marked(I[i], 1 + Cardinality(Breaks(I, i - 1)))
        <4>1. i = 1 /\ i - 1 = 0 /\ 1 + 0 = 1
          OBVIOUS
        <4> QED
          BY <1>8, <2>2, <2>3, <2>4, <4>1
      <3>2. 3 * 0 = 0 /\ 1 >= 1 /\ I[1] # "newline"
        BY <1>8
      <3> QED
        BY <1>8, <2>2, <2>3, <3>1, <3>2 DEF Framed
    <2>6. Framed(I \o f[0], 0)
      BY <2>1, <2>5, Zenon
    <2>7. 0 \in 0 .. n
      BY <1>1
    <2> QED
      BY <2>6, <2>7
  <1>10. ASSUME NEW i \in A, i < n
         PROVE  i + 1 \in A
    <2>1. /\ i \in Nat /\ i \in 0 .. n /\ i + 1 \in 1 .. n /\ i + 1 \in 0 .. n /\ (i + 1) - 1 = i
      BY <1>1, <1>10
    <2>2. Framed(I \o f[i], i)
      OBVIOUS
    <2>3. f[i + 1] = f[i] \o B(i + 1)
      BY <1>4, <1>7, <2>1
    <2>4. PICK l : Lined(B(i + 1), l)
      BY <1>2, <2>1
    <2>5. f[i] \in Seq(Signs) /\ B(i + 1) \in Seq(Signs)
      BY <1>3, <1>6, <2>1
    <2>6. (I \o f[i]) \o B(i + 1) = I \o (f[i] \o B(i + 1))
      <3> DEFINE c == f[i]
                 d == B(i + 1)
      <3>1. I \in Seq(Signs) /\ c \in Seq(Signs) /\ d \in Seq(Signs)
        BY <1>8, <2>5
      <3> HIDE DEF c, d, A
      <3>2. (I \o c) \o d = I \o (c \o d)
        BY <3>1
      <3> QED
        BY <3>2 DEF c, d
    <2>7. Framed((I \o f[i]) \o B(i + 1), i + 1)
      <3> HIDE DEF A
      <3> QED
        BY <2>1, <2>2, <2>4, FrameGrows
    <2> QED
      BY <2>1, <2>3, <2>6, <2>7
  <1>11. n \in A
    <2>1. A \in SUBSET (0 .. n)
      OBVIOUS
    <2>2. n \in Nat
      BY <1>1
    <2> HIDE DEF A
    <2>3. \A i \in A : i < n => i + 1 \in A
      BY <1>10
    <2>4. A = 0 .. n
      BY <1>9, <2>1, <2>2, <2>3, UpToN, Zenon
    <2>5. n \in 0 .. n
      BY <2>2
    <2> QED
      BY <2>4, <2>5
  <1>12. Framed(I \o f[n], n)
    BY <1>11
  <1> QED
    BY <1>5, <1>6, <1>12, Zenon

\* In a framed text no line looks like one of the builder's.
LEMMA FramedIsOwn ==
    ASSUME NEW t, NEW k, Framed(t, k)
    PROVE  /\ "angle" \notin Builder!Range(t)
           /\ \A i \in Builder!LineStarts(t) :
                 i \in DOMAIN t /\ Marked(t[i], Builder!LineNumber(t, i))
  <1>1. /\ t \in Seq(Signs) /\ Len(t) >= 1 /\ t[Len(t)] # "newline"
        /\ \A i \in 1 .. Len(t) : i = 1 \/ t[i - 1] = "newline"
               => Marked(t[i], 1 + Cardinality(Breaks(t, i - 1)))
    BY DEF Framed
  <1>2. Len(t) \in Nat /\ DOMAIN t = 1 .. Len(t) /\ \A i \in 1 .. Len(t) : t[i] \in Signs
    BY <1>1, LenProperties, ElementOfSeq
  <1>3. "angle" \notin Builder!Range(t)
    <2>1. "angle" \notin Signs
      BY DEF Signs, Written
    <2> QED
      BY <1>2, <2>1 DEF Builder!Range
  <1>4. ASSUME NEW i \in Builder!LineStarts(t)
        PROVE  i \in DOMAIN t /\ Marked(t[i], Builder!LineNumber(t, i))
    <2>1. i = 1 \/ \E j \in DOMAIN t : t[j] = "newline" /\ i = j + 1
      BY DEF Builder!LineStarts
    <2>2. i \in 1 .. Len(t) /\ (i = 1 \/ t[i - 1] = "newline")
      <3>1. ASSUME NEW j \in 1 .. Len(t), t[j] = "newline", i = j + 1
            PROVE  i \in 1 .. Len(t) /\ i - 1 = j
        <4>1. j # Len(t)
          BY <1>1, <3>1
        <4>2. Len(t) \in Nat /\ j \in 1 .. Len(t)
          BY <1>2, <3>1
        <4> QED
          BY <3>1, <4>1, <4>2
      <3> QED
        BY <1>1, <1>2, <2>1, <3>1
    <2>3. Builder!LineNumber(t, i) = 1 + Cardinality(Breaks(t, i - 1))
      BY DEF Builder!LineNumber, Breaks, Builder!Cardinality, Cardinality
    <2> QED
      BY <1>1, <1>2, <2>2, <2>3
  <1> QED
    BY <1>3, <1>4

\* No memory can write a line that looks like a marker of the builder.
LEMMA OwnMarkers ==
    ASSUME NEW memories \in Seq(Seq(Builder!Atoms)), NEW budget
    PROVE  Builder!OnlyOwnMarkers(budget, memories)
  <1> DEFINE text == Builder!FormatForPrompt(budget, memories).text
             selected == Builder!Selected(budget, memories)
  <1>1. SUFFICES ASSUME text # <<>>
                 PROVE  /\ "angle" \notin Builder!Range(text)
                        /\ \A i \in Builder!LineStarts(text) :
                              i \in DOMAIN text /\ Marked(text[i], Builder!LineNumber(text, i))
    BY DEF Builder!OnlyOwnMarkers, Marked
  <1>2. text = Builder!Assembled(memories) \/ text = Builder!Assembled(selected)
    BY <1>1 DEF Builder!FormatForPrompt, Builder!Raised, Builder!Formatted
  <1>3. selected \in Seq(Seq(Builder!Atoms))
    <2>1. PICK S : Taken(budget, memories, Len(memories), S, selected)
      BY SelectionTaken
    <2>2. S \in SUBSET (1 .. Len(memories)) /\ selected = InOrder(memories, S)
      BY <2>1, Zenon DEF Taken
    <2> QED
      BY <2>2, InOrderType
  <1> HIDE DEF text, selected
  <1>4. \E k : Framed(text, k)
    BY <1>2, <1>3, AssembledIsFramed
  <1> QED
    BY <1>4, FramedIsOwn

\* The prompt is bounded and its lines are the builder's, whatever the budget,
\* the counter and the memories (ContextBuilder.format_for_prompt).
THEOREM PromptsAreBoundedAlways == Spec => []PromptsAreBounded
  <1>1. ASSUME NEW x \in Prompts
        PROVE  /\ Builder!PromptIsBounded(x.budget, x.memories)
               /\ Builder!OnlyOwnMarkers(x.budget, x.memories)
    <2>1. x.memories \in Seq(Seq(Builder!Atoms))
      BY PromptsOfMemories DEF PromptsOfMemories
    <2> QED
      BY <2>1, PromptBounded, OwnMarkers
  <1>2. InUse => PromptsAreBounded
    BY <1>1 DEF PromptsAreBounded, InUse
  <1> QED
    BY <1>2, UsedAlways, PTL
-----------------------------------------------------------------------------
\* The gates select as the library does.
LEMMA GateInOrder == ASSUME NEW s, NEW S PROVE Gate!InOrder(s, S) = InOrder(s, S)
  <1>1. \A T, R : Gate!Sorted(T, R) = Sorted(T, R)
    BY DEF Gate!Sorted, Sorted, Gate!Cardinality, Cardinality
  <1> QED
    BY <1>1, Zenon DEF Gate!InOrder, InOrder

\* The positional parameters are the first so many.
LEMMA PositionalPrefix ==
    ASSUME NEW s, Gate!IsSignature(s)
    PROVE  \E p \in 0 .. Len(s) : \A i \in DOMAIN s : s[i].kind \in Gate!Positional <=> i <= p
  <1> DEFINE F == {i \in DOMAIN s : s[i].kind \in Gate!Positional}
  <1>1. /\ Len(s) \in Nat /\ DOMAIN s = 1 .. Len(s)
        /\ \A i, j \in DOMAIN s : i < j /\ s[j].kind \in Gate!Positional
                                    => s[i].kind \in Gate!Positional
    BY LenProperties DEF Gate!IsSignature
  <1> DEFINE p == CHOOSE i \in F \cup {0} : \A j \in F : j <= i
  <1>2. p \in F \cup {0} /\ \A j \in F : j <= p
    <2>1. F \in SUBSET (1 .. Len(s))
      BY <1>1
    <2> HIDE DEF F
    <2> QED
      BY <1>1, <2>1, LastPosition
  <1> HIDE DEF p
  <1>3. p \in 0 .. Len(s)
    BY <1>1, <1>2
  <1>4. \A i \in DOMAIN s : s[i].kind \in Gate!Positional <=> i <= p
    BY <1>1, <1>2
  <1> QED
    BY <1>3, <1>4

\* What a comparison without an issue says of two signatures.
LEMMA NoSignatureIssues ==
    ASSUME NEW old, NEW new, Gate!IsSignature(old), Gate!IsSignature(new),
           Gate!SignatureIssues(old, new) = {}
    PROVE  /\ \A j \in DOMAIN old : \E i \in DOMAIN new : new[i].name = old[j].name
           /\ \A i \in DOMAIN new, j \in DOMAIN old : new[i].name = old[j].name =>
                 /\ new[i].required => old[j].required
                 /\ \/ new[i].kind = old[j].kind
                    \/ /\ new[i].kind = "positional_or_keyword"
                       /\ old[j].kind \in {"positional_only", "keyword_only"}
           /\ \A i \in DOMAIN new : (\A j \in DOMAIN old : old[j].name # new[i].name) =>
                 /\ ~ new[i].required
                 /\ new[i].kind \in Gate!Positional =>
                       /\ ~ (i < Gate!LastOld(old, new))
                       /\ ~ Gate!HasKind(old, {"var_positional"})
           /\ Gate!OldPositional(new, old) = Gate!OldPositional(old, old)
  <1> DEFINE Issues(i) == IF new[i].name \in Gate!Named(old)
                          THEN Gate!ParameterIssues(old[Gate!Index(old, new[i].name)], new[i])
                          ELSE Gate!AddedIssues(old, new, i)
  <1>1. /\ UNION {Issues(i) : i \in DOMAIN new} = {}
        /\ {"parameter_removed" : n \in Gate!Named(old) \ Gate!Named(new)} = {}
        /\ {"positional_order_changed" : n \in
              {1} \cap {IF Gate!OldPositional(new, old) = Gate!OldPositional(old, old)
                        THEN 0 ELSE 1}} = {}
    BY DEF Gate!SignatureIssues
  <1>2. \A i \in DOMAIN new : Issues(i) = {}
    <2> HIDE DEF Issues
    <2> QED
      BY <1>1
  <1>3. \A j \in DOMAIN old : \E i \in DOMAIN new : new[i].name = old[j].name
    BY <1>1 DEF Gate!Named
  <1>4. Gate!OldPositional(new, old) = Gate!OldPositional(old, old)
    BY <1>1
  <1>5. ASSUME NEW i \in DOMAIN new, NEW j \in DOMAIN old, new[i].name = old[j].name
        PROVE  /\ new[i].required => old[j].required
               /\ \/ new[i].kind = old[j].kind
                  \/ /\ new[i].kind = "positional_or_keyword"
                     /\ old[j].kind \in {"positional_only", "keyword_only"}
    <2>1. Gate!Index(old, new[i].name) = j
      <3>1. Len(old) \in Nat /\ DOMAIN old = 1 .. Len(old)
        BY LenProperties DEF Gate!IsSignature
      <3>2. \A h \in DOMAIN old : old[h].name = new[i].name <=> h = j
        BY <1>5, <3>1 DEF Gate!IsSignature
      <3> QED
        BY <3>2 DEF Gate!Index
    <2>2. Gate!ParameterIssues(old[j], new[i]) = {}
      BY <1>2, <1>5, <2>1 DEF Gate!Named
    <2>3. /\ "parameter_became_required" \notin Gate!ParameterIssues(old[j], new[i])
          /\ "parameter_kind_narrowed" \notin Gate!ParameterIssues(old[j], new[i])
      BY <2>2
    <2>4. /\ new[i].required => old[j].required
          /\ Gate!Modes(old[j].kind) \subseteq Gate!Modes(new[i].kind)
      BY <2>3 DEF Gate!ParameterIssues
    <2>5. old[j].kind \in Gate!Kinds /\ new[i].kind \in Gate!Kinds
      <3> DEFINE R == [name : STRING, kind : Gate!Kinds, required : BOOLEAN,
                       default : STRING, annotation : SUBSET STRING]
      <3>1. old \in Seq(R) /\ new \in Seq(R)
        BY DEF Gate!IsSignature
      <3>2. old[j] \in R /\ new[i] \in R
        <4> HIDE DEF R
        <4> QED
          BY <3>1, ElementOfSeq, LenProperties
      <3> QED
        BY <3>2
    <2> QED
      BY <2>4, <2>5 DEF Gate!Modes, Gate!Kinds, Gate!Positional, Gate!Nameable
  <1>6. ASSUME NEW i \in DOMAIN new, \A j \in DOMAIN old : old[j].name # new[i].name
        PROVE  /\ ~ new[i].required
               /\ new[i].kind \in Gate!Positional =>
                       /\ ~ (i < Gate!LastOld(old, new))
                       /\ ~ Gate!HasKind(old, {"var_positional"})
    <2>1. Gate!AddedIssues(old, new, i) = {}
      BY <1>2, <1>6 DEF Gate!Named
    <2>2. /\ "required_parameter_added" \notin Gate!AddedIssues(old, new, i)
          /\ "positional_parameter_inserted" \notin Gate!AddedIssues(old, new, i)
      BY <2>1
    <2> QED
      BY <2>2 DEF Gate!AddedIssues
  <1> QED
    BY <1>3, <1>4, <1>5, <1>6

\* The last parameter of the candidate that the baseline takes by position.
LEMMA LastOldPlace ==
    ASSUME NEW old, NEW new, Gate!IsSignature(new)
    PROVE  LET at == {i \in DOMAIN new : \E j \in DOMAIN old :
                          old[j].name = new[i].name /\ old[j].kind \in Gate!Positional}
               l == Gate!LastOld(old, new)
           IN  at \in SUBSET (1 .. Len(new)) /\ l \in at \cup {0} /\ \A j \in at : j <= l
  <1> DEFINE at == {i \in DOMAIN new : \E j \in DOMAIN old :
                        old[j].name = new[i].name /\ old[j].kind \in Gate!Positional}
             l == Gate!LastOld(old, new)
  <1>1. Len(new) \in Nat /\ DOMAIN new = 1 .. Len(new)
    BY LenProperties DEF Gate!IsSignature
  <1>2. at \in SUBSET (1 .. Len(new))
    BY <1>1
  <1>3. l = CHOOSE i \in at \cup {0} : \A j \in at : j <= i
    BY DEF Gate!LastOld
  <1>4. l \in at \cup {0} /\ \A j \in at : j <= l
    <2> HIDE DEF at, l
    <2> QED
      BY <1>1, <1>2, <1>3, LastPosition
  <1> QED
    BY <1>2, <1>4

\* The parameters the baseline takes by position are the first of the candidate
\* too, in the same order, if no other takes a place among them.
LEMMA PlacesKept ==
    ASSUME NEW old, NEW new, Gate!IsSignature(old), Gate!IsSignature(new),
           Gate!SignatureIssues(old, new) = {}, ~ Gate!TakesPlaces(old, new),
           NEW p \in 0 .. Len(old),
           \A i \in DOMAIN old : old[i].kind \in Gate!Positional <=> i <= p
    PROVE  /\ p <= Len(new)
           /\ \A i \in 1 .. p : /\ new[i].name = old[i].name
                                /\ new[i].kind \in Gate!Positional
           /\ \A i \in DOMAIN new : i > p /\ new[i].kind \in Gate!Positional =>
                 ~ Gate!HasKind(old, {"var_positional"})
  <1> DEFINE names == {old[i].name : i \in {j \in DOMAIN old : old[j].kind \in Gate!Positional}}
             at == {i \in DOMAIN new : new[i].name \in names}
             l == Gate!LastOld(old, new)
  <1>1. /\ Len(old) \in Nat /\ DOMAIN old = 1 .. Len(old)
        /\ Len(new) \in Nat /\ DOMAIN new = 1 .. Len(new)
        /\ \A i, j \in DOMAIN old : old[i].name = old[j].name => i = j
    BY LenProperties DEF Gate!IsSignature
  <1>2. at \in SUBSET (1 .. Len(new)) /\ l \in at \cup {0} /\ \A j \in at : j <= l
    <2>1. at = {i \in DOMAIN new : \E j \in DOMAIN old :
                   old[j].name = new[i].name /\ old[j].kind \in Gate!Positional}
      OBVIOUS
    <2> QED
      BY <2>1, LastOldPlace
  <1>3. \A i \in at : new[i].kind \in Gate!Positional
    BY NoSignatureIssues DEF Gate!Positional
  \* Who is positional there but was not here, is new or was keyword-only.
  <1>4. ASSUME NEW i \in DOMAIN new, new[i].kind \in Gate!Positional, i \notin at
        PROVE  ~ (i < l) /\ ~ Gate!HasKind(old, {"var_positional"})
    <2>1. CASE \A j \in DOMAIN old : old[j].name # new[i].name
      BY <1>4, <2>1, NoSignatureIssues
    <2>2. ASSUME NEW j \in DOMAIN old, old[j].name = new[i].name
          PROVE  ~ (i < l) /\ ~ Gate!HasKind(old, {"var_positional"})
      <3>1. old[j].kind \notin Gate!Positional
        BY <1>4, <2>2
      <3>2. old[j].kind = "keyword_only"
        BY <1>4, <2>2, <3>1, NoSignatureIssues DEF Gate!Positional
      <3> QED
        BY <1>4, <2>2, <3>2 DEF Gate!TakesPlaces
    <2> QED
      BY <2>1, <2>2
  <1>5. ASSUME NEW i \in DOMAIN new, i <= l
        PROVE  i \in at
    <2>1. new[i].kind \in Gate!Positional
      <3>1. CASE i = l
        BY <1>1, <1>2, <1>3, <3>1
      <3>2. CASE i < l
        BY <1>1, <1>2, <1>3, <3>2 DEF Gate!IsSignature
      <3> QED
        BY <1>1, <1>2, <1>5, <3>1, <3>2
    <2>2. i \in at \/ ~ (i < l)
      BY <1>4, <2>1
    <2> HIDE DEF at, l
    <2> QED
      BY <1>1, <1>2, <1>5, <2>2
  <1> HIDE DEF l
  <1>6. at = 1 .. l /\ l \in 0 .. Len(new)
    <2>1. l \in 0 .. Len(new)
      BY <1>1, <1>2
    <2>2. \A i \in at : i \in 1 .. l
      BY <1>1, <1>2, <2>1
    <2>3. \A i \in 1 .. l : i \in at
      BY <1>1, <1>5, <2>1
    <2> HIDE DEF at
    <2> QED
      BY <2>1, <2>2, <2>3
  <1>7. {i \in DOMAIN old : old[i].name \in names} = 1 .. p
    <2>1. \A i \in DOMAIN old : old[i].name \in names <=> i <= p
      BY <1>1
    <2> HIDE DEF names
    <2> QED
      BY <1>1, <2>1
  <1>8. Gate!OldPositional(new, old) = [k \in 1 .. l |-> new[k].name]
    <2> DEFINE s == [i \in DOMAIN new |-> new[i].name]
    <2>1. Gate!OldPositional(new, old) = Gate!InOrder(s, at)
      BY DEF Gate!OldPositional
    <2>2. Gate!InOrder(s, at) = [k \in 1 .. l |-> s[k]]
      <3> HIDE DEF s
      <3>1. l \in Nat
        BY <1>1, <1>6
      <3> HIDE DEF at, l
      <3> QED
        BY <1>6, <3>1, GateInOrder, OrderOfInterval
    <2>3. \A k \in 1 .. l : s[k] = new[k].name
      BY <1>1, <1>6
    <2> HIDE DEF s
    <2> QED
      BY <2>1, <2>2, <2>3
  <1>9. Gate!OldPositional(old, old) = [k \in 1 .. p |-> old[k].name]
    <2> DEFINE s == [i \in DOMAIN old |-> old[i].name]
    <2>1. Gate!OldPositional(old, old) = Gate!InOrder(s, 1 .. p)
      BY <1>7 DEF Gate!OldPositional
    <2>2. Gate!InOrder(s, 1 .. p) = [k \in 1 .. p |-> s[k]]
      <3> HIDE DEF s
      <3> QED
        BY <1>1, GateInOrder, OrderOfInterval
    <2>3. \A k \in 1 .. p : s[k] = old[k].name
      BY <1>1
    <2> HIDE DEF s
    <2> QED
      BY <2>1, <2>2, <2>3
  <1>10. l = p /\ \A k \in 1 .. p : new[k].name = old[k].name
    <2> DEFINE f == [k \in 1 .. l |-> new[k].name]
               g == [k \in 1 .. p |-> old[k].name]
    <2>0. Gate!OldPositional(new, old) = Gate!OldPositional(old, old)
      BY NoSignatureIssues, Zenon
    <2>1. f = g
      BY <1>8, <1>9, <2>0
    <2>2. DOMAIN f = 1 .. l /\ DOMAIN g = 1 .. p
      OBVIOUS
    <2>3. 1 .. l = 1 .. p
      BY <2>1, <2>2
    <2>4. l = p
      BY <1>1, <1>6, <2>3
    <2>5. \A k \in 1 .. p : f[k] = new[k].name /\ g[k] = old[k].name
      BY <2>4
    <2> HIDE DEF f, g
    <2> QED
      BY <2>1, <2>4, <2>5
  <1>11. ASSUME NEW i \in DOMAIN new, i > p, new[i].kind \in Gate!Positional
         PROVE  ~ Gate!HasKind(old, {"var_positional"})
    <2>1. i \notin at
      <3> HIDE DEF at
      <3> QED
        BY <1>1, <1>6, <1>10, <1>11
    <2> QED
      BY <1>4, <1>11, <2>1
  <1>12. \A i \in 1 .. p : new[i].kind \in Gate!Positional
    <2> HIDE DEF at
    <2> QED
      BY <1>3, <1>6, <1>10
  <1> QED
    BY <1>1, <1>6, <1>10, <1>11, <1>12

\* Then each positional argument of a call of the baseline stays where it was.
LEMMA SamePlaces ==
    ASSUME NEW old, NEW new, Gate!IsSignature(old), Gate!IsSignature(new),
           Gate!SignatureIssues(old, new) = {}, ~ Gate!TakesPlaces(old, new),
           NEW n \in Nat, NEW keywords, Gate!Accepts(old, n, keywords)
    PROVE  /\ Gate!Placed(new, n) = Gate!Placed(old, n)
           /\ \A i \in Gate!Placed(old, n) : new[i].name = old[i].name
  <1>1. /\ Len(old) \in Nat /\ DOMAIN old = 1 .. Len(old)
        /\ Len(new) \in Nat /\ DOMAIN new = 1 .. Len(new)
    BY LenProperties DEF Gate!IsSignature
  <1>2. PICK p \in 0 .. Len(old) :
            \A i \in DOMAIN old : old[i].kind \in Gate!Positional <=> i <= p
    BY PositionalPrefix
  <1>3. /\ p <= Len(new)
        /\ \A i \in 1 .. p : /\ new[i].name = old[i].name
                             /\ new[i].kind \in Gate!Positional
        /\ \A i \in DOMAIN new : i > p /\ new[i].kind \in Gate!Positional =>
              ~ Gate!HasKind(old, {"var_positional"})
    BY <1>2, PlacesKept
  <1>4. \A i \in DOMAIN old : i \in Gate!Placed(old, n) <=> i <= p /\ i <= n
    BY <1>2 DEF Gate!Placed
  <1>5. Gate!Placed(old, n) \subseteq DOMAIN old /\ Gate!Placed(new, n) \subseteq DOMAIN new
    BY DEF Gate!Placed
  <1>6. ASSUME NEW i \in Gate!Placed(old, n)
        PROVE  i \in Gate!Placed(new, n) /\ new[i].name = old[i].name
    <2>1. i \in 1 .. p /\ i \in DOMAIN new /\ i <= n
      BY <1>1, <1>2, <1>3, <1>4, <1>5
    <2> QED
      BY <1>3, <2>1 DEF Gate!Placed
  <1>7. ASSUME NEW i \in Gate!Placed(new, n)
        PROVE  i \in Gate!Placed(old, n)
    <2>1. i \in DOMAIN new /\ new[i].kind \in Gate!Positional /\ i <= n
      BY DEF Gate!Placed
    <2>2. CASE i > p
      <3>1. ~ Gate!HasKind(old, {"var_positional"})
        BY <1>3, <2>1, <2>2
      <3>2. 1 .. n = Gate!Placed(old, n)
        BY <3>1 DEF Gate!Accepts
      <3> QED
        BY <1>1, <2>1, <3>2
    <2>3. CASE ~ (i > p)
      BY <1>1, <1>2, <1>4, <2>1, <2>3
    <2> QED
      BY <2>2, <2>3
  <1> QED
    BY <1>6, <1>7

\* Every call of the baseline is kept, if the candidate takes neither its places
\* nor its keywords.
LEMMA CallsOfBaseline ==
    ASSUME NEW old, NEW new, Gate!IsSignature(old), Gate!IsSignature(new),
           Gate!SignatureIssues(old, new) = {},
           ~ Gate!TakesPlaces(old, new), ~ Gate!TakesKeywords(old, new),
           NEW n \in Nat, NEW keywords, Gate!Accepts(old, n, keywords)
    PROVE  Gate!CallKept(old, new, n, keywords)
  <1>1. /\ Len(old) \in Nat /\ DOMAIN old = 1 .. Len(old)
        /\ Len(new) \in Nat /\ DOMAIN new = 1 .. Len(new)
        /\ \A i, j \in DOMAIN old : old[i].name = old[j].name => i = j
        /\ \A i, j \in DOMAIN new : new[i].name = new[j].name => i = j
    BY LenProperties DEF Gate!IsSignature
  <1>2. /\ Gate!Placed(new, n) = Gate!Placed(old, n)
        /\ \A i \in Gate!Placed(old, n) : new[i].name = old[i].name
    BY SamePlaces
  <1>3. /\ Gate!Placed(old, n) \subseteq DOMAIN old
        /\ Gate!Placed(new, n) \subseteq DOMAIN new
        /\ \A i \in Gate!Placed(old, n) : old[i].kind \in Gate!Positional
    BY DEF Gate!Placed
  <1>4. ASSUME NEW x \in Gate!ByKeyword(old, n)
        PROVE  x \in Gate!ByKeyword(new, n)
    <2>1. PICK j \in DOMAIN old : /\ x = old[j].name /\ j \notin Gate!Placed(old, n)
                                  /\ old[j].kind \in Gate!Nameable
      BY DEF Gate!ByKeyword
    <2>2. PICK i \in DOMAIN new : new[i].name = old[j].name
      BY NoSignatureIssues
    <2>3. i \notin Gate!Placed(new, n)
      BY <1>1, <1>2, <1>3, <2>1, <2>2
    <2>4. new[i].kind \in Gate!Nameable
      BY <2>1, <2>2, NoSignatureIssues DEF Gate!Nameable
    <2> QED
      BY <2>1, <2>2, <2>3, <2>4 DEF Gate!ByKeyword
  \* What **kwargs collected, it still does.
  <1>5. ASSUME NEW x \in keywords, x \in Gate!ByKeyword(new, n)
        PROVE  x \in Gate!ByKeyword(old, n)
    <2>1. CASE ~ Gate!HasKind(old, {"var_keyword"})
      BY <1>5, <2>1 DEF Gate!Accepts
    <2>2. CASE Gate!HasKind(old, {"var_keyword"})
      <3>1. PICK i \in DOMAIN new : /\ x = new[i].name /\ i \notin Gate!Placed(new, n)
                                    /\ new[i].kind \in Gate!Nameable
        BY <1>5 DEF Gate!ByKeyword
      <3>2. x \in Gate!ByKeyword(new, 0)
        BY <1>1, <3>1 DEF Gate!ByKeyword, Gate!Placed
      <3>3. x \in Gate!ByKeyword(old, 0)
        BY <2>2, <3>2 DEF Gate!TakesKeywords
      <3>4. PICK j \in DOMAIN old : x = old[j].name /\ old[j].kind \in Gate!Nameable
        BY <3>3 DEF Gate!ByKeyword
      <3>5. j \notin Gate!Placed(old, n)
        BY <1>1, <1>2, <1>3, <3>1, <3>4
      <3> QED
        BY <3>4, <3>5 DEF Gate!ByKeyword
    <2> QED
      BY <2>1, <2>2
  <1>6. ASSUME NEW K \in {"var_positional", "var_keyword"}, Gate!HasKind(old, {K})
        PROVE  Gate!HasKind(new, {K})
    <2>1. PICK j \in DOMAIN old : old[j].kind = K
      BY <1>6 DEF Gate!HasKind
    <2>2. PICK i \in DOMAIN new : new[i].name = old[j].name
      BY NoSignatureIssues
    <2>3. new[i].kind = K
      BY <2>1, <2>2, NoSignatureIssues
    <2> QED
      BY <2>3 DEF Gate!HasKind
  <1>7. 1 .. n # Gate!Placed(new, n) => Gate!HasKind(new, {"var_positional"})
    BY <1>2, <1>6 DEF Gate!Accepts
  <1>8. keywords \ Gate!ByKeyword(new, n) # {} => Gate!HasKind(new, {"var_keyword"})
    <2>1. keywords \ Gate!ByKeyword(new, n) \subseteq keywords \ Gate!ByKeyword(old, n)
      BY <1>4
    <2>2. keywords \ Gate!ByKeyword(old, n) # {} => Gate!HasKind(old, {"var_keyword"})
      BY DEF Gate!Accepts
    <2> QED
      BY <1>6, <2>1, <2>2
  <1>9. ASSUME NEW i \in Gate!Placed(new, n), new[i].name \in keywords,
               new[i].kind = "positional_or_keyword"
        PROVE  FALSE
    <2>1. /\ i \in Gate!Placed(old, n) /\ i \in DOMAIN old /\ i \in DOMAIN new
          /\ new[i].name = old[i].name /\ old[i].kind \in Gate!Positional
      BY <1>2, <1>3
    <2>2. old[i].kind = "positional_only"
      BY <1>9, <2>1 DEF Gate!Accepts, Gate!Positional
    \* What may not be given by name there was **kwargs'.
    <2>3. \A m \in Nat : old[i].name \notin Gate!ByKeyword(old, m)
      BY <1>1, <2>1, <2>2 DEF Gate!ByKeyword, Gate!Nameable
    <2>4. Gate!HasKind(old, {"var_keyword"})
      BY <1>9, <2>1, <2>3 DEF Gate!Accepts
    <2>5. new[i].name \in Gate!ByKeyword(new, 0)
      BY <1>1, <1>9, <2>1 DEF Gate!ByKeyword, Gate!Placed, Gate!Nameable
    <2> QED
      BY <2>1, <2>3, <2>4, <2>5 DEF Gate!TakesKeywords
  <1>10. ASSUME NEW i \in DOMAIN new, new[i].required
         PROVE  \/ \E h \in Gate!Placed(new, n) : new[h].name = new[i].name
                \/ new[i].name \in keywords \cap Gate!ByKeyword(new, n)
    <2>1. PICK j \in DOMAIN old : old[j].name = new[i].name
      BY <1>10, NoSignatureIssues
    <2>2. old[j].required
      BY <1>10, <2>1, NoSignatureIssues
    <2>3. \/ \E h \in Gate!Placed(old, n) : old[h].name = old[j].name
          \/ old[j].name \in keywords \cap Gate!ByKeyword(old, n)
      BY <2>2 DEF Gate!Accepts
    <2>4. CASE \E h \in Gate!Placed(old, n) : old[h].name = old[j].name
      BY <1>2, <2>1, <2>4
    <2>5. CASE old[j].name \in keywords \cap Gate!ByKeyword(old, n)
      BY <1>4, <2>1, <2>5
    <2> QED
      BY <2>3, <2>4, <2>5
  <1>11. Gate!Accepts(new, n, keywords)
    BY <1>7, <1>8, <1>9, <1>10 DEF Gate!Accepts
  <1> QED
    BY <1>2, <1>4, <1>5, <1>11 DEF Gate!CallKept

\* The calls that fill all places of the baseline, and *args where it has them,
\* name what else is required, and give to **kwargs what it has no parameter for.
LEMMA FullCall ==
    ASSUME NEW old, Gate!IsSignature(old), NEW p \in 0 .. Len(old),
           \A i \in DOMAIN old : old[i].kind \in Gate!Positional <=> i <= p,
           NEW n \in {p, p + 1}, n = p \/ Gate!HasKind(old, {"var_positional"}),
           NEW X, X # {} => Gate!HasKind(old, {"var_keyword"}),
           X \cap Gate!ByKeyword(old, 0) = {}
    PROVE  /\ \E K \in SUBSET Gate!Named(old) : Gate!Accepts(old, n, K \cup X)
           /\ Gate!Placed(old, n) = 1 .. p
           /\ n \in 0 .. Len(old) + 1
  <1>1. /\ Len(old) \in Nat /\ DOMAIN old = 1 .. Len(old)
        /\ \A i, j \in DOMAIN old : old[i].name = old[j].name => i = j
        /\ \A i \in DOMAIN old :
              old[i].required => old[i].kind \in Gate!Positional \cup Gate!Nameable
    BY LenProperties DEF Gate!IsSignature
  <1> DEFINE Asked == {j \in DOMAIN old : old[j].kind = "keyword_only"}
             K == {old[j].name : j \in Asked}
  <1>2. Gate!Placed(old, n) = 1 .. p /\ n \in 0 .. Len(old) + 1 /\ p \in Nat
    BY <1>1 DEF Gate!Placed
  <1>3. K \subseteq Gate!ByKeyword(old, n) /\ K \in SUBSET Gate!Named(old)
    <2>1. ASSUME NEW j \in Asked
          PROVE  j \notin Gate!Placed(old, n) /\ old[j].kind \in Gate!Nameable
      BY DEF Gate!Placed, Gate!Positional, Gate!Nameable
    <2> QED
      BY <2>1 DEF Gate!ByKeyword, Gate!Named
  <1>4. 1 .. n # Gate!Placed(old, n) => Gate!HasKind(old, {"var_positional"})
    BY <1>2
  <1>5. (K \cup X) \ Gate!ByKeyword(old, n) # {} => Gate!HasKind(old, {"var_keyword"})
    <2> HIDE DEF K
    <2> QED
      BY <1>3
  <1>6. ASSUME NEW i \in Gate!Placed(old, n), old[i].name \in K \cup X,
               old[i].kind = "positional_or_keyword"
        PROVE  FALSE
    <2>1. i \in DOMAIN old
      BY DEF Gate!Placed
    <2>2. old[i].name \in Gate!ByKeyword(old, 0)
      BY <1>1, <1>6, <2>1 DEF Gate!ByKeyword, Gate!Placed, Gate!Nameable
    <2>3. PICK j \in DOMAIN old : old[j].name = old[i].name /\ old[j].kind = "keyword_only"
      BY <1>6, <2>2
    <2> QED
      BY <1>1, <1>6, <2>1, <2>3
  <1>7. ASSUME NEW i \in DOMAIN old, old[i].required
        PROVE  \/ \E h \in Gate!Placed(old, n) : old[h].name = old[i].name
               \/ old[i].name \in (K \cup X) \cap Gate!ByKeyword(old, n)
    <2>1. CASE old[i].kind \in Gate!Positional
      <3>1. i \in Gate!Placed(old, n)
        BY <1>1, <1>2, <2>1
      <3> QED
        BY <3>1
    <2>2. CASE old[i].kind \notin Gate!Positional
      <3>1. old[i].kind = "keyword_only"
        BY <1>1, <1>7, <2>2 DEF Gate!Positional, Gate!Nameable
      <3>2. old[i].name \in K
        BY <3>1
      <3> HIDE DEF K
      <3> QED
        BY <1>3, <3>2
    <2> QED
      BY <2>1, <2>2
  <1>8. Gate!Accepts(old, n, K \cup X)
    <2> HIDE DEF K
    <2> QED
      BY <1>4, <1>5, <1>6, <1>7 DEF Gate!Accepts
  <1> QED
    BY <1>2, <1>3, <1>8

\* Conversely, a keyword taken from **kwargs breaks a call: it now goes to the
\* parameter, or clashes with the argument that has its place.
LEMMA TakenKeyword ==
    ASSUME NEW old, NEW new, Gate!IsSignature(old), Gate!IsSignature(new),
           Gate!TakesKeywords(old, new)
    PROVE  \E n \in 0 .. Len(old) + 1, keywords \in SUBSET (Gate!Named(old) \cup Gate!Named(new)) :
              ~ Gate!CallKept(old, new, n, keywords)
  <1>1. PICK p \in 0 .. Len(old) :
            \A i \in DOMAIN old : old[i].kind \in Gate!Positional <=> i <= p
    BY PositionalPrefix
  <1>2. PICK x \in Gate!ByKeyword(new, 0) : x \notin Gate!ByKeyword(old, 0)
    BY DEF Gate!TakesKeywords
  <1>3. PICK i \in DOMAIN new : x = new[i].name /\ new[i].kind \in Gate!Nameable
    BY <1>2 DEF Gate!ByKeyword
  <1>4. x \in Gate!Named(new) /\ Gate!HasKind(old, {"var_keyword"})
    BY <1>3 DEF Gate!Named, Gate!TakesKeywords
  <1>5. PICK K \in SUBSET Gate!Named(old) : Gate!Accepts(old, p, K \cup {x})
    <2>1. {x} \cap Gate!ByKeyword(old, 0) = {} /\ p \in {p, p + 1}
      BY <1>2
    <2> QED
      BY <1>1, <1>4, <2>1, FullCall
  <1>6. p \in 0 .. Len(old) + 1
    BY LenProperties DEF Gate!IsSignature
  <1>7. K \cup {x} \in SUBSET (Gate!Named(old) \cup Gate!Named(new))
    BY <1>4
  <1>8. ASSUME Gate!CallKept(old, new, p, K \cup {x})
        PROVE  FALSE
    <2>1. x \notin Gate!ByKeyword(old, p)
      <3>1. DOMAIN old = 1 .. Len(old)
        BY LenProperties DEF Gate!IsSignature
      <3> QED
        BY <1>2, <3>1 DEF Gate!ByKeyword, Gate!Placed
    <2>2. x \notin Gate!ByKeyword(new, p) /\ Gate!Accepts(new, p, K \cup {x})
      BY <1>5, <1>8, <2>1 DEF Gate!CallKept
    <2>3. i \in Gate!Placed(new, p)
      BY <1>3, <2>2 DEF Gate!ByKeyword
    <2>4. new[i].kind = "positional_or_keyword"
      BY <1>3, <2>3 DEF Gate!Placed, Gate!Positional, Gate!Nameable
    <2> QED
      BY <1>3, <2>2, <2>3, <2>4 DEF Gate!Accepts
  <1> QED
    BY <1>6, <1>7, <1>8

\* And so does a keyword-only parameter put into a place: the argument of that
\* place goes to it.
LEMMA TakenPlace ==
    ASSUME NEW old, NEW new, Gate!IsSignature(old), Gate!IsSignature(new),
           Gate!TakesPlaces(old, new)
    PROVE  \E n \in 0 .. Len(old) + 1, keywords \in SUBSET (Gate!Named(old) \cup Gate!Named(new)) :
              ~ Gate!CallKept(old, new, n, keywords)
  <1>1. /\ Len(old) \in Nat /\ DOMAIN old = 1 .. Len(old)
        /\ Len(new) \in Nat /\ DOMAIN new = 1 .. Len(new)
        /\ \A i, j \in DOMAIN old : old[i].name = old[j].name => i = j
        /\ \A i, j \in DOMAIN new : new[i].name = new[j].name => i = j
    BY LenProperties DEF Gate!IsSignature
  <1>2. PICK p \in 0 .. Len(old) :
            \A i \in DOMAIN old : old[i].kind \in Gate!Positional <=> i <= p
    BY PositionalPrefix
  <1>3. PICK i \in DOMAIN new, j \in DOMAIN old :
            /\ new[i].name = old[j].name
            /\ new[i].kind \in Gate!Positional /\ old[j].kind = "keyword_only"
            /\ i < Gate!LastOld(old, new) \/ Gate!HasKind(old, {"var_positional"})
    BY DEF Gate!TakesPlaces
  <1>4. ASSUME \A h \in 1 .. p : new[h].name = old[h].name, i <= p
        PROVE  FALSE
    <2>1. i \in DOMAIN old /\ old[i].name = old[j].name
      BY <1>1, <1>3, <1>4
    <2>2. old[i].kind \in Gate!Positional
      BY <1>2, <1>4, <2>1
    <2> QED
      BY <1>1, <1>3, <2>1, <2>2 DEF Gate!Positional
  <1>5. ASSUME NEW n \in {p, p + 1}, n = p \/ Gate!HasKind(old, {"var_positional"}),
               \A keywords \in SUBSET (Gate!Named(old) \cup Gate!Named(new)) :
                  Gate!CallKept(old, new, n, keywords)
        PROVE  Gate!Placed(new, n) = 1 .. p /\ \A h \in 1 .. p : new[h].name = old[h].name
    <2>1. /\ \E K \in SUBSET Gate!Named(old) : Gate!Accepts(old, n, K \cup {})
          /\ Gate!Placed(old, n) = 1 .. p
      <3> DEFINE X == {}
      <3>1. /\ X # {} => Gate!HasKind(old, {"var_keyword"})
            /\ X \cap Gate!ByKeyword(old, 0) = {}
        OBVIOUS
      <3>2. n = p \/ Gate!HasKind(old, {"var_positional"})
        BY <1>5
      <3> HIDE DEF X
      <3>3. /\ \E K \in SUBSET Gate!Named(old) : Gate!Accepts(old, n, K \cup X)
            /\ Gate!Placed(old, n) = 1 .. p
        BY <1>2, <3>1, <3>2, FullCall, Zenon
      <3> QED
        BY <3>3 DEF X
    <2>2. PICK K \in SUBSET Gate!Named(old) : Gate!Accepts(old, n, K)
      BY <2>1
    <2>3. K \in SUBSET (Gate!Named(old) \cup Gate!Named(new))
      OBVIOUS
    <2>4. Gate!CallKept(old, new, n, K)
      BY <1>5, <2>3
    <2> QED
      BY <2>1, <2>2, <2>4 DEF Gate!CallKept
  <1>6. ASSUME \A n \in 0 .. Len(old) + 1,
                  keywords \in SUBSET (Gate!Named(old) \cup Gate!Named(new)) :
                  Gate!CallKept(old, new, n, keywords)
        PROVE  FALSE
    <2>0. p \in 0 .. Len(old) + 1 /\ p + 1 \in 0 .. Len(old) + 1
      BY <1>1
    <2>1. CASE Gate!HasKind(old, {"var_positional"})
      <3>1. Gate!Placed(new, p + 1) = 1 .. p /\ \A h \in 1 .. p : new[h].name = old[h].name
        BY <1>5, <1>6, <2>0, <2>1
      <3>2. ~ (i <= p)
        BY <1>4, <3>1
      <3>3. p + 1 \in DOMAIN new
        BY <1>1, <3>2
      <3>4. new[p + 1].kind \in Gate!Positional
        <4>1. i = p + 1 \/ p + 1 < i
          BY <1>1, <3>2
        <4> QED
          BY <1>3, <3>3, <4>1 DEF Gate!IsSignature
      <3>5. p + 1 \in Gate!Placed(new, p + 1)
        BY <1>1, <3>3, <3>4 DEF Gate!Placed
      <3> QED
        BY <3>1, <3>5
    <2>2. CASE i < Gate!LastOld(old, new)
      <3> DEFINE k == Gate!LastOld(old, new)
      <3>1. Gate!Placed(new, p) = 1 .. p /\ \A h \in 1 .. p : new[h].name = old[h].name
        BY <1>5, <1>6, <2>0
      <3>2. k = 0 \/ \E h \in DOMAIN old : /\ k \in DOMAIN new
                                           /\ old[h].name = new[k].name
                                           /\ old[h].kind \in Gate!Positional
        BY LastOldPlace
      <3>3. k # 0
        BY <1>1, <2>2
      <3>4. PICK h \in DOMAIN old : /\ k \in DOMAIN new /\ old[h].name = new[k].name
                                    /\ old[h].kind \in Gate!Positional
        BY <3>2, <3>3
      <3>5. h \in 1 .. p
        BY <1>1, <1>2, <3>4
      <3>6. h \in DOMAIN new /\ new[h].name = new[k].name
        BY <3>1, <3>4, <3>5 DEF Gate!Placed
      <3>7. k = h
        BY <1>1, <3>4, <3>6
      <3>8. i <= p
        <4> HIDE DEF k
        <4>1. i < k
          BY <2>2 DEF k
        <4> QED
          BY <1>1, <3>5, <3>7, <4>1
      <3> QED
        BY <1>4, <3>1, <3>8
    <2> QED
      BY <1>3, <2>1, <2>2
  <1> QED
    BY <1>6

\* A signature that passes the comparison keeps every call the baseline accepts,
\* with each argument where it was, unless it takes a place or a keyword as the
\* two changes no check looks at do, and then there is a call it breaks
\* (_compare_signature, _compare_parameter).
THEOREM CallsAreKeptAlways == Spec => []CallsAreKept
  <1>1. ASSUME NEW x \in Signatures
        PROVE  Gate!CallsSurvive(x.old, x.new)
    <2>1. Gate!IsSignature(x.old) /\ Gate!IsSignature(x.new)
      BY SignaturesOfPython DEF SignaturesOfPython
    <2>2. Len(x.old) \in Nat
      BY <2>1, LenProperties DEF Gate!IsSignature
    <2>3. ASSUME Gate!SignatureIssues(x.old, x.new) = {},
                 ~ Gate!TakesPlaces(x.old, x.new), ~ Gate!TakesKeywords(x.old, x.new),
                 NEW n \in 0 .. Len(x.old) + 1, NEW keywords
          PROVE  Gate!CallKept(x.old, x.new, n, keywords)
      <3>1. n \in Nat
        BY <2>2
      <3>2. CASE Gate!Accepts(x.old, n, keywords)
        BY <2>1, <2>3, <3>1, <3>2, CallsOfBaseline
      <3>3. CASE ~ Gate!Accepts(x.old, n, keywords)
        BY <3>3 DEF Gate!CallKept
      <3> QED
        BY <3>2, <3>3
    <2>4. ASSUME Gate!TakesPlaces(x.old, x.new) \/ Gate!TakesKeywords(x.old, x.new)
          PROVE  \E n \in 0 .. Len(x.old) + 1,
                    keywords \in SUBSET (Gate!Named(x.old) \cup Gate!Named(x.new)) :
                    ~ Gate!CallKept(x.old, x.new, n, keywords)
      BY <2>1, <2>4, TakenKeyword, TakenPlace
    <2> QED
      BY <2>3, <2>4 DEF Gate!CallsSurvive
  <1>2. InUse => CallsAreKept
    BY <1>1 DEF CallsAreKept, InUse
  <1> QED
    BY <1>2, UsedAlways, PTL
-----------------------------------------------------------------------------
\* The step of a recursion on the levels D[0], D[1], ... D[N] of S: what it says
\* on a level depends on what it says on the level below.
Descends(S, Y, N, D, G) ==
    /\ D \in [0 .. N -> SUBSET S] /\ D[N] = S
    /\ G \in [S \X [S -> Y] -> Y]
    /\ \A f, g \in [S -> Y] : \A x \in D[0] : G[<<x, f>>] = G[<<x, g>>]
    /\ \A n \in 1 .. N : \A f, g \in [S -> Y] : (\A y \in D[n - 1] : f[y] = g[y])
           => \A x \in D[n] : G[<<x, f>>] = G[<<x, g>>]
Solves(f, S, Y, G) == f \in [S -> Y] /\ \A x \in S : f[x] = G[<<x, f>>]

\* Such a recursion has a function.
LEMMA RecursionExists ==
    ASSUME NEW S, NEW Y, Y # {}, NEW N, N \in Nat, NEW D, NEW G, Descends(S, Y, N, D, G)
    PROVE  \E f : Solves(f, S, Y, G)
  <1> DEFINE A == {n \in 0 .. N : \E f \in [S -> Y] : \A x \in D[n] : f[x] = G[<<x, f>>]}
             Next1(f) == [x \in S |-> G[<<x, f>>]]
  <1>1. /\ D \in [0 .. N -> SUBSET S] /\ D[N] = S
        /\ G \in [S \X [S -> Y] -> Y]
    BY Zenon DEF Descends
  <1>2. \A f, g \in [S -> Y] : \A x \in D[0] : G[<<x, f>>] = G[<<x, g>>]
    BY Zenon DEF Descends
  <1>3. \A n \in 1 .. N : \A f, g \in [S -> Y] : (\A y \in D[n - 1] : f[y] = g[y])
           => \A x \in D[n] : G[<<x, f>>] = G[<<x, g>>]
    BY Zenon DEF Descends
  <1>4. \A f \in [S -> Y] : Next1(f) \in [S -> Y] /\ \A x \in S : Next1(f)[x] = G[<<x, f>>]
    BY <1>1
  <1>5. \A n \in 0 .. N : D[n] \in SUBSET S
    BY <1>1
  <1> HIDE DEF Next1
  <1>6. 0 \in A
    <2>1. PICK y \in Y : TRUE
      OBVIOUS
    <2> DEFINE f == [x \in S |-> y]
               g == Next1(f)
    <2>2. f \in [S -> Y]
      OBVIOUS
    <2> HIDE DEF f
    <2>3. g \in [S -> Y] /\ \A x \in S : g[x] = G[<<x, f>>]
      BY <1>4, <2>2
    <2> HIDE DEF g
    <2>4. 0 \in 0 .. N
      OBVIOUS
    <2>5. \A x \in D[0] : G[<<x, f>>] = G[<<x, g>>]
      BY <1>2, <2>2, <2>3, Zenon
    <2>6. \A x \in D[0] : g[x] = G[<<x, g>>]
      BY <1>5, <2>3, <2>4, <2>5
    <2> QED
      BY <2>3, <2>4, <2>6
  <1>7. ASSUME NEW n \in A, n < N
        PROVE  n + 1 \in A
    <2>1. PICK f \in [S -> Y] : \A x \in D[n] : f[x] = G[<<x, f>>]
      OBVIOUS
    <2> DEFINE g == Next1(f)
    <2>2. g \in [S -> Y] /\ \A x \in S : g[x] = G[<<x, f>>]
      BY <1>4, <2>1
    <2> HIDE DEF g
    <2>3. n \in 0 .. N /\ n + 1 \in 0 .. N /\ n + 1 \in 1 .. N /\ (n + 1) - 1 = n
      BY <1>7
    <2>4. \A x \in D[n] : f[x] = g[x]
      BY <1>5, <2>1, <2>2, <2>3
    <2>5. \A x \in D[n + 1] : G[<<x, f>>] = G[<<x, g>>]
      <3> DEFINE m == n + 1
      <3>1. m \in 1 .. N /\ \A y \in D[m - 1] : f[y] = g[y]
        BY <2>3, <2>4
      <3> HIDE DEF m
      <3>2. f \in [S -> Y] /\ g \in [S -> Y]
        BY <2>1, <2>2
      <3>3. \A x \in D[m] : G[<<x, f>>] = G[<<x, g>>]
        <4> HIDE DEF A
        <4>1. \A a, b \in [S -> Y] : (\A y \in D[m - 1] : a[y] = b[y])
                 => \A x \in D[m] : G[<<x, a>>] = G[<<x, b>>]
          BY <1>3, <3>1, Zenon
        <4>2. (\A y \in D[m - 1] : f[y] = g[y]) => \A x \in D[m] : G[<<x, f>>] = G[<<x, g>>]
          BY <3>2, <4>1, Zenon
        <4> QED
          BY <3>1, <4>2
      <3> QED
        BY <3>3 DEF m
    <2>6. \A x \in D[n + 1] : g[x] = G[<<x, g>>]
      BY <1>5, <2>2, <2>3, <2>5
    <2> QED
      BY <2>2, <2>3, <2>6
  <1>8. N \in A
    <2>1. A \in SUBSET (0 .. N)
      OBVIOUS
    <2> HIDE DEF A
    <2>2. \A n \in A : n < N => n + 1 \in A
      BY <1>7
    <2>3. A = 0 .. N
      BY <1>6, <2>1, <2>2, UpToN, Zenon
    <2> QED
      BY <2>3
  <1> QED
    BY <1>1, <1>8 DEF Solves

-----------------------------------------------------------------------------
\* Containers of members of S.
Around(S) == [kind : Protector!Kinds, name : {<<>>}, members : Seq([key : STRING, value : S])]

\* The values by their depth.
LEMMA NestedValues ==
    \A n \in 0 .. Depth : Protector!Nested[n] =
        IF n = 0 THEN Protector!Leaves
        ELSE Protector!Leaves \cup Around(Protector!Nested[n - 1])
  <1> DEFINE E(f, n) == IF n = 0 THEN Protector!Leaves
                        ELSE Protector!Leaves \cup Around(f[n - 1])
             A == {k \in 0 .. Depth : \E f : f = [n \in 0 .. k |-> E(f, n)]}
  <1>0. Depth \in Nat
    BY DepthIsNatural DEF DepthIsNatural
  <1>1. \A f, g, n : f[n - 1] = g[n - 1] => E(f, n) = E(g, n)
    OBVIOUS
  <1>2. \A f, g : E(f, 0) = E(g, 0)
    OBVIOUS
  <1>n. Protector!Nested = CHOOSE f : f = [n \in 0 .. Depth |-> E(f, n)]
    BY DEF Protector!Nested, Around
  <1> HIDE DEF E
  <1>3. 0 \in A
    <2> DEFINE f == [i \in 0 .. 0 |-> E(<<>>, i)]
    <2>1. \A i \in 0 .. 0 : E(f, i) = E(<<>>, i)
      <3> HIDE DEF f
      <3>1. \A i \in 0 .. 0 : i = 0
        OBVIOUS
      <3> QED
        BY <1>2, <3>1
    <2>2. f = [i \in 0 .. 0 |-> E(f, i)]
      <3> DEFINE v(i) == E(f, i)
      <3>1. \A i \in 0 .. 0 : v(i) = E(<<>>, i)
        BY <2>1
      <3> HIDE DEF v
      <3>2. f = [i \in 0 .. 0 |-> v(i)]
        BY <3>1
      <3> QED
        BY <3>2 DEF v
    <2>3. 0 \in 0 .. Depth
      BY <1>0
    <2> HIDE DEF f
    <2> QED
      BY <2>2, <2>3, Zenon
  <1>4. ASSUME NEW k \in A, k < Depth
        PROVE  k + 1 \in A
    <2>1. PICK g : g = [i \in 0 .. k |-> E(g, i)]
      OBVIOUS
    <2> DEFINE f == [i \in 0 .. k + 1 |-> E(g, i)]
    <2>2. k \in Nat /\ k + 1 \in 0 .. Depth
      BY <1>0, <1>4
    <2>3. \A i \in 0 .. k : f[i] = g[i]
      <3> DEFINE v(i) == E(g, i)
      <3>1. g = [i \in 0 .. k |-> v(i)] /\ f = [i \in 0 .. k + 1 |-> v(i)]
        BY <2>1
      <3> HIDE DEF v, f
      <3> QED
        BY <2>2, <3>1
    <2>4. \A i \in 0 .. k + 1 : E(f, i) = E(g, i)
      <3> HIDE DEF f
      <3>1. \A i \in 0 .. k + 1 : i = 0 \/ f[i - 1] = g[i - 1]
        BY <2>2, <2>3
      <3> QED
        BY <1>1, <1>2, <3>1
    <2>5. f = [i \in 0 .. k + 1 |-> E(f, i)]
      <3> DEFINE v(i) == E(f, i)
      <3>1. \A i \in 0 .. k + 1 : v(i) = E(g, i)
        BY <2>4
      <3> HIDE DEF v
      <3>2. f = [i \in 0 .. k + 1 |-> v(i)]
        BY <3>1
      <3> QED
        BY <3>2 DEF v
    <2> QED
      BY <2>2, <2>5, Zenon
  <1>5. Depth \in A
    <2>1. A \in SUBSET (0 .. Depth)
      OBVIOUS
    <2> HIDE DEF A
    <2>2. \A n \in A : n < Depth => n + 1 \in A
      BY <1>4
    <2>3. A = 0 .. Depth
      BY <1>0, <1>3, <2>1, <2>2, UpToN, Zenon
    <2> QED
      BY <1>0, <2>3
  <1>6. Protector!Nested = [n \in 0 .. Depth |-> E(Protector!Nested, n)]
    BY <1>n, <1>5, Zenon
  <1>7. \A n \in 0 .. Depth : Protector!Nested[n] = E(Protector!Nested, n)
    <2> DEFINE v(n) == E(Protector!Nested, n)
    <2>1. Protector!Nested = [n \in 0 .. Depth |-> v(n)]
      BY <1>6
    <2> HIDE DEF v
    <2>2. \A n \in 0 .. Depth : Protector!Nested[n] = v(n)
      BY <2>1
    <2> QED
      BY <2>2 DEF v
  <1> QED
    BY <1>7 DEF E

\* A value of some depth is one of any greater depth.
LEMMA NestedGrows ==
    \A n \in 0 .. Depth : \A m \in 0 .. n : Protector!Nested[m] \subseteq Protector!Nested[n]
  <1> DEFINE V(n) == Protector!Nested[n]
             A == {n \in 0 .. Depth : \A m \in 0 .. n : V(m) \subseteq V(n)}
  <1>1. Depth \in Nat
    BY DepthIsNatural DEF DepthIsNatural
  <1>2. V(0) = Protector!Leaves
        /\ \A n \in 1 .. Depth : V(n) = Protector!Leaves \cup Around(V(n - 1))
    <2>1. 0 \in 0 .. Depth /\ \A n \in 1 .. Depth : n \in 0 .. Depth /\ n # 0
      BY <1>1
    <2> QED
      BY <2>1, NestedValues, Zenon
  <1> HIDE DEF V
  <1>3. \A n \in 1 .. Depth : V(n - 1) \subseteq V(n)
    <2> DEFINE B == {n \in 0 .. Depth : n = 0 \/ V(n - 1) \subseteq V(n)}
    <2>1. 0 \in B
      BY <1>1
    <2>2. ASSUME NEW n \in B, n < Depth
          PROVE  n + 1 \in B
      <3>1. n \in 0 .. Depth /\ n + 1 \in 1 .. Depth /\ n + 1 \in 0 .. Depth /\ (n + 1) - 1 = n
        BY <1>1, <2>2
      <3>2. V(n + 1) = Protector!Leaves \cup Around(V(n))
        BY <1>2, <3>1
      <3>3. CASE n = 0
        BY <1>2, <3>1, <3>2, <3>3
      <3>4. CASE n # 0
        <4>1. n \in 1 .. Depth /\ V(n - 1) \subseteq V(n)
          BY <1>1, <3>4
        <4>2. V(n) = Protector!Leaves \cup Around(V(n - 1))
          BY <1>2, <4>1
        <4>3. Around(V(n - 1)) \subseteq Around(V(n))
          <5>1. Seq([key : STRING, value : V(n - 1)]) \subseteq Seq([key : STRING, value : V(n)])
            <6>1. [key : STRING, value : V(n - 1)] \subseteq [key : STRING, value : V(n)]
              BY <4>1
            <6> DEFINE P == [key : STRING, value : V(n - 1)]
                       Q == [key : STRING, value : V(n)]
            <6> HIDE DEF P, Q
            <6>2. P \subseteq Q
              BY <6>1 DEF P, Q
            <6>3. Seq(P) \subseteq Seq(Q)
              BY <6>2, SeqMonotonic
            <6> QED
              BY <6>3 DEF P, Q
          <5> QED
            BY <5>1 DEF Around
        <4>4. V(n) \subseteq V(n + 1)
          BY <3>2, <4>2, <4>3
        <4> QED
          BY <3>1, <4>4
      <3> QED
        BY <3>3, <3>4
    <2>3. B \in SUBSET (0 .. Depth)
      OBVIOUS
    <2> HIDE DEF B
    <2>4. \A n \in B : n < Depth => n + 1 \in B
      BY <2>2
    <2>5. B = 0 .. Depth
      BY <1>1, <2>1, <2>3, <2>4, UpToN, Zenon
    <2> QED
      BY <1>1, <2>5 DEF B
  <1>4. 0 \in A
    BY <1>1
  <1>5. ASSUME NEW n \in A, n < Depth
        PROVE  n + 1 \in A
    <2>1. n \in 0 .. Depth /\ n + 1 \in 1 .. Depth /\ n + 1 \in 0 .. Depth /\ (n + 1) - 1 = n
          /\ \A m \in 0 .. n + 1 : m \in 0 .. n \/ m = n + 1
      BY <1>1, <1>5
    <2>2. V(n) \subseteq V(n + 1)
      BY <1>3, <2>1
    <2> QED
      BY <2>1, <2>2
  <1>6. A \in SUBSET (0 .. Depth)
    OBVIOUS
  <1> HIDE DEF A
  <1>7. \A n \in A : n < Depth => n + 1 \in A
    BY <1>5
  <1>8. A = 0 .. Depth
    BY <1>1, <1>4, <1>6, <1>7, UpToN, Zenon
  <1> QED
    BY <1>8 DEF A, V

\* A value is a leaf, or a container of values of less depth.
LEMMA ValueShape ==
    ASSUME NEW n \in 0 .. Depth, NEW w \in Protector!Nested[n]
    PROVE  /\ w \in Protector!Values
           /\ w.kind = "leaf" => w \in Protector!Leaves
           /\ w.kind # "leaf" => n \in 1 .. Depth /\ w \in Around(Protector!Nested[n - 1])
  <1>1. Depth \in Nat /\ Depth \in 0 .. Depth /\ n \in 0 .. Depth
    BY DepthIsNatural DEF DepthIsNatural
  <1>2. w \in Protector!Values
    BY <1>1, NestedGrows DEF Protector!Values
  <1>3. Protector!Nested[n] = IF n = 0 THEN Protector!Leaves
                              ELSE Protector!Leaves \cup Around(Protector!Nested[n - 1])
    BY <1>1, NestedValues, Zenon
  <1>4. w \in Protector!Leaves \/ (n \in 1 .. Depth /\ w \in Around(Protector!Nested[n - 1]))
    <2>1. n = 0 \/ n \in 1 .. Depth
      BY <1>1
    <2> QED
      BY <1>3, <2>1
  <1>5. w \in Protector!Leaves => w.kind = "leaf"
    BY DEF Protector!Leaves
  <1>6. w \in Around(Protector!Nested[n - 1]) => w.kind # "leaf"
    BY DEF Around, Protector!Kinds
  <1> QED
    BY <1>2, <1>4, <1>5, <1>6, Zenon

\* The members of a container.
LEMMA MembersShape ==
    ASSUME NEW S, NEW w \in Around(S)
    PROVE  /\ w = [kind |-> w.kind, name |-> <<>>, members |-> w.members]
           /\ w.kind \in Protector!Kinds
           /\ w.members \in Seq([key : STRING, value : S])
           /\ Len(w.members) \in Nat /\ DOMAIN w.members = 1 .. Len(w.members)
           /\ \A i \in DOMAIN w.members :
                 /\ w.members[i] = [key |-> w.members[i].key, value |-> w.members[i].value]
                 /\ w.members[i].key \in STRING /\ w.members[i].value \in S
  <1>1. /\ w = [kind |-> w.kind, name |-> <<>>, members |-> w.members]
        /\ w.kind \in Protector!Kinds
        /\ w.members \in Seq([key : STRING, value : S])
    BY DEF Around
  <1> DEFINE m == w.members
  <1>2. m \in Seq([key : STRING, value : S])
    BY <1>1
  <1> HIDE DEF m
  <1>3. Len(m) \in Nat /\ DOMAIN m = 1 .. Len(m)
    BY <1>2, LenProperties
  <1>4. \A i \in DOMAIN m : m[i] \in [key : STRING, value : S]
    BY <1>2, <1>3, ElementOfSeq
  <1>5. \A r \in [key : STRING, value : S] :
           r = [key |-> r.key, value |-> r.value] /\ r.key \in STRING /\ r.value \in S
    OBVIOUS
  <1>6. \A i \in DOMAIN m : /\ m[i] = [key |-> m[i].key, value |-> m[i].value]
                            /\ m[i].key \in STRING /\ m[i].value \in S
    BY <1>4, <1>5, Zenon
  <1> QED
    BY <1>1, <1>3, <1>6 DEF m

\* What is said of a value by what is said of its members is well defined.
LEMMA ValuesRecursion ==
    ASSUME NEW Y, Y # {}, NEW G \in [Protector!Values \X [Protector!Values -> Y] -> Y],
           \A w \in Protector!Values : \A f, g \in [Protector!Values -> Y] :
               (w.kind # "leaf" => \A i \in DOMAIN w.members :
                                      f[w.members[i].value] = g[w.members[i].value])
                   => G[<<w, f>>] = G[<<w, g>>]
    PROVE  \E f : Solves(f, Protector!Values, Y, G)
  <1> DEFINE V == Protector!Values
             D == [n \in 0 .. Depth |-> Protector!Nested[n]]
  <1>1. Depth \in Nat /\ 0 \in 0 .. Depth /\ Depth \in 0 .. Depth
        /\ \A n \in 1 .. Depth : n \in 0 .. Depth /\ n - 1 \in 0 .. Depth
    BY DepthIsNatural DEF DepthIsNatural
  <1>2. D \in [0 .. Depth -> SUBSET V] /\ D[Depth] = V
    <2>1. \A n \in 0 .. Depth : Protector!Nested[n] \subseteq V
      BY ValueShape
    <2>2. Protector!Nested[Depth] = V
      BY DEF Protector!Values
    <2> HIDE DEF V
    <2> QED
      BY <1>1, <2>1, <2>2
  <1>3. \A f, g \in [V -> Y] : \A x \in D[0] : G[<<x, f>>] = G[<<x, g>>]
    <2> SUFFICES ASSUME NEW f \in [V -> Y], NEW g \in [V -> Y], NEW x \in D[0]
                 PROVE  G[<<x, f>>] = G[<<x, g>>]
      OBVIOUS
    <2>1. x \in Protector!Nested[0] /\ 0 \in 0 .. Depth /\ 0 \notin 1 .. Depth
      BY <1>1
    <2>2. x \in V /\ x.kind = "leaf"
      BY <2>1, ValueShape
    <2> QED
      BY <2>2
  <1>4. \A n \in 1 .. Depth : \A f, g \in [V -> Y] : (\A y \in D[n - 1] : f[y] = g[y])
           => \A x \in D[n] : G[<<x, f>>] = G[<<x, g>>]
    <2> SUFFICES ASSUME NEW n \in 1 .. Depth, NEW f \in [V -> Y], NEW g \in [V -> Y],
                        \A y \in D[n - 1] : f[y] = g[y], NEW x \in D[n]
                 PROVE  G[<<x, f>>] = G[<<x, g>>]
      OBVIOUS
    <2>1. n \in 0 .. Depth /\ n - 1 \in 0 .. Depth /\ x \in Protector!Nested[n]
          /\ \A y \in Protector!Nested[n - 1] : f[y] = g[y]
      BY <1>1
    <2>2. x \in V /\ (x.kind # "leaf" => x \in Around(Protector!Nested[n - 1]))
      BY <2>1, ValueShape
    <2>3. x.kind # "leaf" => \A i \in DOMAIN x.members : f[x.members[i].value] = g[x.members[i].value]
      BY <2>1, <2>2, MembersShape
    <2> QED
      BY <2>2, <2>3
  <1> HIDE DEF V, D
  <1>5. G \in [V \X [V -> Y] -> Y]
    BY DEF V
  <1>6. Descends(V, Y, Depth, D, G)
    BY <1>2, <1>3, <1>4, <1>5, Zenon DEF Descends
  <1>7. \E f : Solves(f, V, Y, G)
    BY <1>1, <1>6, RecursionExists
  <1> QED
    BY <1>7 DEF V

\* What JSON takes is said of a value by what is said of its members
\* (_validate_serializable).
LEMMA SerializableUnfolds ==
    \A v \in Protector!Values : Protector!Serializable[v] =
        IF v.kind = "leaf" THEN v.name[1] # "object"
        ELSE /\ v.kind \in {"dict", "list", "tuple"}
             /\ v.kind = "dict" => Protector!Sortable({v.members[i].key : i \in DOMAIN v.members})
             /\ \A i \in DOMAIN v.members : Protector!Serializable[v.members[i].value]
  <1> DEFINE V == Protector!Values
             B(v, f) == IF v.kind = "leaf" THEN v.name[1] # "object"
                        ELSE /\ v.kind \in {"dict", "list", "tuple"}
                             /\ v.kind = "dict" => Protector!Sortable({v.members[i].key : i \in DOMAIN v.members})
                             /\ \A i \in DOMAIN v.members : f[v.members[i].value]
             G == [p \in V \X [V -> BOOLEAN] |-> B(p[1], p[2])]
  <1>1. Protector!Serializable = CHOOSE f : f = [v \in V |-> B(v, f)]
    BY DEF Protector!Serializable
  <1>2. \A v, f : B(v, f) \in BOOLEAN
    OBVIOUS
  <1>3. \A v, f, g : (v.kind # "leaf" => \A i \in DOMAIN v.members :
                          f[v.members[i].value] = g[v.members[i].value]) => B(v, f) = B(v, g)
    OBVIOUS
  <1>4. \E f \in [V -> BOOLEAN] : \A v \in V : f[v] = B(v, f)
    <2> HIDE DEF B
    <2>1. G \in [V \X [V -> BOOLEAN] -> BOOLEAN]
      BY <1>2
    <2>2. \A v \in V : \A f \in [V -> BOOLEAN] : G[<<v, f>>] = B(v, f)
      OBVIOUS
    <2>3. \A w \in V : \A f, g \in [V -> BOOLEAN] :
             (w.kind # "leaf" => \A i \in DOMAIN w.members :
                                    f[w.members[i].value] = g[w.members[i].value])
                 => G[<<w, f>>] = G[<<w, g>>]
      BY <1>3, <2>2
    <2> HIDE DEF G
    <2>4. PICK f : Solves(f, V, BOOLEAN, G)
      BY <2>1, <2>3, ValuesRecursion
    <2> QED
      BY <2>2, <2>4 DEF Solves
  <1> HIDE DEF V
  <1>5. \E f : f = [v \in V |-> B(v, f)]
    <2>1. PICK f \in [V -> BOOLEAN] : \A v \in V : f[v] = B(v, f)
      BY <1>4
    <2> DEFINE u(v) == B(v, f)
    <2>2. \A v \in V : f[v] = u(v)
      BY <2>1
    <2> HIDE DEF u
    <2>3. f = [v \in V |-> u(v)]
      BY <2>2
    <2> QED
      BY <2>3 DEF u
  <1> DEFINE s == Protector!Serializable
  <1>6. s = [v \in V |-> B(v, s)]
    <2> HIDE DEF B
    <2> QED
      BY <1>1, <1>5, Zenon
  <1>7. \A v \in V : s[v] = B(v, s)
    <2> HIDE DEF s
    <2> DEFINE u(v) == B(v, s)
    <2>1. s = [v \in V |-> u(v)]
      BY <1>6
    <2> HIDE DEF u
    <2>2. \A v \in V : s[v] = u(v)
      BY <2>1
    <2> QED
      BY <2>2 DEF u
  <1> QED
    BY <1>7 DEF V

\* The places of members are places.
LEMMA MemberPaths ==
    ASSUME NEW S, NEW w \in Around(S), NEW i \in DOMAIN w.members, NEW path \in Protector!Paths
    PROVE  Append(path, Protector!Component(w, i)) \in Protector!Paths
  <1>1. w.members[i].key \in STRING /\ i \in 1 .. Len(w.members) /\ Len(w.members) \in Nat
    <2>1. Len(w.members) \in Nat /\ DOMAIN w.members = 1 .. Len(w.members)
      BY MembersShape, Zenon
    <2>2. w.members[i].key \in STRING
      BY MembersShape, Zenon
    <2> QED
      BY <2>1, <2>2
  <1>2. Protector!Component(w, i) \in Protector!Components
    <2> DEFINE l == Len(w.members)
               k == w.members[i].key
    <2>1. i \in Nat /\ k \in STRING
      <3>1. l \in Nat /\ i \in 1 .. l /\ k \in STRING
        BY <1>1
      <3> HIDE DEF l, k
      <3> QED
        BY <3>1
    <2> HIDE DEF k, l
    <2>2. [key |-> k, index |-> 0] \in Protector!Components
          /\ [key |-> "index", index |-> i] \in Protector!Components
      BY <2>1 DEF Protector!Components
    <2>3. Protector!Component(w, i) = IF w.kind \in {"dict", "model"} THEN [key |-> k, index |-> 0]
                                      ELSE [key |-> "index", index |-> i]
      BY DEF Protector!Component, k
    <2>4. CASE w.kind \in {"dict", "model"}
      BY <2>2, <2>3, <2>4, Zenon
    <2>5. CASE w.kind \notin {"dict", "model"}
      BY <2>2, <2>3, <2>5, Zenon
    <2> QED
      BY <2>4, <2>5
  <1> QED
    BY <1>2, AppendProperties DEF Protector!Paths

\* A value that is no leaf is a container of values.
LEMMA ContainerOfValues ==
    ASSUME NEW w \in Protector!Values
    PROVE  /\ w.kind = "leaf" => w \in Protector!Leaves
           /\ w.kind # "leaf" => w \in Around(Protector!Values)
  <1>1. Depth \in 0 .. Depth /\ \A n \in 1 .. Depth : n - 1 \in 0 .. Depth
    BY DepthIsNatural DEF DepthIsNatural
  <1>2. w \in Protector!Nested[Depth]
    BY DEF Protector!Values
  <1>3. ASSUME NEW S, NEW T, S \subseteq T
        PROVE  Around(S) \subseteq Around(T)
    <2>1. [key : STRING, value : S] \subseteq [key : STRING, value : T]
      BY <1>3
    <2> DEFINE P == [key : STRING, value : S]
               Q == [key : STRING, value : T]
    <2> HIDE DEF P, Q
    <2>2. Seq(P) \subseteq Seq(Q)
      BY <2>1, SeqMonotonic DEF P, Q
    <2> QED
      BY <2>2 DEF Around, P, Q
  <1>4. \A n \in 0 .. Depth : Protector!Nested[n] \subseteq Protector!Values
    BY ValueShape
  <1> QED
    BY <1>1, <1>2, <1>3, <1>4, ValueShape

\* What a leaf can be, and where.
LeafPlaces == Protector!Paths \X Protector!Contents

\* The leaves of a value are those of its members.
LEMMA LeavesUnfold ==
    \A v \in Protector!Values, path \in Protector!Paths :
        Protector!LeavesAt[v][path] =
            IF v.kind = "leaf" THEN {<<path, v.name>>}
            ELSE UNION {Protector!LeavesAt[v.members[i].value][Append(path, Protector!Component(v, i))] :
                        i \in DOMAIN v.members}
  <1> DEFINE V == Protector!Values
             Y == [Protector!Paths -> SUBSET LeafPlaces]
             L(v, f, path) == IF v.kind = "leaf" THEN {<<path, v.name>>}
                ELSE UNION {f[v.members[i].value][Append(path, Protector!Component(v, i))] :
                            i \in DOMAIN v.members}
             B(v, f) == [path \in Protector!Paths |-> L(v, f, path)]
             G == [p \in V \X [V -> Y] |-> B(p[1], p[2])]
             s == Protector!LeavesAt
  <1>1. s = CHOOSE f : f = [v \in V |-> B(v, f)]
    BY DEF Protector!LeavesAt
  <1>2. ASSUME NEW v \in V, NEW f \in [V -> Y]
        PROVE  B(v, f) \in Y
    <2>1. ASSUME NEW path \in Protector!Paths
          PROVE  L(v, f, path) \in SUBSET LeafPlaces
      <3>1. CASE v.kind = "leaf"
        <4>1. v.name \in Protector!Contents
          BY <3>1, ContainerOfValues DEF Protector!Leaves
        <4> QED
          BY <3>1, <4>1 DEF LeafPlaces
      <3>2. CASE v.kind # "leaf"
        <4>1. ASSUME NEW i \in DOMAIN v.members
              PROVE  f[v.members[i].value][Append(path, Protector!Component(v, i))] \in SUBSET LeafPlaces
          <5>1. v \in Around(V)
            BY <3>2, ContainerOfValues
          <5>2. v.members[i].value \in V
            BY <5>1, MembersShape
          <5>3. Append(path, Protector!Component(v, i)) \in Protector!Paths
            BY <5>1, MemberPaths
          <5>4. f[v.members[i].value] \in Y
            BY <5>2
          <5> QED
            BY <5>3, <5>4
        <4> QED
          BY <3>2, <4>1
      <3> QED
        BY <3>1, <3>2
    <2> HIDE DEF L
    <2> QED
      BY <2>1
  <1>3. ASSUME NEW v \in V, NEW f \in [V -> Y], NEW g \in [V -> Y],
               v.kind # "leaf" => \A i \in DOMAIN v.members :
                                     f[v.members[i].value] = g[v.members[i].value]
        PROVE  B(v, f) = B(v, g)
    <2>1. \A path : L(v, f, path) = L(v, g, path)
      BY <1>3
    <2> HIDE DEF L
    <2> QED
      BY <2>1
  <1>4. PICK f \in [V -> Y] : \A v \in V : f[v] = B(v, f)
    <2> HIDE DEF B, V, Y
    <2>1. G \in [V \X [V -> Y] -> Y]
      BY <1>2
    <2>2. \A v \in V : \A f \in [V -> Y] : G[<<v, f>>] = B(v, f)
      OBVIOUS
    <2> HIDE DEF G
    <2>3. \A w \in V : \A f, g \in [V -> Y] :
             (w.kind # "leaf" => \A i \in DOMAIN w.members :
                                    f[w.members[i].value] = g[w.members[i].value])
                 => G[<<w, f>>] = G[<<w, g>>]
      BY <1>3, <2>2
    <2>4. Y # {}
      <3>1. [path \in Protector!Paths |-> {}] \in Y
        BY DEF Y
      <3> QED
        BY <3>1
    <2>5. PICK f : Solves(f, V, Y, G)
      BY <2>1, <2>3, <2>4, ValuesRecursion DEF V
    <2> QED
      BY <2>2, <2>5 DEF Solves
  <1> HIDE DEF V
  <1>5. f = [v \in V |-> B(v, f)]
    <2> DEFINE u(v) == B(v, f)
    <2>1. \A v \in V : f[v] = u(v)
      BY <1>4
    <2> HIDE DEF u
    <2>2. f = [v \in V |-> u(v)]
      BY <1>4, <2>1
    <2> QED
      BY <2>2 DEF u
  <1>6. s = [v \in V |-> B(v, s)]
    <2> HIDE DEF B
    <2> QED
      BY <1>1, <1>5, Zenon
  <1>7. \A v \in V : s[v] = B(v, s)
    <2> HIDE DEF s
    <2> DEFINE u(v) == B(v, s)
    <2>1. s = [v \in V |-> u(v)]
      BY <1>6
    <2> HIDE DEF u
    <2>2. \A v \in V : s[v] = u(v)
      BY <2>1
    <2> QED
      BY <2>2 DEF u
  <1> QED
    BY <1>7 DEF V

\* The copy of a value by the copies of its members (_copy_value, _copy_model).
MembersCopied(w, f, path) ==
    [i \in DOMAIN w.members |->
        [key |-> w.members[i].key,
         value |-> f[w.members[i].value][Append(path, Protector!Component(w, i))]]]
CopyStep(s, w, f) == [p \in Protector!Paths |->
    IF w.kind = "leaf" THEN [w EXCEPT !.name = Protector!Sanitized(@, p, s)]
    ELSE [w EXCEPT !.members = [i \in DOMAIN @ |->
             [key |-> w.members[i].key,
              value |-> f[w.members[i].value][Append(p, Protector!Component(w, i))]]]]]
CopyOf(s) == CHOOSE f : f = [w \in Protector!Values |-> CopyStep(s, w, f)]

\* That is the copy the code makes.
LEMMA CopiedIsCopyOf ==
    ASSUME NEW s, NEW v, NEW path
    PROVE  Protector!Copied(v, path, s) = CopyOf(s)[v][path]
  BY DEF Protector!Copied, CopyOf, CopyStep

\* The copy of a leaf is sanitized.
LEMMA CopyOfLeaf ==
    ASSUME NEW s, NEW f, NEW w \in Protector!Leaves, NEW path \in Protector!Paths
    PROVE  /\ CopyStep(s, w, f)[path] =
                [kind |-> "leaf", name |-> Protector!Sanitized(w.name, path, s), members |-> <<>>]
           /\ w.name \in Protector!Contents
  <1>1. w = [kind |-> "leaf", name |-> w.name, members |-> <<>>] /\ w.name \in Protector!Contents
    BY DEF Protector!Leaves
  <1> DEFINE c == w.name
  <1>2. w = [kind |-> "leaf", name |-> c, members |-> <<>>]
    BY <1>1
  <1> HIDE DEF c
  <1>3. [w EXCEPT !.name = Protector!Sanitized(@, path, s)] =
            [kind |-> "leaf", name |-> Protector!Sanitized(c, path, s), members |-> <<>>]
    BY <1>2
  <1> QED
    BY <1>1, <1>3 DEF CopyStep, c

\* The copy of a container is rebuilt from those of its members.
LEMMA CopyOfContainer ==
    ASSUME NEW S, NEW s, NEW f, NEW w \in Around(S), NEW path \in Protector!Paths
    PROVE  CopyStep(s, w, f)[path] =
               [kind |-> w.kind, name |-> <<>>, members |-> MembersCopied(w, f, path)]
  <1> DEFINE k == w.kind
             m == w.members
             c == MembersCopied(w, f, path)
  <1>1. w = [kind |-> k, name |-> <<>>, members |-> m] /\ k \in Protector!Kinds
    BY MembersShape
  <1>2. k # "leaf"
    BY <1>1 DEF Protector!Kinds
  <1>3. CopyStep(s, w, f)[path] = [w EXCEPT !.members = c]
    BY <1>2 DEF CopyStep, MembersCopied
  <1> HIDE DEF k, m, c
  <1>4. [w EXCEPT !.members = c] = [kind |-> k, name |-> <<>>, members |-> c]
    BY <1>1
  <1> QED
    BY <1>3, <1>4 DEF k, c

\* A copy of a value of some depth is one of that depth.
LEMMA CopyStepTyped ==
    ASSUME NEW s, NEW n \in 0 .. Depth, NEW w \in Protector!Nested[n], NEW f,
           w.kind # "leaf" => \A i \in DOMAIN w.members, p \in Protector!Paths :
                                 f[w.members[i].value][p] \in Protector!Nested[n - 1]
    PROVE  CopyStep(s, w, f) \in [Protector!Paths -> Protector!Nested[n]]
  <1>1. \A p \in Protector!Paths : CopyStep(s, w, f)[p] \in Protector!Nested[n]
    <2> SUFFICES ASSUME NEW p \in Protector!Paths PROVE CopyStep(s, w, f)[p] \in Protector!Nested[n]
      OBVIOUS
    <2>1. /\ Protector!Leaves \subseteq Protector!Nested[n]
          /\ n \in 1 .. Depth => Around(Protector!Nested[n - 1]) \subseteq Protector!Nested[n]
      <3>1. n = 0 \/ n \in 1 .. Depth
        BY DepthIsNatural DEF DepthIsNatural
      <3>2. 0 \notin 1 .. Depth
        OBVIOUS
      <3>3. Protector!Nested[n] = IF n = 0 THEN Protector!Leaves
                                  ELSE Protector!Leaves \cup Around(Protector!Nested[n - 1])
        BY NestedValues, Zenon
      <3> QED
        BY <3>1, <3>2, <3>3
    <2>2. CASE w.kind = "leaf"
      <3>1. w \in Protector!Leaves
        BY <2>2, ValueShape
      <3>2. Protector!Sanitized(w.name, p, s) \in Protector!Contents
        <4> DEFINE c == w.name
        <4>1. c \in Protector!Contents
          BY <3>1, CopyOfLeaf
        <4> HIDE DEF c
        <4>2. c[2] \in STRING
          BY <4>1 DEF Protector!Contents
        <4> DEFINE t == c[2]
        <4>3. t \in STRING
          BY <4>2
        <4> HIDE DEF t
        <4>4. Protector!Object(t) \in Protector!Contents /\ Protector!Clean(t, p) \in Protector!Contents
          BY <4>3 DEF Protector!Contents, Protector!Object, Protector!Clean
        <4>5. Protector!Sanitized(c, p, s) \in {c, Protector!Object(t), Protector!Clean(t, p)}
          BY DEF Protector!Sanitized, t
        <4>6. Protector!Sanitized(c, p, s) \in Protector!Contents
          BY <4>1, <4>4, <4>5
        <4> QED
          BY <4>6 DEF c
      <3>3. CopyStep(s, w, f)[p] \in Protector!Leaves
        <4> DEFINE c == Protector!Sanitized(w.name, p, s)
        <4>1. CopyStep(s, w, f)[p] = [kind |-> "leaf", name |-> c, members |-> <<>>]
          BY <3>1, CopyOfLeaf
        <4> HIDE DEF c
        <4> QED
          BY <3>2, <4>1 DEF Protector!Leaves, c
      <3> QED
        BY <2>1, <3>3
    <2>3. CASE w.kind # "leaf"
      <3>1. n \in 1 .. Depth /\ w \in Around(Protector!Nested[n - 1])
        BY <2>3, ValueShape
      <3> DEFINE S == Protector!Nested[n - 1]
                 m == w.members
      <3>2. /\ w.kind \in Protector!Kinds /\ Len(m) \in Nat /\ DOMAIN m = 1 .. Len(m)
            /\ \A i \in DOMAIN m : m[i].key \in STRING
        BY <3>1, MembersShape
      <3>3. \A i \in DOMAIN m : f[m[i].value][Append(p, Protector!Component(w, i))] \in S
        BY <2>3, <3>1, MemberPaths
      <3>4. MembersCopied(w, f, p) \in Seq([key : STRING, value : S])
        <4> DEFINE e(i) == f[m[i].value][Append(p, Protector!Component(w, i))]
                   a(i) == m[i].key
                   c == [i \in DOMAIN m |-> [key |-> a(i), value |-> e(i)]]
        <4>1. MembersCopied(w, f, p) = c
          BY DEF MembersCopied
        <4>2. \A i \in DOMAIN m : e(i) \in S /\ a(i) \in STRING
          BY <3>2, <3>3
        <4> HIDE DEF e, a, S
        <4>3. \A i \in DOMAIN m : [key |-> a(i), value |-> e(i)] \in [key : STRING, value : S]
          BY <4>2
        <4> DEFINE l == Len(m)
                   u(i) == [key |-> a(i), value |-> e(i)]
                   R == [key : STRING, value : S]
        <4>4. l \in Nat /\ c = [i \in 1 .. l |-> u(i)] /\ \A i \in 1 .. l : u(i) \in R
          BY <3>2, <4>3
        <4> HIDE DEF c, u, l, R
        <4>5. c \in Seq(R)
          BY <4>4
        <4> QED
          BY <4>1, <4>5 DEF R
      <3>5. CopyStep(s, w, f)[p] \in Around(S)
        <4>1. CopyStep(s, w, f)[p] =
                 [kind |-> w.kind, name |-> <<>>, members |-> MembersCopied(w, f, p)]
          BY <3>1, CopyOfContainer
        <4> HIDE DEF S
        <4> QED
          BY <3>2, <3>4, <4>1 DEF Around
      <3> QED
        BY <2>1, <3>1, <3>5
    <2> QED
      BY <2>2, <2>3
  <1>2. CopyStep(s, w, f) = [p \in Protector!Paths |-> CopyStep(s, w, f)[p]]
    BY DEF CopyStep
  <1> DEFINE h == CopyStep(s, w, f)
             T == Protector!Nested[n]
  <1> HIDE DEF h
  <1>3. h = [p \in Protector!Paths |-> h[p]] /\ \A p \in Protector!Paths : h[p] \in T
    BY <1>1, <1>2 DEF h
  <1> HIDE DEF T
  <1>4. h \in [Protector!Paths -> T]
    BY <1>3
  <1> QED
    BY <1>4 DEF h, T

\* A copy of a value under every path, or none.
CopiedOrNot == [Protector!Paths -> Protector!Values] \cup {<<>>}

\* What copies every value whose copy is a value keeps the depth.
LEMMA CopiesTyped ==
    ASSUME NEW s, NEW f,
           \A w \in Protector!Values :
               CopyStep(s, w, f) \in CopiedOrNot => f[w] = CopyStep(s, w, f)
    PROVE  \A n \in 0 .. Depth : \A w \in Protector!Nested[n] :
               f[w] \in [Protector!Paths -> Protector!Nested[n]] /\ f[w] = CopyStep(s, w, f)
  <1> DEFINE P(n) == \A w \in Protector!Nested[n] :
               f[w] \in [Protector!Paths -> Protector!Nested[n]] /\ f[w] = CopyStep(s, w, f)
             A == {n \in 0 .. Depth : P(n)}
  <1>1. Depth \in Nat /\ 0 \in 0 .. Depth /\ 0 \notin 1 .. Depth
    BY DepthIsNatural DEF DepthIsNatural
  <1>2. ASSUME NEW n \in 0 .. Depth, n \in 1 .. Depth => P(n - 1)
        PROVE  P(n)
    <2> SUFFICES ASSUME NEW w \in Protector!Nested[n]
                 PROVE  f[w] \in [Protector!Paths -> Protector!Nested[n]] /\ f[w] = CopyStep(s, w, f)
      OBVIOUS
    <2>1. w \in Protector!Values /\ (w.kind # "leaf" => n \in 1 .. Depth /\ w \in Around(Protector!Nested[n - 1]))
      BY ValueShape
    <2>2. ASSUME w.kind # "leaf", NEW i \in DOMAIN w.members, NEW p \in Protector!Paths
          PROVE  f[w.members[i].value][p] \in Protector!Nested[n - 1]
      <3> DEFINE S == Protector!Nested[n - 1]
                 x == w.members[i].value
      <3>1. P(n - 1) /\ x \in S
        BY <1>2, <2>1, <2>2, MembersShape
      <3>2. f[x] \in [Protector!Paths -> S]
        BY <3>1
      <3> HIDE DEF S, x
      <3>3. f[x][p] \in S
        BY <3>2
      <3> QED
        BY <3>3 DEF S, x
    <2>3. CopyStep(s, w, f) \in [Protector!Paths -> Protector!Nested[n]]
      BY <2>2, CopyStepTyped
    <2>4. Protector!Nested[n] \subseteq Protector!Values
      BY ValueShape
    <2>5. CopyStep(s, w, f) \in CopiedOrNot
      <3> DEFINE S == Protector!Nested[n]
                 h == CopyStep(s, w, f)
      <3>1. h \in [Protector!Paths -> S] /\ S \subseteq Protector!Values
        BY <2>3, <2>4
      <3> HIDE DEF h, S
      <3>2. h \in CopiedOrNot
        BY <3>1 DEF CopiedOrNot
      <3> QED
        BY <3>2 DEF h
    <2>6. f[w] = CopyStep(s, w, f)
      BY <1>2, <2>1, <2>5
    <2> QED
      BY <2>3, <2>6
  <1>3. 0 \in A
    BY <1>1, <1>2
  <1>4. ASSUME NEW n \in A, n < Depth
        PROVE  n + 1 \in A
    <2> DEFINE m == n + 1
    <2>1. m \in 0 .. Depth /\ m - 1 = n
      BY <1>1, <1>4
    <2>2. P(n)
      OBVIOUS
    <2> HIDE DEF P, m
    <2>3. P(m - 1)
      BY <2>1, <2>2
    <2>4. P(m)
      BY <1>2, <2>1, <2>3
    <2> QED
      BY <2>1, <2>4 DEF m
  <1>5. A \in SUBSET (0 .. Depth)
    OBVIOUS
  <1> HIDE DEF P
  <1>6. A = 0 .. Depth
    <2> HIDE DEF A
    <2>1. \A n \in A : n < Depth => n + 1 \in A
      BY <1>4
    <2> QED
      BY <1>1, <1>3, <1>5, <2>1, UpToN, Zenon
  <1>7. \A n \in 0 .. Depth : P(n)
    BY <1>6
  <1> QED
    BY <1>7 DEF P

\* The copy of a value is made of the copies of its members, and is a value of
\* the same depth.
LEMMA CopyUnfolds ==
    ASSUME NEW s
    PROVE  /\ \A w \in Protector!Values : CopyOf(s)[w] = CopyStep(s, w, CopyOf(s))
           /\ \A n \in 0 .. Depth : \A w \in Protector!Nested[n] :
                 CopyOf(s)[w] \in [Protector!Paths -> Protector!Nested[n]]
  <1> DEFINE V == Protector!Values
             Y == CopiedOrNot
             B(w, f) == CopyStep(s, w, f)
             H(w, f) == IF B(w, f) \in Y THEN B(w, f) ELSE <<>>
             G == [p \in V \X [V -> Y] |-> H(p[1], p[2])]
             c == CopyOf(s)
  <1>1. c = CHOOSE f : f = [w \in V |-> B(w, f)]
    BY DEF CopyOf
  <1>2. ASSUME NEW w \in V, NEW f, NEW g,
               w.kind # "leaf" => \A i \in DOMAIN w.members :
                                     f[w.members[i].value] = g[w.members[i].value]
        PROVE  B(w, f) = B(w, g)
    <2> DEFINE e(h, p) == IF w.kind = "leaf" THEN [w EXCEPT !.name = Protector!Sanitized(@, p, s)]
                          ELSE [w EXCEPT !.members = MembersCopied(w, h, p)]
    <2>1. \A h : B(w, h) = [p \in Protector!Paths |-> e(h, p)]
      BY DEF CopyStep, MembersCopied
    <2>2. \A p : e(f, p) = e(g, p)
      <3>1. w.kind # "leaf" => \A p : MembersCopied(w, f, p) = MembersCopied(w, g, p)
        BY <1>2 DEF MembersCopied
      <3> QED
        BY <3>1
    <2> HIDE DEF e, B
    <2> QED
      BY <2>1, <2>2
  <1>3. PICK f \in [V -> Y] : \A w \in V : f[w] = H(w, f)
    <2> HIDE DEF B, V, Y
    <2>0. \A w, h : H(w, h) \in Y
      <3>1. <<>> \in Y
        BY DEF Y, CopiedOrNot
      <3> QED
        BY <3>1
    <2>3. \A w \in V : \A h, g \in [V -> Y] :
             (w.kind # "leaf" => \A i \in DOMAIN w.members :
                                    h[w.members[i].value] = g[w.members[i].value])
                 => H(w, h) = H(w, g)
      BY <1>2
    <2> HIDE DEF H
    <2>1. G \in [V \X [V -> Y] -> Y]
      BY <2>0
    <2>2. \A w \in V : \A h \in [V -> Y] : G[<<w, h>>] = H(w, h)
      OBVIOUS
    <2> HIDE DEF G
    <2>4. \A w \in V : \A h, g \in [V -> Y] :
             (w.kind # "leaf" => \A i \in DOMAIN w.members :
                                    h[w.members[i].value] = g[w.members[i].value])
                 => G[<<w, h>>] = G[<<w, g>>]
      BY <2>2, <2>3
    <2>5. Y # {}
      BY <2>0
    <2>6. PICK h : Solves(h, V, Y, G)
      BY <2>1, <2>4, <2>5, ValuesRecursion DEF V
    <2> QED
      BY <2>2, <2>6 DEF Solves
  <1>4. \A w \in V : f[w] = B(w, f)
    <2>1. \A w \in V : CopyStep(s, w, f) \in CopiedOrNot => f[w] = CopyStep(s, w, f)
      BY <1>3
    <2>2. \A n \in 0 .. Depth : \A w \in Protector!Nested[n] : f[w] = CopyStep(s, w, f)
      BY <2>1, CopiesTyped
    <2>3. Depth \in 0 .. Depth
      BY DepthIsNatural DEF DepthIsNatural
    <2> QED
      BY <2>2, <2>3 DEF Protector!Values
  <1>5. f = [w \in V |-> B(w, f)]
    <2> DEFINE u(w) == B(w, f)
    <2>1. \A w \in V : f[w] = u(w)
      BY <1>4
    <2> HIDE DEF u, H
    <2>2. f = [w \in V |-> u(w)]
      BY <1>3, <2>1
    <2> QED
      BY <2>2 DEF u
  <1>6. c = [w \in V |-> B(w, c)]
    <2> HIDE DEF B, V, Y, H
    <2> QED
      BY <1>1, <1>5, Zenon
  <1>7. \A w \in V : c[w] = B(w, c)
    <2> HIDE DEF c
    <2> DEFINE u(w) == B(w, c)
    <2>1. c = [w \in V |-> u(w)]
      BY <1>6
    <2> HIDE DEF u, V
    <2>2. \A w \in V : c[w] = u(w)
      BY <2>1
    <2> QED
      BY <2>2 DEF u
  <1>8. \A n \in 0 .. Depth : \A w \in Protector!Nested[n] :
            c[w] \in [Protector!Paths -> Protector!Nested[n]]
    <2> HIDE DEF c
    <2> QED
      BY <1>7, CopiesTyped
  <1> QED
    BY <1>7, <1>8

\* The clean form of leaves at their places.
CleanAll(s, leaves) ==
    {<<leaf[1], IF s.present THEN Protector!Clean(leaf[2][2], leaf[1]) ELSE leaf[2]>> :
     leaf \in leaves}

\* A copy that JSON takes has the clean form of every leaf at its place.
CopiesClean(s, w, path) ==
    Protector!Serializable[CopyOf(s)[w][path]] =>
        Protector!LeavesAt[CopyOf(s)[w][path]][path] = CleanAll(s, Protector!LeavesAt[w][path])

\* So it is of a leaf.
LEMMA LeafCopiesClean ==
    ASSUME NEW s, NEW w \in Protector!Values, w.kind = "leaf", NEW path \in Protector!Paths
    PROVE  CopiesClean(s, w, path)
  <1> DEFINE x == CopyOf(s)[w][path]
             t == w.name
             z == Protector!Sanitized(t, path, s)
  <1>1. w \in Protector!Leaves
    BY ContainerOfValues
  <1>2. x = [kind |-> "leaf", name |-> z, members |-> <<>>] /\ t \in Protector!Contents
    BY <1>1, CopyUnfolds, CopyOfLeaf
  <1>3. x \in Protector!Values
    <2>1. Depth \in 0 .. Depth
      BY DepthIsNatural DEF DepthIsNatural
    <2>2. CopyOf(s)[w] \in [Protector!Paths -> Protector!Values]
      BY <2>1, CopyUnfolds DEF Protector!Values
    <2> QED
      BY <2>2
  <1>4. Protector!LeavesAt[w][path] = {<<path, t>>}
    BY LeavesUnfold
  <1>5. Protector!LeavesAt[x][path] = {<<path, z>>}
        /\ Protector!Serializable[x] = (z[1] # "object")
    <2> HIDE DEF x, z
    <2>1. x.kind = "leaf" /\ x.name = z
      BY <1>2
    <2>2. Protector!LeavesAt[x][path] = {<<path, x.name>>}
      BY <1>3, <2>1, LeavesUnfold
    <2>3. Protector!Serializable[x] = (x.name[1] # "object")
      BY <1>3, <2>1, SerializableUnfolds
    <2> QED
      BY <2>1, <2>2, <2>3
  <1>6. ASSUME z[1] # "object"
        PROVE  z = IF s.present THEN Protector!Clean(t[2], path) ELSE t
    <2>1. Protector!Object(t[2])[1] = "object"
      BY DEF Protector!Object
    <2> QED
      BY <1>6, <2>1 DEF Protector!Sanitized
  <1>7. CleanAll(s, {<<path, t>>}) =
            {<<path, IF s.present THEN Protector!Clean(t[2], path) ELSE t>>}
    <2> HIDE DEF t
    <2> QED
      BY DEF CleanAll
  <1> HIDE DEF x, t, z
  <1> QED
    BY <1>4, <1>5, <1>6, <1>7 DEF CopiesClean, x

\* It is of a container when it is of every member.
LEMMA ContainerCopiesClean ==
    ASSUME NEW s, NEW n \in 1 .. Depth, NEW w \in Around(Protector!Nested[n - 1]),
           w \in Protector!Values, NEW path \in Protector!Paths,
           \A v \in Protector!Nested[n - 1], p \in Protector!Paths : CopiesClean(s, v, p)
    PROVE  CopiesClean(s, w, path)
  <1> DEFINE c == CopyOf(s)
             m == w.members
             x == c[w][path]
             q(i) == Append(path, Protector!Component(w, i))
             V == Protector!Nested[n - 1]
             D == DOMAIN m
  <1>1. x = [kind |-> w.kind, name |-> <<>>, members |-> MembersCopied(w, c, path)]
    BY CopyUnfolds, CopyOfContainer
  <1>2. x \in Protector!Values
    <2>1. Depth \in 0 .. Depth
      BY DepthIsNatural DEF DepthIsNatural
    <2>2. CopyOf(s)[w] \in [Protector!Paths -> Protector!Values]
      BY <2>1, CopyUnfolds DEF Protector!Values
    <2> QED
      BY <2>2
  <1>3. w.kind # "leaf" /\ \A i \in D : m[i].value \in V
    BY MembersShape DEF Protector!Kinds
  <1>4. \A i \in D : q(i) \in Protector!Paths
    BY MemberPaths
  <1>5. /\ x.kind = w.kind /\ DOMAIN x.members = D
        /\ \A i \in D : x.members[i].key = m[i].key /\ x.members[i].value = c[m[i].value][q(i)]
    <2> DEFINE y == MembersCopied(w, c, path)
    <2>1. DOMAIN y = D /\ \A i \in D : y[i] = [key |-> m[i].key, value |-> c[m[i].value][q(i)]]
      BY DEF MembersCopied
    <2> HIDE DEF c, m, q, D, x, y
    <2>2. x.kind = w.kind /\ x.members = y
      BY <1>1 DEF y
    <2> QED
      BY <2>1, <2>2
  <1>6. \A i \in D : Append(path, Protector!Component(x, i)) = q(i)
    <2> HIDE DEF x
    <2>1. \A i \in D : Protector!Component(x, i) = Protector!Component(w, i)
      BY <1>5 DEF Protector!Component
    <2> QED
      BY <2>1
  <1> DEFINE E(i) == Protector!LeavesAt[m[i].value][q(i)]
             F(i) == Protector!LeavesAt[c[m[i].value][q(i)]][q(i)]
  <1>7. Protector!LeavesAt[w][path] = UNION {E(i) : i \in D}
    BY <1>3, LeavesUnfold
  <1>8. Protector!LeavesAt[x][path] = UNION {F(i) : i \in D}
    <2> HIDE DEF x, q, c
    <2>1. Protector!LeavesAt[x][path] =
            UNION {Protector!LeavesAt[x.members[i].value][Append(path, Protector!Component(x, i))] :
                   i \in DOMAIN x.members}
      BY <1>2, <1>3, <1>5, LeavesUnfold
    <2>2. \A i \in D : Protector!LeavesAt[x.members[i].value][Append(path, Protector!Component(x, i))] = F(i)
      BY <1>5, <1>6
    <2> QED
      BY <1>5, <2>1, <2>2
  <1>9. ASSUME Protector!Serializable[x], NEW i \in D
        PROVE  F(i) = CleanAll(s, E(i))
    <2> DEFINE v == m[i].value
               p == q(i)
    <2>1. v \in V /\ p \in Protector!Paths
      BY <1>3, <1>4
    <2>2. Protector!Serializable[c[v][p]]
      <3> HIDE DEF x, q, c, m, D
      <3>1. Protector!Serializable[x.members[i].value]
        BY <1>2, <1>3, <1>5, <1>9, SerializableUnfolds
      <3> QED
        BY <1>5, <3>1
    <2> HIDE DEF v, p, V
    <2>3. CopiesClean(s, v, p)
      BY <2>1 DEF V
    <2>4. Protector!LeavesAt[c[v][p]][p] = CleanAll(s, Protector!LeavesAt[v][p])
      BY <2>2, <2>3 DEF CopiesClean
    <2> QED
      BY <2>4 DEF v, p
  <1> HIDE DEF c, m, q, D, E, F, x, V
  <1>10. Protector!Serializable[x] =>
            UNION {F(i) : i \in D} = CleanAll(s, UNION {E(i) : i \in D})
    <2> DEFINE h(leaf) == <<leaf[1], IF s.present THEN Protector!Clean(leaf[2][2], leaf[1])
                                     ELSE leaf[2]>>
    <2>1. \A L : CleanAll(s, L) = {h(leaf) : leaf \in L}
      BY DEF CleanAll
    <2> HIDE DEF h
    <2> QED
      BY <1>9, <2>1
  <1> QED
    BY <1>7, <1>8, <1>10 DEF CopiesClean, x, c

\* So it is of every value, level by level.
LEMMA AllCopiesClean ==
    ASSUME NEW s, NEW w \in Protector!Values, NEW path \in Protector!Paths
    PROVE  CopiesClean(s, w, path)
  <1> DEFINE P(n) == \A v \in Protector!Nested[n], p \in Protector!Paths : CopiesClean(s, v, p)
             A == {n \in 0 .. Depth : P(n)}
  <1>1. Depth \in Nat /\ 0 \in 0 .. Depth /\ 0 \notin 1 .. Depth /\ Depth \in 0 .. Depth
    BY DepthIsNatural DEF DepthIsNatural
  <1>2. ASSUME NEW n \in 0 .. Depth, n \in 1 .. Depth => P(n - 1)
        PROVE  P(n)
    <2> SUFFICES ASSUME NEW v \in Protector!Nested[n], NEW p \in Protector!Paths
                 PROVE  CopiesClean(s, v, p)
      OBVIOUS
    <2>1. v \in Protector!Values /\ (v.kind # "leaf" => n \in 1 .. Depth /\ v \in Around(Protector!Nested[n - 1]))
      BY ValueShape
    <2>2. CASE v.kind = "leaf"
      BY <2>1, <2>2, LeafCopiesClean
    <2>3. CASE v.kind # "leaf"
      BY <1>2, <2>1, <2>3, ContainerCopiesClean
    <2> QED
      BY <2>2, <2>3
  <1>3. 0 \in A
    BY <1>1, <1>2
  <1>4. ASSUME NEW n \in A, n < Depth
        PROVE  n + 1 \in A
    <2> DEFINE m == n + 1
    <2>1. m \in 0 .. Depth /\ m - 1 = n
      BY <1>1, <1>4
    <2>2. P(n)
      OBVIOUS
    <2> HIDE DEF P, m
    <2>3. P(m - 1)
      BY <2>1, <2>2
    <2>4. P(m)
      BY <1>2, <2>1, <2>3
    <2> QED
      BY <2>1, <2>4 DEF m
  <1>5. A \in SUBSET (0 .. Depth)
    OBVIOUS
  <1> HIDE DEF P
  <1>6. A = 0 .. Depth
    <2> HIDE DEF A
    <2>1. \A n \in A : n < Depth => n + 1 \in A
      BY <1>4
    <2> QED
      BY <1>1, <1>3, <1>5, <2>1, UpToN, Zenon
  <1>7. P(Depth)
    BY <1>1, <1>6
  <1> QED
    BY <1>7 DEF P, Protector!Values

\* A call that has sent and logged, and what it may have come to.
Begun(f, m) == [Protector!Silent EXCEPT !.sent = f, !.logged = m]
NotProtected == [Protector!Silent EXCEPT !.raised = "SanitizationError"]
IsOutcome(o, f, m, saved, returned, raised) ==
    /\ DOMAIN o = {"sent", "logged", "saved", "returned", "raised"}
    /\ o.sent = f /\ o.logged = m /\ o.saved \in BOOLEAN
    /\ o.saved <=> saved
    /\ o.returned = returned /\ o.raised = raised
GaveNothing(o, f, m, provider, answer) ==
    /\ IsOutcome(o, f, m, FALSE, "nothing", "none")
    /\ answer \in {"no content", "NONE", "blank"} \/ provider = "RuleGenerator"
CanComeTo(o, f, m, provider, answer) ==
    \/ IsOutcome(o, f, m, FALSE, "lesson", "none") \/ IsOutcome(o, f, m, FALSE, "vectors", "none")
    \/ IsOutcome(o, f, m, TRUE, "memory", "none")
    \/ IsOutcome(o, f, m, FALSE, "nothing", "EvaluationError")
    \/ GaveNothing(o, f, m, provider, answer)

\* What a provider makes of an answer does not touch what it sent or logged.
LEMMA AnswerOutcome ==
    ASSUME NEW provider, NEW f, NEW m, NEW answer, NEW stores
    PROVE  CanComeTo(Protector!Answered(provider, Begun(f, m), answer, stores),
                     f, m, provider, answer)
  <1> DEFINE Is(o, saved, returned, raised) == IsOutcome(o, f, m, saved, returned, raised)
             b == Begun(f, m)
             failed == Protector!Failed(b)
             o == Protector!Answered(provider, b, answer, stores)
  <1>1. Is(b, FALSE, "nothing", "none")
    BY DEF Begun, Protector!Silent, IsOutcome
  <1> HIDE DEF b
  <1>2. Is(Protector!Failed(b), FALSE, "nothing", "EvaluationError")
    BY <1>1 DEF IsOutcome, Protector!Failed
  <1>3. \A what : Is(Protector!Returned(b, what), FALSE, what, "none")
    BY <1>1 DEF IsOutcome, Protector!Returned
  <1>4. Is(Protector!Remembered(b), TRUE, "memory", "none")
    <2> DEFINE r == Protector!Returned(b, "memory")
    <2>1. Is(r, FALSE, "memory", "none")
      BY <1>3
    <2> HIDE DEF r
    <2>2. Is([r EXCEPT !.saved = TRUE], TRUE, "memory", "none")
      BY <2>1 DEF IsOutcome
    <2> QED
      BY <2>2 DEF Protector!Remembered, r
  <1>5. Is(Protector!Swallowed(failed), FALSE, "nothing", "none")
    <2> HIDE DEF failed
    <2> QED
      BY <1>2 DEF IsOutcome, Protector!Swallowed, failed
  <1>6. b.raised = "none" /\ failed.raised # "none" /\ Protector!Remembered(b).raised = "none"
    BY <1>1, <1>2, <1>4 DEF IsOutcome
  <1> HIDE DEF failed, Is, o
  <1>7. \/ o = Protector!Returned(b, "lesson") \/ o = Protector!Returned(b, "vectors")
        \/ o = Protector!Remembered(b) \/ o = failed
        \/ (o = b \/ o = Protector!Swallowed(failed))
           /\ (answer \in {"no content", "NONE", "blank"} \/ provider = "RuleGenerator")
    <2>1. CASE provider = "LLMEvaluator"
      BY <2>1 DEF Protector!Answered, Protector!Evaluated, o, failed
    <2>2. CASE provider = "LiteLLMEmbedder"
      BY <2>2 DEF Protector!Answered, Protector!Embedded, o, failed
    <2>3. CASE provider \notin {"LLMEvaluator", "LiteLLMEmbedder"}
      <3> DEFINE d == Protector!Distilled(b, answer, stores)
      <3>1. \/ d = b /\ answer \in {"NONE", "blank"}
            \/ d = Protector!Remembered(b) \/ d = failed
        BY DEF Protector!Distilled, failed
      <3>2. o = IF provider = "RuleGenerator" /\ d.raised # "none"
                THEN Protector!Swallowed(d) ELSE d
        BY <2>3 DEF Protector!Answered, o
      <3> HIDE DEF d
      <3> QED
        BY <1>6, <3>1, <3>2
    <2> QED
      BY <2>1, <2>2, <2>3
  <1>8. CanComeTo(o, f, m, provider, answer)
    BY <1>1, <1>2, <1>3, <1>4, <1>5, <1>7 DEF CanComeTo, GaveNothing, Is, failed
  <1> QED
    BY <1>8 DEF o, b

\* The three ways of a call.
LEMMA CallOutcome ==
    ASSUME NEW provider, NEW fields, NEW metadata, NEW s, NEW answer, NEW stores,
           NEW call, call = Protector!Call(provider, fields, metadata, s, answer, stores),
           NEW sent, sent = Protector!Copied(fields, <<>>, s),
           NEW logged, logged = Protector!Copied(metadata, <<>>, s)
    PROVE  \/ call = Protector!Silent /\ fields.members = <<>>
           \/ call = NotProtected
           \/ /\ Protector!Serializable[sent] /\ Protector!Serializable[logged]
              /\ CanComeTo(call, sent, logged, provider, answer)
  <1> DEFINE p == Protector!ProtectSink(fields, metadata, s)
  <1>1. \/ p.error # "none"
        \/ /\ p = [error |-> "none", fields |-> sent, metadata |-> logged]
           /\ Protector!Serializable[sent] /\ Protector!Serializable[logged]
    <2>1. p = IF Protector!Raises(fields, s) THEN Protector!Refused("external_request")
              ELSE IF Protector!Raises(metadata, s) THEN Protector!Refused("log_metadata")
              ELSE IF ~Protector!Serializable[sent] THEN Protector!Refused("external_request")
              ELSE IF ~Protector!Serializable[logged] THEN Protector!Refused("log_metadata")
              ELSE [error |-> "none", fields |-> sent, metadata |-> logged]
      BY Zenon DEF Protector!ProtectSink
    <2>2. \A x \in {"external_request", "log_metadata"} : Protector!Refused(x).error # "none"
      BY DEF Protector!Refused
    <2> HIDE DEF p
    <2> QED
      BY <2>1, <2>2
  <1>2. call = IF provider \in {"LiteLLMEmbedder", "ReflectionEngine"} /\ fields.members = <<>>
               THEN Protector!Silent
               ELSE IF p.error # "none" THEN NotProtected
               ELSE Protector!Answered(provider, Begun(p.fields, p.metadata), answer, stores)
    BY Zenon DEF Protector!Call, NotProtected, Begun
  <1> HIDE DEF p
  <1>3. p = [error |-> "none", fields |-> sent, metadata |-> logged] =>
            p.error = "none" /\ p.fields = sent /\ p.metadata = logged
    OBVIOUS
  <1>4. CanComeTo(Protector!Answered(provider, Begun(sent, logged), answer, stores),
                  sent, logged, provider, answer)
    BY AnswerOutcome
  <1> QED
    BY <1>1, <1>2, <1>3, <1>4

\* What is sent and logged are clean copies, or nothing.
LEMMA NothingRawLeft ==
    ASSUME NEW provider, NEW fields \in Protector!Values, NEW metadata \in Protector!Values,
           NEW s, NEW answer, NEW stores
    PROVE  Protector!NothingRawLeaves(provider, fields, metadata, s, answer, stores)
  <1> DEFINE call == Protector!Call(provider, fields, metadata, s, answer, stores)
             sent == Protector!Copied(fields, <<>>, s)
             logged == Protector!Copied(metadata, <<>>, s)
             left == call.sent # Protector!Empty \/ call.logged # Protector!Empty
             Cleaned(v) == CleanAll(s, Protector!LeavesAt[v][<<>>])
  <1>1. <<>> \in Protector!Paths
    BY DEF Protector!Paths
  <1>2. /\ Protector!Serializable[sent] => Protector!LeavesAt[sent][<<>>] = Cleaned(fields)
        /\ Protector!Serializable[logged] => Protector!LeavesAt[logged][<<>>] = Cleaned(metadata)
    BY <1>1, AllCopiesClean, CopiedIsCopyOf DEF CopiesClean
  <1> HIDE DEF call, sent, logged, Cleaned
  <1>3. \/ call = Protector!Silent
        \/ call = NotProtected
        \/ /\ Protector!Serializable[sent] /\ Protector!Serializable[logged]
           /\ CanComeTo(call, sent, logged, provider, answer)
    BY CallOutcome DEF call, sent, logged
  <1>4. CASE call = Protector!Silent \/ call = NotProtected
    <2>1. ~ left /\ ~ call.saved
      BY <1>4 DEF Protector!Silent, NotProtected
    <2> QED
      BY <2>1 DEF Protector!NothingRawLeaves, call
  <1>5. CASE /\ Protector!Serializable[sent] /\ Protector!Serializable[logged]
             /\ CanComeTo(call, sent, logged, provider, answer)
    <2>1. call.sent = sent /\ call.logged = logged /\ call.raised # "SanitizationError"
      BY <1>5 DEF CanComeTo, GaveNothing, IsOutcome
    <2>2. /\ Protector!LeavesAt[call.sent][<<>>] = Cleaned(fields)
          /\ Protector!LeavesAt[call.logged][<<>>] = Cleaned(metadata)
          /\ Protector!Serializable[call.sent] /\ Protector!Serializable[call.logged]
      BY <1>2, <1>5, <2>1
    <2> QED
      BY <2>1, <2>2 DEF Protector!NothingRawLeaves, call, Cleaned, CleanAll
  <1> QED
    BY <1>3, <1>4, <1>5

\* A memory is returned when it is saved, and only then.
LEMMA ReturnedWhenSaved ==
    ASSUME NEW provider, NEW fields, NEW metadata, NEW s, NEW answer, NEW stores
    PROVE  Protector!ReturnsWhatItSaved(provider, fields, metadata, s, answer, stores)
  <1> DEFINE call == Protector!Call(provider, fields, metadata, s, answer, stores)
             sent == Protector!Copied(fields, <<>>, s)
             logged == Protector!Copied(metadata, <<>>, s)
  <1> HIDE DEF call, sent, logged
  <1>1. \/ call = Protector!Silent /\ fields.members = <<>>
        \/ call = NotProtected
        \/ CanComeTo(call, sent, logged, provider, answer)
    BY CallOutcome DEF call, sent, logged
  <1>2. /\ call.returned = "memory" <=> call.saved
        /\ call.raised # "none" => call.returned = "nothing"
        /\ call.returned = "nothing" /\ call.raised = "none" =>
              \/ answer \in {"no content", "NONE", "blank"}
              \/ fields.members = <<>>
              \/ provider = "RuleGenerator"
    <2>1. CASE call = Protector!Silent /\ fields.members = <<>>
      BY <2>1 DEF Protector!Silent
    <2>2. CASE call = NotProtected
      <3>1. IsOutcome(call, Protector!Empty, Protector!Empty, FALSE, "nothing", "SanitizationError")
        BY <2>2 DEF NotProtected, Protector!Silent, IsOutcome
      <3> QED
        BY <3>1 DEF IsOutcome
    <2>3. CASE CanComeTo(call, sent, logged, provider, answer)
      BY <2>3 DEF CanComeTo, GaveNothing, IsOutcome
    <2> QED
      BY <1>1, <2>1, <2>2, <2>3
  <1> QED
    BY <1>2 DEF Protector!ReturnsWhatItSaved, call

\* Nothing a provider sends or logs is raw: whatever the application's sanitizer
\* does, both structures hold the clean form of every leaf at its own place, or
\* neither leaves, however deep the payload is (protect_sink, _copy_value).
THEOREM NothingRawAlways == Spec => []NothingRaw
  <1>1. ASSUME NEW x \in Requests
        PROVE  Protector!NothingRawLeaves(x.provider, x.fields, x.metadata,
                                          x.sanitizer, x.answer, x.stores)
    BY RequestsOfValues, NothingRawLeft DEF RequestsOfValues
  <1>2. InUse => NothingRaw
    BY <1>1 DEF NothingRaw, InUse
  <1> QED
    BY <1>2, UsedAlways, PTL

\* A provider returns a memory exactly when it saved it, and one that gives
\* nothing without raising was told so, had nothing to send or is the rule
\* generator (reflect, consolidate_lesson).
THEOREM SavedIsReturnedAlways == Spec => []SavedIsReturned
  <1>1. ASSUME NEW x \in Requests
        PROVE  Protector!ReturnsWhatItSaved(x.provider, x.fields, x.metadata,
                                            x.sanitizer, x.answer, x.stores)
    BY ReturnedWhenSaved
  <1>2. InUse => SavedIsReturned
    BY <1>1 DEF SavedIsReturned, InUse
  <1> QED
    BY <1>2, UsedAlways, PTL

\* What one level of a text is made of.
Texts == {Serializer!Leaf(type) : type \in Serializer!StrictLeaves}
ReadableOver(T) ==
    LET readable == Seq([key : Nat, value : T])
    IN [type : {"list"}, items : readable] \cup
       {tree \in [type : {"dict"}, items : readable] : ~Serializer!Repeats(tree.items)}

\* The texts that are read, by their depth.
LEMMA ReadableUnfolds ==
    \A n \in 0 .. Depth : Serializer!ReadableTrees[n] =
        Texts \cup (IF n = 0 THEN {} ELSE ReadableOver(Serializer!ReadableTrees[n - 1]))
  <1> DEFINE E(f, n) == Texts \cup (IF n = 0 THEN {} ELSE ReadableOver(f[n - 1]))
             A == {k \in 0 .. Depth : \E f : f = [n \in 0 .. k |-> E(f, n)]}
  <1>0. Depth \in Nat
    BY DepthIsNatural DEF DepthIsNatural
  <1>1. \A f, g, n : f[n - 1] = g[n - 1] => E(f, n) = E(g, n)
    OBVIOUS
  <1>2. \A f, g : E(f, 0) = E(g, 0)
    OBVIOUS
  <1>n. Serializer!ReadableTrees = CHOOSE f : f = [n \in 0 .. Depth |-> E(f, n)]
    BY DEF Serializer!ReadableTrees, Texts, ReadableOver
  <1> HIDE DEF E
  <1>3. 0 \in A
    <2> DEFINE f == [i \in 0 .. 0 |-> E(<<>>, i)]
    <2>1. \A i \in 0 .. 0 : E(f, i) = E(<<>>, i)
      <3> HIDE DEF f
      <3>1. \A i \in 0 .. 0 : i = 0
        OBVIOUS
      <3> QED
        BY <1>2, <3>1
    <2>2. f = [i \in 0 .. 0 |-> E(f, i)]
      <3> DEFINE v(i) == E(f, i)
      <3>1. \A i \in 0 .. 0 : v(i) = E(<<>>, i)
        BY <2>1
      <3> HIDE DEF v
      <3>2. f = [i \in 0 .. 0 |-> v(i)]
        BY <3>1
      <3> QED
        BY <3>2 DEF v
    <2>3. 0 \in 0 .. Depth
      BY <1>0
    <2> HIDE DEF f
    <2> QED
      BY <2>2, <2>3, Zenon
  <1>4. ASSUME NEW k \in A, k < Depth
        PROVE  k + 1 \in A
    <2>1. PICK g : g = [i \in 0 .. k |-> E(g, i)]
      OBVIOUS
    <2> DEFINE f == [i \in 0 .. k + 1 |-> E(g, i)]
    <2>2. k \in Nat /\ k + 1 \in 0 .. Depth
      BY <1>0, <1>4
    <2>3. \A i \in 0 .. k : f[i] = g[i]
      <3> DEFINE v(i) == E(g, i)
      <3>1. g = [i \in 0 .. k |-> v(i)] /\ f = [i \in 0 .. k + 1 |-> v(i)]
        BY <2>1
      <3> HIDE DEF v, f
      <3> QED
        BY <2>2, <3>1
    <2>4. \A i \in 0 .. k + 1 : E(f, i) = E(g, i)
      <3> HIDE DEF f
      <3>1. \A i \in 0 .. k + 1 : i = 0 \/ f[i - 1] = g[i - 1]
        BY <2>2, <2>3
      <3> QED
        BY <1>1, <1>2, <3>1
    <2>5. f = [i \in 0 .. k + 1 |-> E(f, i)]
      <3> DEFINE v(i) == E(f, i)
      <3>1. \A i \in 0 .. k + 1 : v(i) = E(g, i)
        BY <2>4
      <3> HIDE DEF v
      <3>2. f = [i \in 0 .. k + 1 |-> v(i)]
        BY <3>1
      <3> QED
        BY <3>2 DEF v
    <2> QED
      BY <2>2, <2>5, Zenon
  <1>5. Depth \in A
    <2>1. A \in SUBSET (0 .. Depth)
      OBVIOUS
    <2> HIDE DEF A
    <2>2. \A n \in A : n < Depth => n + 1 \in A
      BY <1>4
    <2>3. A = 0 .. Depth
      BY <1>0, <1>3, <2>1, <2>2, UpToN, Zenon
    <2> QED
      BY <1>0, <2>3
  <1>6. Serializer!ReadableTrees = [n \in 0 .. Depth |-> E(Serializer!ReadableTrees, n)]
    BY <1>n, <1>5, Zenon
  <1>7. \A n \in 0 .. Depth : Serializer!ReadableTrees[n] = E(Serializer!ReadableTrees, n)
    <2> DEFINE v(n) == E(Serializer!ReadableTrees, n)
    <2>1. Serializer!ReadableTrees = [n \in 0 .. Depth |-> v(n)]
      BY <1>6
    <2> HIDE DEF v
    <2>2. \A n \in 0 .. Depth : Serializer!ReadableTrees[n] = v(n)
      BY <2>1
    <2> QED
      BY <2>2 DEF v
  <1> QED
    BY <1>7 DEF E

\* The text of a container by those of its members (json.dumps).
WrittenItems(heap, g, c) ==
    [i \in DOMAIN heap[c].items |->
        [key |-> heap[c].items[i].key,
         value |-> IF heap[c].items[i].value \notin DOMAIN heap
                   THEN Serializer!Leaf(heap[c].items[i].value)
                   ELSE g[heap[c].items[i].value]]]
DumpOver(heap, g) == [c \in DOMAIN heap |->
    [type |-> heap[c].type,
     items |-> IF heap[c].type = "dict" THEN Serializer!ByKey(WrittenItems(heap, g, c))
               ELSE WrittenItems(heap, g, c)]]
NoDump(heap) == [c \in DOMAIN heap |-> Serializer!Leaf("circular")]
DumpOf(heap) == CHOOSE f : f = [n \in 0 .. Depth |->
    IF n = 0 THEN NoDump(heap) ELSE DumpOver(heap, f[n - 1])]

\* json.dumps writes by that definition.
LEMMA DumpedIsDumpOf ==
    ASSUME NEW heap, NEW v
    PROVE  Serializer!Dumped(heap, v) =
               IF v \notin DOMAIN heap THEN Serializer!Leaf(v) ELSE DumpOf(heap)[Depth][v]
  <1> DEFINE E(f, n) == IF n = 0 THEN NoDump(heap) ELSE DumpOver(heap, f[n - 1])
             F(f, n) == [c \in DOMAIN heap |->
                IF n = 0 THEN Serializer!Leaf("circular")
                ELSE LET items == heap[c].items
                         written == [i \in DOMAIN items |->
                             [key |-> items[i].key,
                              value |-> IF items[i].value \notin DOMAIN heap
                                        THEN Serializer!Leaf(items[i].value)
                                        ELSE f[n - 1][items[i].value]]]
                     IN [type |-> heap[c].type,
                         items |-> IF heap[c].type = "dict" THEN Serializer!ByKey(written)
                                   ELSE written]]
  <1>1. ASSUME NEW f, NEW n
        PROVE  E(f, n) = F(f, n)
    <2>1. CASE n = 0
      BY <2>1 DEF NoDump
    <2>2. CASE n # 0
      BY <2>2 DEF DumpOver, WrittenItems
    <2> QED
      BY <2>1, <2>2
  <1>2. Serializer!Dumped(heap, v) =
            IF v \notin DOMAIN heap THEN Serializer!Leaf(v)
            ELSE (CHOOSE f : f = [n \in 0 .. Depth |-> F(f, n)])[Depth][v]
    BY Zenon DEF Serializer!Dumped
  <1>3. DumpOf(heap) = CHOOSE f : f = [n \in 0 .. Depth |-> E(f, n)]
    BY DEF DumpOf
  <1> HIDE DEF E, F
  <1>4. \A f : [n \in 0 .. Depth |-> E(f, n)] = [n \in 0 .. Depth |-> F(f, n)]
    BY <1>1
  <1>5. (CHOOSE f : f = [n \in 0 .. Depth |-> E(f, n)])
            = (CHOOSE f : f = [n \in 0 .. Depth |-> F(f, n)])
    BY <1>4
  <1> QED
    BY <1>2, <1>3, <1>5

\* It has them one level less deep.
LEMMA DumpUnfolds ==
    ASSUME NEW heap
    PROVE  \A n \in 0 .. Depth : DumpOf(heap)[n] =
               IF n = 0 THEN NoDump(heap) ELSE DumpOver(heap, DumpOf(heap)[n - 1])
  <1> DEFINE E(f, n) == IF n = 0 THEN NoDump(heap) ELSE DumpOver(heap, f[n - 1])
             A == {k \in 0 .. Depth : \E f : f = [n \in 0 .. k |-> E(f, n)]}
  <1>0. Depth \in Nat
    BY DepthIsNatural DEF DepthIsNatural
  <1>1. \A f, g, n : f[n - 1] = g[n - 1] => E(f, n) = E(g, n)
    OBVIOUS
  <1>2. \A f, g : E(f, 0) = E(g, 0)
    OBVIOUS
  <1>n. DumpOf(heap) = CHOOSE f : f = [n \in 0 .. Depth |-> E(f, n)]
    BY DEF DumpOf
  <1> HIDE DEF E
  <1>3. 0 \in A
    <2> DEFINE f == [i \in 0 .. 0 |-> E(<<>>, i)]
    <2>1. \A i \in 0 .. 0 : E(f, i) = E(<<>>, i)
      <3> HIDE DEF f
      <3>1. \A i \in 0 .. 0 : i = 0
        OBVIOUS
      <3> QED
        BY <1>2, <3>1
    <2>2. f = [i \in 0 .. 0 |-> E(f, i)]
      <3> DEFINE v(i) == E(f, i)
      <3>1. \A i \in 0 .. 0 : v(i) = E(<<>>, i)
        BY <2>1
      <3> HIDE DEF v
      <3>2. f = [i \in 0 .. 0 |-> v(i)]
        BY <3>1
      <3> QED
        BY <3>2 DEF v
    <2>3. 0 \in 0 .. Depth
      BY <1>0
    <2> HIDE DEF f
    <2> QED
      BY <2>2, <2>3, Zenon
  <1>4. ASSUME NEW k \in A, k < Depth
        PROVE  k + 1 \in A
    <2>1. PICK g : g = [i \in 0 .. k |-> E(g, i)]
      OBVIOUS
    <2> DEFINE f == [i \in 0 .. k + 1 |-> E(g, i)]
    <2>2. k \in Nat /\ k + 1 \in 0 .. Depth
      BY <1>0, <1>4
    <2>3. \A i \in 0 .. k : f[i] = g[i]
      <3> DEFINE v(i) == E(g, i)
      <3>1. g = [i \in 0 .. k |-> v(i)] /\ f = [i \in 0 .. k + 1 |-> v(i)]
        BY <2>1
      <3> HIDE DEF v, f
      <3> QED
        BY <2>2, <3>1
    <2>4. \A i \in 0 .. k + 1 : E(f, i) = E(g, i)
      <3> HIDE DEF f
      <3>1. \A i \in 0 .. k + 1 : i = 0 \/ f[i - 1] = g[i - 1]
        BY <2>2, <2>3
      <3> QED
        BY <1>1, <1>2, <3>1
    <2>5. f = [i \in 0 .. k + 1 |-> E(f, i)]
      <3> DEFINE v(i) == E(f, i)
      <3>1. \A i \in 0 .. k + 1 : v(i) = E(g, i)
        BY <2>4
      <3> HIDE DEF v
      <3>2. f = [i \in 0 .. k + 1 |-> v(i)]
        BY <3>1
      <3> QED
        BY <3>2 DEF v
    <2> QED
      BY <2>2, <2>5, Zenon
  <1>5. Depth \in A
    <2>1. A \in SUBSET (0 .. Depth)
      OBVIOUS
    <2> HIDE DEF A
    <2>2. \A n \in A : n < Depth => n + 1 \in A
      BY <1>4
    <2>3. A = 0 .. Depth
      BY <1>0, <1>3, <2>1, <2>2, UpToN, Zenon
    <2> QED
      BY <1>0, <2>3
  <1>6. DumpOf(heap) = [n \in 0 .. Depth |-> E(DumpOf(heap), n)]
    BY <1>n, <1>5, Zenon
  <1>7. \A n \in 0 .. Depth : DumpOf(heap)[n] = E(DumpOf(heap), n)
    <2> DEFINE v(n) == E(DumpOf(heap), n)
    <2>1. DumpOf(heap) = [n \in 0 .. Depth |-> v(n)]
      BY <1>6
    <2> HIDE DEF v
    <2>2. \A n \in 0 .. Depth : DumpOf(heap)[n] = v(n)
      BY <2>1
    <2> QED
      BY <2>2 DEF v
  <1> QED
    BY <1>7 DEF E

\* One more container being visited leaves one less.
LEMMA OneLessLeft ==
    ASSUME NEW D, IsFiniteSet(D), NEW A \in SUBSET D, NEW c \in D \ A
    PROVE  /\ Cardinality(D \ A) \in Nat \ {0} /\ Cardinality(D \ (A \cup {c})) \in Nat
           /\ Cardinality(D \ (A \cup {c})) = Cardinality(D \ A) - 1
  <1> DEFINE B == D \ A
  <1>1. IsFiniteSet(B) /\ c \in B
    BY FS_Difference
  <1>2. D \ (A \cup {c}) = B \ {c}
    OBVIOUS
  <1> HIDE DEF B
  <1>3. Cardinality(B \ {c}) = Cardinality(B) - 1 /\ IsFiniteSet(B \ {c})
    BY <1>1, FS_RemoveElement
  <1>4. Cardinality(B) \in Nat /\ Cardinality(B \ {c}) \in Nat /\ B # {}
    BY <1>1, <1>3, FS_CardinalityType
  <1>5. Cardinality(B) # 0
    BY <1>1, <1>4, FS_EmptySet
  <1> QED
    BY <1>2, <1>3, <1>4, <1>5 DEF B

\* What is said of a set of containers by what is said of the set with one more
\* is well defined.
LEMMA ActiveRecursion ==
    ASSUME NEW D, IsFiniteSet(D), NEW Y, Y # {},
           NEW G \in [(SUBSET D) \X [SUBSET D -> Y] -> Y],
           \A A \in SUBSET D : \A f, g \in [SUBSET D -> Y] :
               (\A c \in D \ A : f[A \cup {c}] = g[A \cup {c}]) => G[<<A, f>>] = G[<<A, g>>]
    PROVE  \E f : Solves(f, SUBSET D, Y, G)
  <1> DEFINE S == SUBSET D
             N == Cardinality(D)
             L == [n \in 0 .. N |-> {A \in S : Cardinality(D \ A) <= n}]
  <1>1. N \in Nat
    BY FS_CardinalityType
  <1>2. \A A \in S : IsFiniteSet(D \ A) /\ Cardinality(D \ A) \in Nat /\ Cardinality(D \ A) <= N
    <2>1. \A A \in S : D \ A \in SUBSET D
      OBVIOUS
    <2> QED
      BY <2>1, FS_Subset, FS_CardinalityType
  <1>3. L \in [0 .. N -> SUBSET S] /\ L[N] = S
    <2> HIDE DEF N, S
    <2>1. N \in 0 .. N
      BY <1>1
    <2>2. L[N] = {A \in S : Cardinality(D \ A) <= N}
      BY <2>1
    <2>3. L[N] = S
      BY <1>2, <2>2
    <2> QED
      BY <2>3
  <1>4. \A f, g \in [S -> Y] : \A A \in L[0] : G[<<A, f>>] = G[<<A, g>>]
    <2> SUFFICES ASSUME NEW f \in [S -> Y], NEW g \in [S -> Y], NEW A \in L[0]
                 PROVE  G[<<A, f>>] = G[<<A, g>>]
      OBVIOUS
    <2>1. A \in S /\ Cardinality(D \ A) <= 0
      BY <1>1
    <2>2. D \ A = {}
      <3> DEFINE x == Cardinality(D \ A)
      <3>0. x \in Nat /\ x <= 0
        BY <1>2, <2>1
      <3> HIDE DEF x
      <3>1. x = 0
        BY <3>0
      <3> QED
        BY <1>2, <2>1, <3>1, FS_EmptySet DEF x
    <2> QED
      BY <2>1, <2>2
  <1>5. \A n \in 1 .. N : \A f, g \in [S -> Y] : (\A A \in L[n - 1] : f[A] = g[A])
           => \A A \in L[n] : G[<<A, f>>] = G[<<A, g>>]
    <2> SUFFICES ASSUME NEW n \in 1 .. N, NEW f \in [S -> Y], NEW g \in [S -> Y],
                        \A A \in L[n - 1] : f[A] = g[A], NEW A \in L[n]
                 PROVE  G[<<A, f>>] = G[<<A, g>>]
      OBVIOUS
    <2>1. A \in S /\ Cardinality(D \ A) <= n /\ n \in 0 .. N /\ n - 1 \in 0 .. N
      BY <1>1
    <2>2. ASSUME NEW c \in D \ A
          PROVE  f[A \cup {c}] = g[A \cup {c}]
      <3>1. Cardinality(D \ (A \cup {c})) = Cardinality(D \ A) - 1 /\ Cardinality(D \ A) \in Nat
        BY <2>1, OneLessLeft
      <3>2. A \cup {c} \in S /\ Cardinality(D \ (A \cup {c})) <= n - 1
        <4> DEFINE x == Cardinality(D \ A)
                   y == Cardinality(D \ (A \cup {c}))
        <4>1. y = x - 1 /\ x \in Nat /\ x <= n
          BY <2>1, <3>1
        <4> HIDE DEF x, y
        <4>2. y <= n - 1
          BY <1>1, <4>1
        <4> QED
          BY <2>1, <4>2 DEF y
      <3>3. A \cup {c} \in L[n - 1]
        BY <2>1, <3>2
      <3> QED
        BY <2>2, <3>3
    <2> HIDE DEF L, N
    <2> QED
      BY <2>1, <2>2
  <1> HIDE DEF S, L, N
  <1>6. G \in [S \X [S -> Y] -> Y]
    BY DEF S
  <1>7. Descends(S, Y, N, L, G)
    BY <1>3, <1>4, <1>5, <1>6, Zenon DEF Descends
  <1>8. \E f : Solves(f, S, Y, G)
    BY <1>1, <1>7, RecursionExists
  <1> QED
    BY <1>8 DEF S

\* What is validated of a container when others are being visited
\* (_validate_json_value).
StrictItem(heap, c, i, g) ==
    /\ heap[c].type = "dict" => heap[c].items[i].key # 0
    /\ IF heap[c].items[i].value \notin DOMAIN heap
       THEN heap[c].items[i].value \in Serializer!StrictLeaves
       ELSE g[heap[c].items[i].value]
StrictStep(heap, A, f) == [c \in DOMAIN heap |->
    c \notin A /\ \A i \in DOMAIN heap[c].items : StrictItem(heap, c, i, f[A \cup {c}])]
StrictOf(heap) == CHOOSE f : f = [A \in SUBSET DOMAIN heap |-> StrictStep(heap, A, f)]

\* The validator's verdict is that of no container being visited.
LEMMA StrictIsStrictOf ==
    ASSUME NEW heap, NEW v
    PROVE  Serializer!Strict(heap, v) =
               IF v \notin DOMAIN heap THEN v \in Serializer!StrictLeaves
               ELSE StrictOf(heap)[{}][v]
  BY Zenon DEF Serializer!Strict, StrictOf, StrictStep, StrictItem

\* A container is validated by what it holds, itself being visited; the recursion
\* ends since each level leaves one container less.
LEMMA StrictUnfolds ==
    ASSUME NEW heap, IsFiniteSet(DOMAIN heap)
    PROVE  \A A \in SUBSET DOMAIN heap : \A c \in DOMAIN heap :
               StrictOf(heap)[A][c] <=>
                   /\ c \notin A
                   /\ \A i \in DOMAIN heap[c].items :
                         StrictItem(heap, c, i, StrictOf(heap)[A \cup {c}])
  <1> DEFINE D == DOMAIN heap
             S == SUBSET D
             Y == [D -> BOOLEAN]
             B(A, f) == StrictStep(heap, A, f)
             G == [p \in S \X [S -> Y] |-> B(p[1], p[2])]
             s == StrictOf(heap)
  <1>1. s = CHOOSE f : f = [A \in S |-> B(A, f)]
    BY DEF StrictOf
  <1>2. \A A, f : B(A, f) \in Y
    BY DEF StrictStep
  <1>3. ASSUME NEW A \in S, NEW f, NEW g, \A c \in D \ A : f[A \cup {c}] = g[A \cup {c}]
        PROVE  B(A, f) = B(A, g)
    <2> DEFINE u(h, c) == c \notin A /\ \A i \in DOMAIN heap[c].items : StrictItem(heap, c, i, h[A \cup {c}])
    <2>1. \A c \in D : u(f, c) = u(g, c)
      <3>1. ASSUME NEW c \in D
            PROVE  u(f, c) = u(g, c)
        <4>1. CASE c \in A
          BY <4>1
        <4>2. CASE c \notin A
          <5>1. f[A \cup {c}] = g[A \cup {c}]
            BY <1>3, <4>2
          <5> QED
            BY <5>1
        <4> QED
          BY <4>1, <4>2
      <3> QED
        BY <3>1
    <2>2. \A h : B(A, h) = [c \in D |-> u(h, c)]
      BY DEF StrictStep
    <2> HIDE DEF u, B
    <2> QED
      BY <2>1, <2>2
  <1>4. PICK f \in [S -> Y] : \A A \in S : f[A] = B(A, f)
    <2> HIDE DEF B, Y, D
    <2>1. G \in [S \X [S -> Y] -> Y]
      BY <1>2
    <2>2. \A A \in S : \A h \in [S -> Y] : G[<<A, h>>] = B(A, h)
      OBVIOUS
    <2> HIDE DEF G
    <2>3. \A A \in SUBSET D : \A h, g \in [SUBSET D -> Y] :
             (\A c \in D \ A : h[A \cup {c}] = g[A \cup {c}]) => G[<<A, h>>] = G[<<A, g>>]
      <3> SUFFICES ASSUME NEW A \in S, NEW h \in [S -> Y], NEW g \in [S -> Y],
                          \A c \in D \ A : h[A \cup {c}] = g[A \cup {c}]
                   PROVE  G[<<A, h>>] = G[<<A, g>>]
        OBVIOUS
      <3>1. B(A, h) = B(A, g)
        BY <1>3
      <3> QED
        BY <2>2, <3>1
    <2>4. Y # {}
      BY <1>2
    <2>5. IsFiniteSet(D)
      BY DEF D
    <2>6. PICK h : Solves(h, SUBSET D, Y, G)
      BY <2>1, <2>3, <2>4, <2>5, ActiveRecursion
    <2> QED
      BY <2>2, <2>6 DEF Solves
  <1> HIDE DEF S
  <1>5. f = [A \in S |-> B(A, f)]
    <2> DEFINE u(A) == B(A, f)
    <2>1. \A A \in S : f[A] = u(A)
      BY <1>4
    <2> HIDE DEF u
    <2>2. f = [A \in S |-> u(A)]
      BY <1>4, <2>1
    <2> QED
      BY <2>2 DEF u
  <1>6. s = [A \in S |-> B(A, s)]
    <2> HIDE DEF B
    <2> QED
      BY <1>1, <1>5, Zenon
  <1>7. \A A \in S : s[A] = B(A, s)
    <2> HIDE DEF s
    <2> DEFINE u(A) == B(A, s)
    <2>1. s = [A \in S |-> u(A)]
      BY <1>6
    <2> HIDE DEF u
    <2>2. \A A \in S : s[A] = u(A)
      BY <2>1
    <2> QED
      BY <2>2 DEF u
  <1> HIDE DEF s
  <1>8. \A A \in S : \A c \in D : s[A][c] <=>
            c \notin A /\ \A i \in DOMAIN heap[c].items : StrictItem(heap, c, i, s[A \cup {c}])
    <2> SUFFICES ASSUME NEW A \in S, NEW c \in D
                 PROVE  s[A][c] <=> c \notin A /\ \A i \in DOMAIN heap[c].items :
                                        StrictItem(heap, c, i, s[A \cup {c}])
      OBVIOUS
    <2>1. s[A] = StrictStep(heap, A, s)
      BY <1>7
    <2> QED
      BY <2>1 DEF StrictStep
  <1> QED
    BY <1>8 DEF s, S

\* d stands in the container c.
Holds(heap, c, d) == \E i \in DOMAIN heap[c].items : heap[c].items[i].value = d

\* What is reached from a container: itself, and what is reached from what it
\* holds.
LEMMA ReachedFacts ==
    ASSUME NEW heap, NEW v \in DOMAIN heap
    PROVE  /\ v \in Serializer!Reached(heap, v)
           /\ Serializer!Reached(heap, v) \in SUBSET DOMAIN heap
           /\ \A c \in Serializer!Reached(heap, v), d \in DOMAIN heap :
                 Holds(heap, c, d) => d \in Serializer!Reached(heap, v)
           /\ \A d \in Serializer!Reached(heap, v) :
                 Serializer!Reached(heap, d) \subseteq Serializer!Reached(heap, v)
           /\ \A c \in Serializer!Reached(heap, v) : c # v =>
                 \E d \in DOMAIN heap : Holds(heap, v, d) /\ c \in Serializer!Reached(heap, d)
  <1> DEFINE D == DOMAIN heap
             R(x) == Serializer!Reached(heap, x)
             Cl(S) == \A c \in S, d \in D : Holds(heap, c, d) => d \in S
  <1>1. \A S : Serializer!Closed(heap, S) <=> Cl(S)
    BY DEF Serializer!Closed, Holds
  <1>2. \A x, c : c \in R(x) <=> c \in D /\ \A S \in SUBSET D : x \in S /\ Cl(S) => c \in S
    <2>1. \A x : R(x) = {c \in D : \A S \in SUBSET D : x \in S /\ Serializer!Closed(heap, S) => c \in S}
      BY DEF Serializer!Reached
    <2> HIDE DEF R, Cl
    <2> QED
      BY <1>1, <2>1
  <1> HIDE DEF R
  <1>3. \A x \in D : x \in R(x)
    BY <1>2
  <1>4. \A x : R(x) \in SUBSET D
    BY <1>2
  <1>5. \A x : Cl(R(x))
    <2> SUFFICES ASSUME NEW x, NEW c \in R(x), NEW d \in D, Holds(heap, c, d) PROVE d \in R(x)
      OBVIOUS
    <2>1. ASSUME NEW S \in SUBSET D, x \in S, Cl(S)
          PROVE  d \in S
      <3>1. c \in S
        <4> HIDE DEF Cl
        <4> QED
          BY <1>2, <2>1
      <3> QED
        BY <2>1, <3>1
    <2> HIDE DEF Cl
    <2> QED
      BY <1>2, <2>1
  <1>6. \A x, d : d \in R(x) => R(d) \subseteq R(x)
    <2> SUFFICES ASSUME NEW x, NEW d \in R(x), NEW c \in R(d) PROVE c \in R(x)
      OBVIOUS
    <2> HIDE DEF Cl
    <2>1. R(x) \in SUBSET D /\ Cl(R(x))
      BY <1>4, <1>5
    <2> QED
      BY <1>2, <2>1
  <1>7. ASSUME NEW c \in R(v), c # v
        PROVE  \E d \in D : Holds(heap, v, d) /\ c \in R(d)
    <2> DEFINE T == {v} \cup {x \in D : \E d \in D : Holds(heap, v, d) /\ x \in R(d)}
    <2>1. T \in SUBSET D /\ v \in T
      OBVIOUS
    <2>2. ASSUME NEW x \in T, NEW d \in D, Holds(heap, x, d)
          PROVE  d \in T
      <3>1. CASE x = v
        BY <1>3, <2>2, <3>1
      <3>2. CASE x # v
        <4>1. PICK y \in D : Holds(heap, v, y) /\ x \in R(y)
          BY <3>2
        <4>2. d \in R(y)
          BY <1>5, <2>2, <4>1
        <4> QED
          BY <4>1, <4>2
      <3> QED
        BY <3>1, <3>2
    <2>3. Cl(T)
      <3> HIDE DEF T
      <3> QED
        BY <2>2
    <2>4. c \in T
      <3> HIDE DEF T, Cl
      <3> QED
        BY <1>2, <2>1, <2>3
    <2> QED
      BY <1>7, <2>4
  <1> QED
    BY <1>3, <1>4, <1>5, <1>6, <1>7 DEF R

\* A container that is validated, whatever is being visited, holds what JSON has
\* and containers that are validated as well.
LEMMA StrictHolds ==
    ASSUME NEW heap, IsFiniteSet(DOMAIN heap), NEW A \in SUBSET DOMAIN heap, NEW c \in DOMAIN heap,
           StrictOf(heap)[A][c]
    PROVE  /\ c \notin A
           /\ \A d \in DOMAIN heap : Holds(heap, c, d) => StrictOf(heap)[A \cup {c}][d]
           /\ \A i \in DOMAIN heap[c].items :
                 /\ heap[c].type = "dict" => heap[c].items[i].key # 0
                 /\ heap[c].items[i].value \notin DOMAIN heap =>
                       heap[c].items[i].value \in Serializer!StrictLeaves
  <1> DEFINE g == StrictOf(heap)[A \cup {c}]
  <1>1. c \notin A /\ \A i \in DOMAIN heap[c].items : StrictItem(heap, c, i, g)
    BY StrictUnfolds, Zenon
  <1> HIDE DEF g
  <1>2. \A i \in DOMAIN heap[c].items :
           /\ heap[c].type = "dict" => heap[c].items[i].key # 0
           /\ heap[c].items[i].value \notin DOMAIN heap =>
                 heap[c].items[i].value \in Serializer!StrictLeaves
           /\ heap[c].items[i].value \in DOMAIN heap => g[heap[c].items[i].value]
    BY <1>1, Zenon DEF StrictItem
  <1>3. ASSUME NEW d \in DOMAIN heap, Holds(heap, c, d)
        PROVE  g[d]
    <2>1. PICK i \in DOMAIN heap[c].items : heap[c].items[i].value = d
      BY <1>3 DEF Holds
    <2>2. heap[c].items[i].value \in DOMAIN heap => g[heap[c].items[i].value]
      BY <1>2, Zenon
    <2> QED
      BY <2>1, <2>2, Zenon
  <1> QED
    BY <1>1, <1>2, <1>3, Zenon DEF g

\* What is validated is JSON: were a container in a cycle, then one of the cycle
\* would be validated with the fewest left to visit, and the next with fewer.
LEMMA StrictIsJson ==
    ASSUME NEW heap, IsFiniteSet(DOMAIN heap), NEW v, Serializer!Strict(heap, v)
    PROVE  Serializer!IsJson(heap, v)
  <1> DEFINE D == DOMAIN heap
             st == StrictOf(heap)
             R(x) == Serializer!Reached(heap, x)
             S == {c \in D : \E A \in SUBSET D : st[A][c]}
  <1>1. CASE v \notin D
    BY <1>1, StrictIsStrictOf DEF Serializer!IsJson
  <1>2. CASE v \in D
    <2>1. st[{}][v]
      BY <1>2, StrictIsStrictOf
    <2> HIDE DEF st
    <2>2. v \in S
      BY <1>2, <2>1
    <2>3. ASSUME NEW c \in S, NEW d \in D, Holds(heap, c, d)
          PROVE  d \in S
      <3>1. PICK A \in SUBSET D : st[A][c]
        OBVIOUS
      <3>2. st[A \cup {c}][d]
        BY <2>3, <3>1, StrictHolds DEF st
      <3> QED
        BY <3>2
    <2>4. R(v) \subseteq S
      <3>1. Serializer!Closed(heap, S)
        <4> HIDE DEF S
        <4> QED
          BY <2>3 DEF Serializer!Closed, Holds
      <3>2. S \in SUBSET D
        OBVIOUS
      <3> HIDE DEF S
      <3> QED
        BY <2>2, <3>1, <3>2 DEF Serializer!Reached
    <2>5. ASSUME NEW c \in R(v), NEW d \in D, Holds(heap, c, d)
          PROVE  c \notin R(d)
      <3> SUFFICES ASSUME c \in R(d) PROVE FALSE
        OBVIOUS
      <3> DEFINE C == {x \in D : c \in R(x)}
                 K(A) == Cardinality(D \ A)
                 T == {K(A) : A \in {B \in SUBSET D : \E x \in C : st[B][x]}}
      <3>1. c \in D /\ c \in C
        BY <2>4, ReachedFacts
      <3>2. ASSUME NEW x \in C
            PROVE  \E y \in C : Holds(heap, x, y)
        <4>1. CASE x = c
          BY <2>5, <4>1
        <4>2. CASE x # c
          <5>1. c \in R(x) /\ x \in D
            OBVIOUS
          <5>2. PICK y \in D : Holds(heap, x, y) /\ c \in R(y)
            BY <4>2, <5>1, ReachedFacts
          <5> QED
            BY <5>2
        <4> QED
          BY <4>1, <4>2
      <3>3. \A A \in SUBSET D : K(A) \in Nat
        BY FS_Difference, FS_CardinalityType
      <3>4. T \in SUBSET Nat /\ T # {}
        <4>1. PICK A \in SUBSET D : st[A][c]
          BY <2>4
        <4>2. K(A) \in T
          BY <3>1, <4>1
        <4> HIDE DEF K
        <4> QED
          BY <3>3, <4>2
      <3>5. PICK m \in T : \A k \in T : m <= k
        <4> HIDE DEF T
        <4> QED
          BY <3>4, LeastNumber
      <3>6. PICK A \in SUBSET D, x \in C : m = K(A) /\ st[A][x]
        OBVIOUS
      <3>7. PICK y \in C : Holds(heap, x, y)
        BY <3>2
      <3>8. x \notin A /\ st[A \cup {x}][y]
        BY <3>6, <3>7, StrictHolds DEF st
      <3>9. K(A \cup {x}) = K(A) - 1 /\ K(A) \in Nat
        BY <3>8, OneLessLeft
      <3>10. K(A \cup {x}) \in T
        BY <3>8
      <3> HIDE DEF K, T
      <3> QED
        BY <3>5, <3>6, <3>9, <3>10
    <2>6. ASSUME NEW c \in R(v), NEW i \in DOMAIN heap[c].items
          PROVE  /\ heap[c].type = "dict" => heap[c].items[i].key # 0
                 /\ IF heap[c].items[i].value \notin D
                    THEN heap[c].items[i].value \in Serializer!StrictLeaves
                    ELSE c \notin R(heap[c].items[i].value)
      <3>1. PICK A \in SUBSET D : st[A][c]
        BY <2>4
      <3>2. c \in D
        BY <2>4
      <3>3. /\ heap[c].type = "dict" => heap[c].items[i].key # 0
            /\ heap[c].items[i].value \notin D => heap[c].items[i].value \in Serializer!StrictLeaves
        BY <3>1, <3>2, StrictHolds DEF st
      <3>4. Holds(heap, c, heap[c].items[i].value)
        BY DEF Holds
      <3> QED
        BY <2>5, <3>3, <3>4
    <2> QED
      BY <1>2, <2>6 DEF Serializer!IsJson
  <1> QED
    BY <1>1, <1>2

\* JSON is validated: of what is refused with the fewest left to visit, what it
\* holds is refused with fewer.
LEMMA JsonIsStrict ==
    ASSUME NEW heap, IsFiniteSet(DOMAIN heap), NEW v, Serializer!IsJson(heap, v)
    PROVE  Serializer!Strict(heap, v)
  <1> DEFINE D == DOMAIN heap
             st == StrictOf(heap)
             R(x) == Serializer!Reached(heap, x)
             K(A) == Cardinality(D \ A)
             Refused(A, x) == x \in R(v) /\ R(x) \cap A = {} /\ ~ st[A][x]
             T == {K(A) : A \in {B \in SUBSET D : \E x \in D : Refused(B, x)}}
  <1>1. CASE v \notin D
    BY <1>1, StrictIsStrictOf DEF Serializer!IsJson
  <1>2. CASE v \in D
    <2> SUFFICES ASSUME ~ st[{}][v] PROVE FALSE
      BY <1>2, StrictIsStrictOf
    <2> HIDE DEF st
    <2>1. ASSUME NEW c \in R(v), NEW i \in DOMAIN heap[c].items
          PROVE  /\ heap[c].type = "dict" => heap[c].items[i].key # 0
                 /\ IF heap[c].items[i].value \notin D
                    THEN heap[c].items[i].value \in Serializer!StrictLeaves
                    ELSE c \notin R(heap[c].items[i].value)
      BY <1>2, <2>1 DEF Serializer!IsJson
    <2>2. \A A \in SUBSET D : K(A) \in Nat
      BY FS_Difference, FS_CardinalityType
    <2>3. T \in SUBSET Nat /\ T # {}
      <3>1. Refused({}, v)
        BY <1>2, ReachedFacts
      <3> HIDE DEF Refused, K
      <3>2. K({}) \in T
        BY <1>2, <3>1
      <3> QED
        BY <2>2, <3>2
    <2>4. PICK m \in T : \A k \in T : m <= k
      <3> HIDE DEF T
      <3> QED
        BY <2>3, LeastNumber
    <2>5. PICK A \in SUBSET D, x \in D : m = K(A) /\ Refused(A, x)
      OBVIOUS
    <2>6. x \notin A /\ R(x) \subseteq R(v)
      BY <1>2, <2>5, ReachedFacts
    <2>7. K(A \cup {x}) = K(A) - 1 /\ K(A) \in Nat
      BY <2>6, OneLessLeft
    <2>8. K(A \cup {x}) \notin T
      <3> HIDE DEF K, T
      <3> QED
        BY <2>4, <2>5, <2>7
    <2>9. \A y \in D : ~ Refused(A \cup {x}, y)
      <3> HIDE DEF Refused, K
      <3> QED
        BY <2>8
    <2>10. ASSUME NEW i \in DOMAIN heap[x].items
           PROVE  StrictItem(heap, x, i, st[A \cup {x}])
      <3> DEFINE y == heap[x].items[i].value
      <3>1. /\ heap[x].type = "dict" => heap[x].items[i].key # 0
            /\ y \notin D => y \in Serializer!StrictLeaves
            /\ y \in D => x \notin R(y)
        BY <2>1, <2>5
      <3>2. Holds(heap, x, y)
        BY DEF Holds
      <3> HIDE DEF y
      <3>3. ASSUME y \in D
            PROVE  st[A \cup {x}][y]
        <4>1. y \in R(x) /\ R(y) \subseteq R(x)
          BY <3>2, <3>3, ReachedFacts
        <4>2. y \in R(v) /\ R(y) \cap (A \cup {x}) = {}
          BY <2>5, <2>6, <3>1, <3>3, <4>1
        <4> QED
          BY <2>9, <3>3, <4>2
      <3> QED
        BY <3>1, <3>3 DEF StrictItem, y
    <2>11. st[A][x]
      BY <2>6, <2>10, StrictUnfolds DEF st
    <2> QED
      BY <2>5, <2>11
  <1> QED
    BY <1>1, <1>2

\* The encoder's validation takes just what is JSON.
LEMMA ValidationIsExact ==
    ASSUME NEW heap, IsFiniteSet(DOMAIN heap), NEW v
    PROVE  Serializer!ValidatesJson(heap, v)
  BY StrictIsJson, JsonIsStrict DEF Serializer!ValidatesJson

\* The members of a dict, each with its key, in the order of their keys.
LEMMA ByKeyKeeps ==
    ASSUME NEW V, NEW items \in Seq([key : Nat, value : V]), ~ Serializer!Repeats(items)
    PROVE  /\ Serializer!ByKey(items) \in Seq([key : Nat, value : V])
           /\ ~ Serializer!Repeats(Serializer!ByKey(items))
  <1> DEFINE S == DOMAIN items
             R == {p \in S \X S : items[p[1]].key < items[p[2]].key}
             c == Cardinality(S)
             p == Sorted(S, R)
             b == Serializer!ByKey(items)
             Pair == [key : Nat, value : V]
  <1>1. S = 1 .. Len(items) /\ Len(items) \in Nat /\ IsFiniteSet(S)
    BY FS_Interval
  <1>2. \A i \in S : items[i] \in Pair
    <2> HIDE DEF Pair
    <2>1. items \in Seq(Pair)
      BY DEF Pair
    <2> QED
      BY <2>1
  <1>3. \A i, j \in S : <<i, j>> \in R <=> items[i].key < items[j].key
    OBVIOUS
  <1>4. \A i, j \in S : i # j => items[i].key # items[j].key
    BY DEF Serializer!Repeats
  <1>5. Serializer!Sorted(S, R) = p
    BY DEF Serializer!Sorted, Sorted, Serializer!Cardinality, Cardinality
  <1>6. b = [k \in DOMAIN p |-> items[p[k]]]
    BY <1>5 DEF Serializer!ByKey
  <1> HIDE DEF S, R, b
  <1>7. \A i \in S : items[i].key \in Nat
    BY <1>2
  <1> DEFINE key(i) == items[i].key
  <1> HIDE DEF key
  <1>k. /\ \A i \in S : key(i) \in Nat
        /\ \A i, j \in S : <<i, j>> \in R <=> key(i) < key(j)
        /\ \A i, j \in S : i # j => key(i) # key(j)
    BY <1>3, <1>4, <1>7 DEF key
  <1>8. Orders(R, S)
    <2>1. \A i \in S : <<i, i>> \notin R
      BY <1>k
    <2>2. \A i, j \in S : i # j => <<i, j>> \in R \/ <<j, i>> \in R
      BY <1>k
    <2>3. \A i, j, k \in S : <<i, j>> \in R /\ <<j, k>> \in R => <<i, k>> \in R
      BY <1>k
    <2> QED
      BY <2>1, <2>2, <2>3, Zenon DEF Orders
  <1>9. /\ c \in Nat /\ DOMAIN p = 1 .. c
        /\ \A k \in 1 .. c : p[k] \in S
        /\ \A i, j \in 1 .. c : i < j <=> <<p[i], p[j]>> \in R
    BY <1>1, <1>8, SortedPlaces
  <1> HIDE DEF p, c
  <1>10. DOMAIN b = 1 .. c /\ \A k \in 1 .. c : b[k] = items[p[k]]
    BY <1>6, <1>9
  <1>11. b \in Seq(Pair)
    <2> HIDE DEF Pair
    <2>1. b = [k \in 1 .. c |-> b[k]]
      BY <1>6, <1>9, <1>10
    <2>2. \A k \in 1 .. c : b[k] \in Pair
      BY <1>2, <1>9, <1>10
    <2>3. b \in [1 .. c -> Pair]
      BY <2>1, <2>2
    <2> QED
      BY <1>9, <2>3
  <1>12. ASSUME NEW i \in 1 .. c, NEW j \in 1 .. c, i # j
         PROVE  b[i].key # b[j].key
    <2>1. <<p[i], p[j]>> \in R \/ <<p[j], p[i]>> \in R
      BY <1>9, <1>12
    <2>2. p[i] \in S /\ p[j] \in S
      BY <1>9
    <2>3. key(p[i]) # key(p[j])
      BY <1>k, <2>1, <2>2
    <2> QED
      BY <1>10, <2>3 DEF key
  <1> QED
    BY <1>10, <1>11, <1>12 DEF Serializer!Repeats, b, Pair

\* A container that is validated is written as a text that can be read, of the
\* depth of what is left to visit.
LEMMA StrictDumps ==
    ASSUME NEW heap, Serializer!IsHeap(heap)
    PROVE  \A n \in 0 .. Depth : \A A \in SUBSET DOMAIN heap, c \in DOMAIN heap :
               StrictOf(heap)[A][c] /\ Cardinality(DOMAIN heap \ A) <= n =>
                   DumpOf(heap)[n][c] \in Serializer!ReadableTrees[n]
  <1> DEFINE D == DOMAIN heap
             st == StrictOf(heap)
             dump == DumpOf(heap)
             Tree(n) == Serializer!ReadableTrees[n]
             K(A) == Cardinality(D \ A)
             N == {n \in 0 .. Depth : \A A \in SUBSET D, c \in D :
                       st[A][c] /\ K(A) <= n => dump[n][c] \in Tree(n)}
  <1>0. Depth \in Nat
    BY DepthIsNatural DEF DepthIsNatural
  <1>1. /\ IsFiniteSet(D)
        /\ \A c \in D : /\ heap[c].type \in {"list", "dict"}
                        /\ heap[c].items \in Serializer!Items
        /\ \A c \in D : heap[c].type = "dict" =>
              \A i, j \in DOMAIN heap[c].items :
                 heap[c].items[i].key = heap[c].items[j].key => i = j \/ heap[c].items[i].key = 0
    <2>1. heap \in [D -> [type : {"list", "dict"}, items : Serializer!Items]]
      BY DEF Serializer!IsHeap
    <2> QED
      BY <2>1 DEF Serializer!IsHeap, Serializer!IsFiniteSet, IsFiniteSet
  <1>2. \A A \in SUBSET D, c \in D : st[A][c] =>
           /\ K(A) \in Nat \ {0} /\ K(A \cup {c}) \in Nat /\ K(A \cup {c}) = K(A) - 1
    <2> SUFFICES ASSUME NEW A \in SUBSET D, NEW c \in D, st[A][c]
                 PROVE  /\ K(A) \in Nat \ {0} /\ K(A \cup {c}) \in Nat
                        /\ K(A \cup {c}) = K(A) - 1
      BY Zenon
    <2>1. c \in D \ A
      BY <1>1, StrictHolds
    <2> QED
      BY <1>1, <2>1, OneLessLeft
  <1>3. 0 \in N
    <2> HIDE DEF st, dump, Tree, K
    <2>1. \A A \in SUBSET D, c \in D : ~ (st[A][c] /\ K(A) <= 0)
      <3> SUFFICES ASSUME NEW A \in SUBSET D, NEW c \in D, st[A][c], K(A) <= 0 PROVE FALSE
        OBVIOUS
      <3>1. K(A) \in Nat \ {0}
        BY <1>2
      <3> QED
        BY <3>1
    <2> QED
      BY <1>0, <2>1
  <1>4. ASSUME NEW n \in N, n < Depth
        PROVE  n + 1 \in N
    <2>0. n \in Nat /\ n + 1 \in 0 .. Depth /\ (n + 1) - 1 = n /\ n + 1 # 0
      BY <1>0, <1>4
    <2>1. dump[n + 1] = DumpOver(heap, dump[n])
      BY <2>0, DumpUnfolds
    <2>2. Tree(n + 1) = Texts \cup ReadableOver(Tree(n))
      BY <2>0, ReadableUnfolds
    <2>3. Texts \subseteq Tree(n)
      BY <2>0, ReadableUnfolds
    <2>4. ASSUME NEW A \in SUBSET D, NEW c \in D, st[A][c], K(A) <= n + 1
          PROVE  dump[n + 1][c] \in Tree(n + 1)
      <3> DEFINE items == heap[c].items
                 w == WrittenItems(heap, dump[n], c)
                 Pairs == [key : Nat, value : Tree(n)]
      <3>1. items \in Seq([key : Nat, value : STRING]) /\ heap[c].type \in {"list", "dict"}
        BY <1>1 DEF Serializer!Items
      <3>2. A \cup {c} \in SUBSET D /\ K(A \cup {c}) <= n
        <4>1. K(A) \in Nat /\ K(A \cup {c}) = K(A) - 1
          BY <1>2, <2>4
        <4> DEFINE x == K(A)
                   y == K(A \cup {c})
        <4> HIDE DEF x, y
        <4>2. y <= n
          BY <2>0, <2>4, <4>1 DEF x, y
        <4> QED
          BY <4>2 DEF y
      <3>3. \A i \in DOMAIN items :
               /\ items[i].key \in Nat
               /\ heap[c].type = "dict" => items[i].key # 0
               /\ items[i].value \notin D => items[i].value \in Serializer!StrictLeaves
        <4>1. \A i \in DOMAIN items :
                 /\ heap[c].type = "dict" => items[i].key # 0
                 /\ items[i].value \notin D => items[i].value \in Serializer!StrictLeaves
          BY <1>1, <2>4, StrictHolds, Zenon
        <4> HIDE DEF items, D
        <4>2. \A i \in DOMAIN items : items[i].key \in Nat
          <5> DEFINE Entry == [key : Nat, value : STRING]
          <5>1. \A e \in Entry : e.key \in Nat
            OBVIOUS
          <5> HIDE DEF Entry
          <5>2. items \in Seq(Entry)
            BY <3>1 DEF Entry
          <5> QED
            BY <5>1, <5>2
        <4> QED
          BY <4>1, <4>2
      <3>4. ASSUME NEW i \in DOMAIN items, items[i].value \in D
            PROVE  dump[n][items[i].value] \in Tree(n)
        <4>1. st[A \cup {c}][items[i].value]
          BY <1>1, <2>4, <3>4, StrictHolds DEF Holds
        <4> HIDE DEF st, dump, Tree, K
        <4> QED
          BY <3>2, <3>4, <4>1
      <3>5. \A i \in DOMAIN items : items[i].value \notin D =>
               Serializer!Leaf(items[i].value) \in Tree(n)
        BY <2>3, <3>3 DEF Texts
      <3> HIDE DEF st, dump, Tree, K
      <3>6. DOMAIN w = DOMAIN items /\ \A i \in DOMAIN items :
               w[i].key = items[i].key /\ w[i] \in Pairs
        BY <3>3, <3>4, <3>5 DEF WrittenItems
      <3>7. w \in Seq(Pairs)
        <4>1. DOMAIN items = 1 .. Len(items) /\ Len(items) \in Nat
          BY <3>1
        <4>2. w = [i \in 1 .. Len(items) |-> w[i]]
          BY <4>1 DEF WrittenItems
        <4>3. \A i \in 1 .. Len(items) : w[i] \in Pairs
          BY <3>6, <4>1
        <4> HIDE DEF w, Pairs, items
        <4>4. w \in [1 .. Len(items) -> Pairs]
          BY <4>2, <4>3
        <4> QED
          BY <4>1, <4>4
      <3>8. dump[n + 1][c] = [type |-> heap[c].type,
                              items |-> IF heap[c].type = "dict" THEN Serializer!ByKey(w) ELSE w]
        BY <2>1 DEF DumpOver
      <3>9. CASE heap[c].type = "list"
        <4>1. dump[n + 1][c] = [type |-> "list", items |-> w]
          BY <3>8, <3>9
        <4>2. [type |-> "list", items |-> w] \in [type : {"list"}, items : Seq(Pairs)]
          <5> HIDE DEF w, Pairs
          <5> QED
            BY <3>7
        <4> QED
          BY <2>2, <4>1, <4>2 DEF ReadableOver
      <3>10. CASE heap[c].type = "dict"
        <4>1. dump[n + 1][c] = [type |-> "dict", items |-> Serializer!ByKey(w)]
          BY <3>8, <3>10
        <4>2. ~ Serializer!Repeats(w)
          <5>1. \A i, j \in DOMAIN items : items[i].key = items[j].key => i = j
            BY <1>1, <3>3, <3>10
          <5> HIDE DEF w, items
          <5> QED
            BY <3>6, <5>1 DEF Serializer!Repeats
        <4>3. Serializer!ByKey(w) \in Seq(Pairs) /\ ~ Serializer!Repeats(Serializer!ByKey(w))
          <5> HIDE DEF w
          <5> QED
            BY <3>7, <4>2, ByKeyKeeps
        <4> DEFINE b == Serializer!ByKey(w)
                   tree == [type |-> "dict", items |-> b]
        <4> HIDE DEF w, b, Pairs
        <4>4. tree \in [type : {"dict"}, items : Seq(Pairs)] /\ tree.items = b
          BY <4>3 DEF b
        <4>5. tree \in {t \in [type : {"dict"}, items : Seq(Pairs)] : ~ Serializer!Repeats(t.items)}
          <5> HIDE DEF tree
          <5> QED
            BY <4>3, <4>4 DEF b
        <4> QED
          BY <2>2, <4>1, <4>5 DEF ReadableOver, b, Pairs
      <3> QED
        BY <3>1, <3>9, <3>10
    <2> QED
      BY <2>0, <2>4
  <1> HIDE DEF st, dump, Tree, K
  <1>5. N = 0 .. Depth
    <2>1. N \in SUBSET (0 .. Depth)
      OBVIOUS
    <2> HIDE DEF N
    <2>2. \A n \in N : n < Depth => n + 1 \in N
      BY <1>4
    <2> QED
      BY <1>0, <1>3, <2>1, <2>2, UpToN, Zenon
  <1> QED
    BY <1>5 DEF st, dump, Tree, K

\* What is written of a JSON value can be read (json.dumps, json.loads).
LEMMA DumpedIsReadable ==
    ASSUME NEW heap, Serializer!IsHeap(heap), NEW v, Serializer!Strict(heap, v)
    PROVE  Serializer!Readable(Serializer!Dumped(heap, v))
  <1> DEFINE D == DOMAIN heap
  <1>0. Depth \in Nat /\ Depth \in 0 .. Depth
    BY DepthIsNatural DEF DepthIsNatural
  <1>1. IsFiniteSet(D) /\ Cardinality(D) <= Depth
    BY DEF Serializer!IsHeap, Serializer!IsFiniteSet, IsFiniteSet, Serializer!Cardinality, Cardinality
  <1>2. CASE v \notin D
    <2>1. v \in Serializer!StrictLeaves /\ Serializer!Dumped(heap, v) = Serializer!Leaf(v)
      BY <1>2, StrictIsStrictOf, DumpedIsDumpOf
    <2>2. Texts \subseteq Serializer!ReadableTrees[Depth]
      BY <1>0, ReadableUnfolds
    <2> QED
      BY <2>1, <2>2 DEF Serializer!Readable, Texts
  <1>3. CASE v \in D
    <2>1. StrictOf(heap)[{}][v] /\ Serializer!Dumped(heap, v) = DumpOf(heap)[Depth][v]
      BY <1>3, StrictIsStrictOf, DumpedIsDumpOf
    <2>2. {} \in SUBSET D /\ D \ {} = D
      OBVIOUS
    <2>3. Cardinality(D \ {}) <= Depth
      BY <1>1, <2>2
    <2>4. DumpOf(heap)[Depth][v] \in Serializer!ReadableTrees[Depth]
      BY <1>0, <1>3, <2>1, <2>2, <2>3, StrictDumps, Zenon
    <2> QED
      BY <2>1, <2>4 DEF Serializer!Readable
  <1> QED
    BY <1>2, <1>3

\* What is written of a container names its type, and a list has its leaves.
LEMMA DumpedContainer ==
    ASSUME NEW heap, Serializer!IsHeap(heap), NEW v \in DOMAIN heap
    PROVE  /\ Serializer!Dumped(heap, v).type = heap[v].type
           /\ heap[v].type = "list" =>
                 /\ DOMAIN Serializer!Dumped(heap, v).items = DOMAIN heap[v].items
                 /\ \A i \in DOMAIN heap[v].items : heap[v].items[i].value \notin DOMAIN heap =>
                       Serializer!Dumped(heap, v).items[i].value
                           = Serializer!Leaf(heap[v].items[i].value)
  <1> DEFINE D == DOMAIN heap
             dump == DumpOf(heap)
             w == WrittenItems(heap, dump[Depth - 1], v)
  <1>1. Depth \in Nat /\ Depth # 0
    <2>1. IsFiniteSet(D) /\ Cardinality(D) <= Depth
      BY DEF Serializer!IsHeap, Serializer!IsFiniteSet, IsFiniteSet, Serializer!Cardinality, Cardinality
    <2>2. Cardinality(D) \in Nat /\ Cardinality(D) # 0
      BY <2>1, FS_CardinalityType, FS_EmptySet
    <2>3. Depth \in Nat
      BY DepthIsNatural DEF DepthIsNatural
    <2> DEFINE x == Cardinality(D)
    <2> HIDE DEF x
    <2> QED
      BY <2>1, <2>2, <2>3 DEF x
  <1>2. Serializer!Dumped(heap, v) = dump[Depth][v]
    BY DumpedIsDumpOf
  <1>3. dump[Depth] = DumpOver(heap, dump[Depth - 1])
    BY <1>1, DumpUnfolds
  <1> HIDE DEF dump
  <1>4. dump[Depth][v] = [type |-> heap[v].type,
                          items |-> IF heap[v].type = "dict" THEN Serializer!ByKey(w) ELSE w]
    BY <1>3 DEF DumpOver
  <1>5. DOMAIN w = DOMAIN heap[v].items
    BY DEF WrittenItems
  <1>6. \A i \in DOMAIN heap[v].items : heap[v].items[i].value \notin D =>
           w[i].value = Serializer!Leaf(heap[v].items[i].value)
    BY DEF WrittenItems
  <1> HIDE DEF w
  <1> QED
    BY <1>2, <1>4, <1>5, <1>6

\* A value of a record that can be encoded is written as a cell that is decoded
\* to what the value means (_encode_json, _decode_json and their like).
LEMMA CellReadsBack ==
    ASSUME NEW heap, Serializer!IsHeap(heap), NEW kind, NEW v,
           Serializer!OfKind(heap, kind, v), Serializer!Encodable(heap, kind, v)
    PROVE  /\ Serializer!Decodable(kind, Serializer!EncodedCell(heap, kind, v))
           /\ Serializer!DecodedCell(kind, Serializer!EncodedCell(heap, kind, v))
                  = Serializer!Meaning(heap, kind, v)
           /\ kind = "plain" => Serializer!EncodedCell(heap, kind, v).type # "null"
  <1> DEFINE D == DOMAIN heap
             cell == Serializer!EncodedCell(heap, kind, v)
             text == Serializer!Dumped(heap, v)
             Leaf(type) == Serializer!Leaf(type)
  <1>1. CASE kind \notin {"mapping", "embedding"}
    <2>1. cell = IF v = "none" THEN Leaf("null") ELSE Leaf(v)
      BY <1>1 DEF Serializer!EncodedCell
    <2>2. Serializer!Meaning(heap, kind, v) = Leaf(v)
      BY <1>1 DEF Serializer!Meaning
    <2>3. \/ kind = "plain" /\ v = "text"
          \/ kind = "count" /\ v \in {"zero", "int"}
          \/ kind = "uuid" /\ v = "uuid"
          \/ kind = "type" /\ v = "lesson"
          \/ kind = "timestamp" /\ v = "aware"
          \/ kind = "expiry" /\ v \in {"none", "aware"}
      BY <1>1 DEF Serializer!OfKind, Serializer!Encodable
    <2> QED
      BY <2>1, <2>2, <2>3 DEF Serializer!Decodable, Serializer!DecodedCell, Serializer!Leaf
  <1>2. CASE kind \in {"mapping", "embedding"}
    <2>1. Serializer!Strict(heap, v)
      BY <1>2 DEF Serializer!Encodable
    <2>2. Serializer!Readable(text)
      BY <2>1, DumpedIsReadable
    <2>3. "none" \notin D /\ "float" \notin D /\ "nan" \notin D
      BY DEF Serializer!IsHeap, Serializer!StrictLeaves
    <2>4. Serializer!Meaning(heap, kind, v) = text
      BY <1>2 DEF Serializer!Meaning
    <2>5. CASE v = "none"
      <3>1. text = Leaf("none")
        BY <2>3, <2>5, DumpedIsDumpOf
      <3>2. CASE kind = "mapping"
        <4>1. cell = text
          BY <3>2 DEF Serializer!EncodedCell
        <4> QED
          BY <2>2, <2>4, <3>1, <3>2, <4>1
          DEF Serializer!Decodable, Serializer!DecodedCell, Serializer!Leaf
      <3>3. CASE kind = "embedding"
        <4>1. cell = Leaf("null")
          BY <2>5, <3>3 DEF Serializer!EncodedCell
        <4> QED
          BY <2>4, <3>1, <3>3, <4>1
          DEF Serializer!Decodable, Serializer!DecodedCell, Serializer!Leaf
      <3> QED
        BY <1>2, <3>2, <3>3
    <2>6. CASE v # "none"
      <3>1. cell = text
        BY <1>2, <2>6 DEF Serializer!EncodedCell
      <3>2. v \in D
        BY <1>2, <2>6 DEF Serializer!OfKind
      <3>3. text.type = heap[v].type
        BY <3>2, DumpedContainer
      <3>4. CASE kind = "mapping"
        <4>1. heap[v].type = "dict"
          BY <2>6, <3>4 DEF Serializer!OfKind
        <4> HIDE DEF text
        <4> QED
          BY <2>2, <2>4, <3>1, <3>3, <3>4, <4>1 DEF Serializer!Decodable, Serializer!DecodedCell
      <3>5. CASE kind = "embedding"
        <4>1. /\ heap[v].type = "list"
              /\ \A i \in DOMAIN heap[v].items : heap[v].items[i].value \in {"float", "nan"}
          BY <2>6, <3>5 DEF Serializer!OfKind
        <4>2. \A i \in DOMAIN heap[v].items : heap[v].items[i].value = "float"
          <5>1. IsFiniteSet(D) /\ {} \in SUBSET D /\ StrictOf(heap)[{}][v]
            BY <2>1, <3>2, StrictIsStrictOf DEF Serializer!IsHeap, Serializer!IsFiniteSet, IsFiniteSet
          <5>2. \A i \in DOMAIN heap[v].items : heap[v].items[i].value \notin D =>
                   heap[v].items[i].value \in Serializer!StrictLeaves
            BY <3>2, <5>1, StrictHolds
          <5> HIDE DEF D
          <5> QED
            BY <2>3, <4>1, <5>2 DEF Serializer!StrictLeaves
        <4>3. /\ DOMAIN text.items = DOMAIN heap[v].items
              /\ \A i \in DOMAIN heap[v].items :
                    heap[v].items[i].value \notin D =>
                        text.items[i].value = Leaf(heap[v].items[i].value)
          BY <3>2, <4>1, DumpedContainer
        <4> HIDE DEF text, D
        <4>4. Serializer!FloatVector(text)
          <5>1. text.type = "list"
            BY <3>3, <4>1
          <5>2. ASSUME NEW i \in DOMAIN text.items
                PROVE  text.items[i].value.type = "float"
            <6>1. i \in DOMAIN heap[v].items /\ heap[v].items[i].value = "float"
              BY <4>2, <4>3
            <6>2. text.items[i].value = Leaf("float")
              BY <2>3, <4>3, <6>1
            <6> QED
              BY <6>2 DEF Serializer!Leaf
          <5> QED
            BY <5>1, <5>2, Zenon DEF Serializer!FloatVector
        <4> QED
          BY <2>2, <2>4, <3>1, <3>3, <3>5, <4>1, <4>4
          DEF Serializer!Decodable, Serializer!DecodedCell
      <3> QED
        BY <1>2, <3>4, <3>5
    <2> QED
      BY <2>5, <2>6
  <1> QED
    BY <1>1, <1>2

\* The field that is blamed is one of those that cannot be encoded.
LEMMA FirstFieldIsBad ==
    ASSUME NEW table \in DOMAIN Serializer!Columns,
           NEW bad \in SUBSET Serializer!Fields(table), bad # {}
    PROVE  Serializer!FirstField(table, bad) \in bad /\ "none" \notin bad
  <1> DEFINE s == Serializer!Columns[table]
             I == DOMAIN s
             name(i) == s[i][1]
             T == {i \in I : name(i) \in bad}
             F(i) == name(i) \in bad /\ \A j \in 1 .. i - 1 : name(j) \notin bad
  <1>1. I \in SUBSET Nat /\ (\A i \in I : i >= 1 /\ 1 .. i - 1 \in SUBSET I)
    <2>1. table \in {"experiences", "lessons", "memories"}
      BY DEF Serializer!Columns
    <2>2. I \in {1 .. 4, 1 .. 9}
      <3>1. CASE table = "experiences"
        BY <3>1 DEF Serializer!Columns
      <3>2. CASE table = "lessons"
        BY <3>2 DEF Serializer!Columns
      <3>3. CASE table = "memories"
        BY <3>3 DEF Serializer!Columns
      <3> QED
        BY <2>1, <3>1, <3>2, <3>3
    <2> HIDE DEF I
    <2> QED
      BY <2>2
  <1>2. \A i \in I : name(i) # "none"
    <2>1. CASE table = "experiences"
      BY <2>1 DEF Serializer!Columns
    <2>2. CASE table = "lessons"
      BY <2>2 DEF Serializer!Columns
    <2>3. CASE table = "memories"
      BY <2>3 DEF Serializer!Columns
    <2>4. table \in {"experiences", "lessons", "memories"}
      BY DEF Serializer!Columns
    <2> QED
      BY <2>1, <2>2, <2>3, <2>4
  <1>3. Serializer!Fields(table) = {name(i) : i \in I}
    BY DEF Serializer!Fields
  <1>4. Serializer!FirstField(table, bad) = name(CHOOSE i \in I : F(i))
    BY Zenon DEF Serializer!FirstField
  <1> HIDE DEF s, I, name
  <1>5. T \in SUBSET Nat /\ T # {}
    BY <1>1, <1>3
  <1>6. PICK m \in T : \A k \in T : m <= k
    <2> HIDE DEF T
    <2> QED
      BY <1>5, LeastNumber
  <1>7. m \in I /\ F(m)
    <2>1. \A j \in 1 .. m - 1 : j \in I /\ ~ (m <= j)
      BY <1>1
    <2> QED
      BY <1>6, <2>1
  <1>8. F(CHOOSE i \in I : F(i))
    <2> HIDE DEF F
    <2> QED
      BY <1>7, Zenon
  <1>9. "none" \notin bad
    BY <1>2, <1>3
  <1> QED
    BY <1>4, <1>8, <1>9

\* A record is read back as it was, or its write is refused with a field that
\* is to blame (encode_memory, decode_memory and their like).
LEMMA RecordIsReadBack ==
    ASSUME NEW heap, Serializer!IsHeap(heap), NEW table, NEW record,
           Serializer!IsRecord(heap, table, record)
    PROVE  Serializer!WritesReadBack(heap, table, record)
  <1> DEFINE Fs == Serializer!Fields(table)
             kind(f) == Serializer!Kind(table, f)
             bad == {f \in Fs : ~ Serializer!Encodable(heap, kind(f), record[f])}
             cell(f) == Serializer!EncodedCell(heap, kind(f), record[f])
             row == IF bad # {} THEN <<>> ELSE [f \in Fs |-> cell(f)]
             unread == {f \in Fs : ~ Serializer!Decodable(kind(f), row[f])}
             invalid == \E f \in Fs : kind(f) = "plain" /\ row[f].type = "null"
             written == Serializer!Encode(heap, table, record)
             read == Serializer!Decode(table, written.row)
  <1>1. written = [error |-> Serializer!FirstField(table, bad), row |-> row]
    BY DEF Serializer!Encode
  <1>2. written.error = Serializer!FirstField(table, bad) /\ written.row = row
    <2> DEFINE e == Serializer!FirstField(table, bad)
    <2> HIDE DEF e, row, written
    <2> QED
      BY <1>1 DEF e
  <1>3. read = [error |-> IF unread # {} THEN Serializer!FirstField(table, unread)
                          ELSE IF invalid THEN "record" ELSE "none",
                record |-> IF unread # {} \/ invalid THEN <<>>
                           ELSE [f \in Fs |-> Serializer!DecodedCell(kind(f), row[f])]]
    <2> HIDE DEF row, written
    <2> QED
      BY <1>2 DEF Serializer!Decode
  <1>4. table \in DOMAIN Serializer!Columns
        /\ \A f \in Fs : Serializer!OfKind(heap, kind(f), record[f])
    BY DEF Serializer!IsRecord
  <1>5. CASE bad # {}
    <2> DEFINE e == written.error
    <2>1. e \in bad /\ e # "none"
      <3>1. bad \in SUBSET Fs
        OBVIOUS
      <3> HIDE DEF bad, written, Fs
      <3> QED
        BY <1>2, <1>4, <1>5, <3>1, FirstFieldIsBad DEF Fs
    <2>2. ~ Serializer!Encodable(heap, kind(e), record[e])
      <3> HIDE DEF written
      <3> QED
        BY <2>1
    <2>3. record[e] = "naive" \/ ~ Serializer!Strict(heap, record[e])
      <3> DEFINE x == record[e]
      <3> HIDE DEF x, written, kind
      <3> QED
        BY <2>2 DEF Serializer!Encodable, x
    <2>4. IsFiniteSet(DOMAIN heap)
      BY DEF Serializer!IsHeap, Serializer!IsFiniteSet, IsFiniteSet
    <2>5. record[e] = "naive" \/ ~ Serializer!IsJson(heap, record[e])
      BY <2>3, <2>4, JsonIsStrict
    <2> HIDE DEF read
    <2> QED
      BY <2>1, <2>5, Zenon DEF Serializer!WritesReadBack
  <1>6. CASE bad = {}
    <2>1. written.error = "none"
      BY <1>2, <1>6 DEF Serializer!FirstField
    <2>2. row = [f \in Fs |-> cell(f)]
      BY <1>6
    <2>3. \A f \in Fs : Serializer!Encodable(heap, kind(f), record[f])
      BY <1>6
    <2> HIDE DEF row, written, cell, kind, Fs
    <2>4. \A f \in Fs : /\ Serializer!Decodable(kind(f), cell(f))
                        /\ Serializer!DecodedCell(kind(f), cell(f))
                               = Serializer!Meaning(heap, kind(f), record[f])
                        /\ kind(f) = "plain" => cell(f).type # "null"
      BY <1>4, <2>3, CellReadsBack DEF cell
    <2>5. \A f \in Fs : row[f] = cell(f)
      BY <2>2
    <2>6. unread = {} /\ ~ invalid
      BY <2>4, <2>5
    <2> HIDE DEF unread, invalid
    <2>7. read.error = "none"
          /\ read.record = [f \in Fs |-> Serializer!DecodedCell(kind(f), row[f])]
      <3> DEFINE r == [f \in Fs |-> Serializer!DecodedCell(kind(f), row[f])]
      <3>1. read = [error |-> "none", record |-> r]
        BY <1>3, <2>6
      <3> HIDE DEF r, read
      <3> QED
        BY <3>1 DEF r
    <2> HIDE DEF read
    <2>8. \A f \in Fs : read.record[f] = Serializer!Meaning(heap, kind(f), record[f])
      BY <2>4, <2>5, <2>7
    <2> QED
      BY <2>1, <2>7, <2>8, Zenon DEF Serializer!WritesReadBack, read, written, kind, Fs
  <1> QED
    BY <1>5, <1>6

\* A record is read back as it was written, or its write is refused with a field
\* that is to blame; and the encoder takes just the values that are JSON, however
\* containers are shared or nested (StorageSerializer, _validate_json_value).
THEOREM RecordsReadBackAlways == Spec => []RecordsReadBack
  <1>1. ASSUME NEW x \in JsonValues
        PROVE  Serializer!ValidatesJson(x.heap, x.value)
    <2>1. IsFiniteSet(DOMAIN x.heap)
      BY JsonValuesOfHeaps DEF JsonValuesOfHeaps, Serializer!IsHeap, Serializer!IsFiniteSet, IsFiniteSet
    <2> QED
      BY <2>1, ValidationIsExact
  <1>2. ASSUME NEW x \in Records
        PROVE  Serializer!WritesReadBack(x.heap, x.table, x.record)
    BY RecordsOfModels, RecordIsReadBack DEF RecordsOfModels
  <1>3. InUse => RecordsReadBack
    BY <1>1, <1>2 DEF RecordsReadBack, InUse
  <1> QED
    BY <1>3, UsedAlways, PTL
=============================================================================
