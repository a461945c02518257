---------------------------- MODULE PromptContext ----------------------------
(***************************************************************************)
(* ContextBuilder (experia/context/builder.py): ranked memories become one *)
(* prompt text within a budget.                                            *)
(*                                                                         *)
(* A text is a sequence of atoms.  The atoms of a memory are what matters  *)
(* of its JSON: plain characters, an angle bracket or a marker made of     *)
(* them, a line separator, or a value that JSON cannot hold.  The size of  *)
(* a text in tokens is what the application's counter says, who may count  *)
(* as it likes, raise, or return something that is no size.                *)
(***************************************************************************)
EXTENDS Integers, Sequences, SequencesExt, FiniteSets, Selections

Instruction == <<"instruction">>
Newline == <<"newline">>
START_MARKER == <<"start">>
END_MARKER == <<"end">>
Unsafe == {"angle", "start", "end", "newline"}
Unserializable == "nan"
Atoms == Unsafe \cup {"x", Unserializable}

NoBudget == [unit |-> "none", amount |-> 0, counter |-> "none"]
\* What a token counter answers; -1 stands for an exception and for anything
\* that is no non-negative integer.
Count(counter, text) ==
    IF counter = "length" THEN Len(text)
    ELSE IF counter = "data" THEN Cardinality({i \in DOMAIN text : text[i] = "x"})
    ELSE IF counter = "merging" THEN IF Len(text) % 3 = 0 THEN 1 ELSE Len(text)
    ELSE IF counter = "fails on end" /\ Len(text) > 9 THEN -1 ELSE 1

\* PromptBudget, validate_configuration
ConfigurationErrors(budget) ==
    IF budget.unit = "none" THEN {}
    ELSE {p \in {"amount", "unit", "token_counter"} :
            \/ p = "amount" /\ budget.amount < 0
            \/ p = "unit" /\ budget.unit \notin {"characters", "tokens"}
            \/ p = "token_counter" /\ budget.unit = "tokens" /\ budget.counter = "none"}

\* _measure
Measure(budget, text) ==
    IF budget.unit = "tokens" THEN Count(budget.counter, text) ELSE Len(text)

\* Mutant: the characters of a marker are not escaped.
EscapedNewlines(atom) == IF atom = "newline" THEN <<"\\", "x">> ELSE <<atom>>

\* json.dumps and translate: what could end a line or open a marker is
\* written with a backslash.
Escaped(atom) == IF atom \in Unsafe THEN <<"\\", "x">> ELSE <<atom>>
Serialized(memory) == FlattenSeq([i \in DOMAIN memory |-> Escaped(memory[i])])

\* _serialize_block, _assemble
Block(memory) == START_MARKER \o Newline \o Serialized(memory) \o Newline \o END_MARKER
Assembled(blocks) ==
    Instruction \o FlattenSeq([i \in DOMAIN blocks |-> Newline \o Block(blocks[i])])

Fits(budget, size) == 0 <= size /\ size <= budget.amount

\* Mutant: a block is measured by itself.
SelectAlone(budget, selected, memory) ==
    IF Fits(budget, Measure(budget, Assembled(<<memory>>)))
    THEN Append(selected, memory) ELSE selected

\* One turn of the loop of format_for_prompt: a block that does not fit is
\* passed over, a smaller one after it may still be taken.
Select(budget, selected, memory) ==
    IF Fits(budget, Measure(budget, Assembled(Append(selected, memory))))
    THEN Append(selected, memory) ELSE selected
Selected(budget, memories) ==
    LET selected[i \in 0 .. Len(memories)] ==
            IF i = 0 THEN <<>> ELSE Select(budget, selected[i - 1], memories[i])
    IN selected[Len(memories)]
\* A measurement of the loop that raised.
MeasurementFails(budget, memories) ==
    \E i \in DOMAIN memories :
        Measure(budget, Assembled(Append(Selected(budget, SubSeq(memories, 1, i - 1)),
                                         memories[i]))) < 0

\* format_for_prompt
Raised(what) == [error |-> what, text |-> <<>>]
Formatted(text) == [error |-> "none", text |-> text]
FormatForPrompt(budget, memories) ==
    IF ConfigurationErrors(budget) # {} THEN Raised("configuration")
    ELSE IF memories = <<>> \/ (budget.unit # "none" /\ budget.amount = 0)
    THEN Formatted(<<>>)
    ELSE IF \E i \in DOMAIN memories : Unserializable \in Range(memories[i])
    THEN Raised("memory")
    ELSE IF budget.unit = "none" THEN Formatted(Assembled(memories))
    ELSE IF MeasurementFails(budget, memories) THEN Raised("token_counter")
    ELSE LET selected == Selected(budget, memories)
         IN Formatted(IF selected = <<>> THEN <<>> ELSE Assembled(selected))
-----------------------------------------------------------------------------
\* "Transform ordered memories into bounded, explicitly untrusted blocks": the
\* text fits the budget as its counter counts, it is made of whole blocks of
\* some of the memories in their order, and those are the ones a reader who
\* goes down the list and takes what still fits would take.
Greedy(budget, memories, S) ==
    \A i \in DOMAIN memories :
        i \in S <=> Fits(budget, Measure(budget, Assembled(
                        InOrder(memories, {j \in S : j < i} \cup {i}))))
PromptIsBounded(budget, memories) ==
    LET result == FormatForPrompt(budget, memories) IN
    result.error = "none" /\ result.text # <<>> =>
        \E S \in SUBSET DOMAIN memories :
            /\ result.text = Assembled(InOrder(memories, S))
            /\ budget.unit # "none" => /\ Fits(budget, Measure(budget, result.text))
                                       /\ Greedy(budget, memories, S)

\* "marker-like values can never become a builder-owned marker on an
\* independent line": whatever the memories hold, the lines of the text are
\* the instruction and, again and again, a start marker, data, an end marker.
LineStarts(text) == {1} \cup {i + 1 : i \in {j \in DOMAIN text : text[j] = "newline"}}
LineNumber(text, i) == 1 + Cardinality({j \in 1 .. i - 1 : text[j] = "newline"})
OnlyOwnMarkers(budget, memories) ==
    LET text == FormatForPrompt(budget, memories).text
    IN text # <<>> =>
        /\ "angle" \notin Range(text)
        /\ \A i \in LineStarts(text) :
            LET line == LineNumber(text, i)
                first == IF i \in DOMAIN text THEN text[i] ELSE "newline"
            IN /\ first = "instruction" <=> line = 1
               /\ first = "start" <=> line % 3 = 2
               /\ first = "end" <=> line % 3 = 1 /\ line > 1
=============================================================================
