----------------------------- MODULE MCLearner -----------------------------
(* Two callers or a caller and a callback, on learners made with various    *)
(* arguments; who calls flush() does not shut the learner down.              *)
EXTENDS Learner, TLC

Config(background, embedder, fallback, rules) ==
    [background |-> background, embedder |-> embedder,
     fallback |-> fallback, rules |-> rules]
With(args, users, contents, flushes, policies) ==
    args @@ [users |-> users, contents |-> contents, flushes |-> flushes,
             policies |-> policies]

\* Everything given, evaluation in the background; and without rules.
Full == Config(TRUE, TRUE, TRUE, TRUE)
Lean == Config(TRUE, TRUE, FALSE, FALSE)
\* Nothing given but the evaluator, evaluation in the foreground.
Bare == Config(FALSE, FALSE, FALSE, FALSE)
\* Evaluation in the foreground that waits for an embedding.
Waiting == Config(FALSE, TRUE, FALSE, FALSE)

Flushing == {With(args, Callers, Contents, TRUE, {}) : args \in {Full, Bare}}
               \cup {With(Waiting, Callers, {"x"}, TRUE, {})}
OneCaller == {CHOOSE c \in Callers : TRUE}
Closing == {With(args, OneCaller \cup Callbacks, {"x"}, FALSE, Policies) :
                args \in {Lean, Bare}}
\* The foreground caller that waits for an embedding is alone: with a
\* callback beside it this one scenario would be half of the run.
ClosingAlone == {With(Waiting, OneCaller, {"x"}, FALSE, Policies)}
Various == Flushing \cup Closing \cup ClosingAlone
JustBare == {With(Bare, Callers, Contents, FALSE, Policies)}
=============================================================================
