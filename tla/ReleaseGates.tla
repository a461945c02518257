---------------------------- MODULE ReleaseGates ----------------------------
(***************************************************************************)
(* What may change from one release to the next: the comparison of two     *)
(* snapshots of the public API (scripts/api_compatibility.py) and the gate *)
(* over the migration guide (scripts/changelog_gate.py).                   *)
(*                                                                         *)
(* A snapshot has a version and its nodes by path: exports, and their      *)
(* members and enum values with their parent.  A node has its shape (kind, *)
(* async and returned type), a signature, the value of an enum value and   *)
(* its deprecation.  An annotation is the set of the alternatives of a     *)
(* union, Anything for none.                                               *)
(***************************************************************************)
EXTENDS Naturals, Sequences, Functions, FiniteSets, Selections

MINOR_DEPRECATION_RELEASES == 2
None == "none"
Anything == {"anything"}

\* ReleaseVersion, ordered by major, minor, patch.
Version(major, minor) == [major |-> major, minor |-> minor]
Precedes(v, w) == v.major < w.major \/ (v.major = w.major /\ v.minor < w.minor)

\* Mutant: a window of one release less.
WindowShorter(since, through) ==
    /\ ~Precedes(through, since)
    /\ through.major > since.major \/ through.minor - since.minor >= 1

\* deprecation_window_elapsed
WindowElapsed(since, through) ==
    /\ ~Precedes(through, since)
    /\ \/ through.major > since.major
       \/ through.minor - since.minor >= MINOR_DEPRECATION_RELEASES
-----------------------------------------------------------------------------
\* A signature is a sequence of parameters with name, kind, required, default
\* and annotation.  Python lets them stand in the order of their kinds only, so
\* that the parameters a call may fill by position come first; what *args and
\* **kwargs collect is never required.
Positional == {"positional_only", "positional_or_keyword"}
Nameable == {"positional_or_keyword", "keyword_only"}
Kinds == Positional \cup Nameable \cup {"var_positional", "var_keyword"}
IsSignature(signature) ==
    /\ signature \in Seq([name : STRING, kind : Kinds, required : BOOLEAN,
                          default : STRING, annotation : SUBSET STRING])
    /\ \A i \in DOMAIN signature :
          signature[i].required => signature[i].kind \in Positional \cup Nameable
    /\ \A i, j \in DOMAIN signature : i < j =>
          /\ signature[i].name # signature[j].name
          /\ signature[j].kind \in Positional => signature[i].kind \in Positional
Modes(kind) == IF kind = "positional_or_keyword" THEN {"positional", "keyword"}
               ELSE IF kind = "positional_only" THEN {"positional"}
               ELSE IF kind = "keyword_only" THEN {"keyword"} ELSE {kind}
Named(signature) == {signature[i].name : i \in DOMAIN signature}
Index(signature, name) == CHOOSE i \in DOMAIN signature : signature[i].name = name
HasKind(signature, kinds) == \E i \in DOMAIN signature : signature[i].kind \in kinds

\* _input_annotation_is_widened_or_equal
Widened(old, new) == new = Anything \/ (old # Anything /\ old \subseteq new)

\* Mutant: the kinds are not compared.
ParameterIssuesOfAnyKind(p, q) ==
    {code \in {"parameter_became_required", "default_changed", "parameter_type_narrowed"} :
       \/ code = "parameter_became_required" /\ ~p.required /\ q.required
       \/ code = "default_changed" /\ ~p.required /\ p.default # q.default
       \/ code = "parameter_type_narrowed" /\ ~Widened(p.annotation, q.annotation)}

\* _compare_parameter
ParameterIssues(p, q) ==
    {code \in {"parameter_kind_narrowed", "parameter_became_required",
               "default_changed", "parameter_type_narrowed"} :
       \/ code = "parameter_kind_narrowed" /\ ~(Modes(p.kind) \subseteq Modes(q.kind))
       \/ code = "parameter_became_required" /\ ~p.required /\ q.required
       \/ code = "default_changed" /\ ~p.required /\ p.default # q.default
       \/ code = "parameter_type_narrowed" /\ ~Widened(p.annotation, q.annotation)}

\* A parameter the baseline does not have.
LastOld(old, new) ==
    LET at == {i \in DOMAIN new : \E j \in DOMAIN old :
                  old[j].name = new[i].name /\ old[j].kind \in Positional}
    IN CHOOSE i \in at \cup {0} : \A j \in at : j <= i
\* Mutant: only the order of the old parameters is looked at.
AddedOptional(old, new, i) ==
    IF new[i].required THEN {"required_parameter_added"} ELSE {}
AddedIssues(old, new, i) ==
    {code \in {"required_parameter_added", "positional_parameter_inserted"} :
       \/ code = "required_parameter_added" /\ new[i].required
       \/ /\ code = "positional_parameter_inserted" /\ new[i].kind \in Positional
          /\ i < LastOld(old, new) \/ HasKind(old, {"var_positional"})}

\* _compare_signature
OldPositional(signature, old) ==
    LET names == {old[i].name : i \in {j \in DOMAIN old : old[j].kind \in Positional}}
    IN InOrder([i \in DOMAIN signature |-> signature[i].name],
               {i \in DOMAIN signature : signature[i].name \in names})
SignatureIssues(old, new) ==
    (UNION {IF new[i].name \in Named(old)
            THEN ParameterIssues(old[Index(old, new[i].name)], new[i])
            ELSE AddedIssues(old, new, i) : i \in DOMAIN new})
    \cup {"parameter_removed" : n \in Named(old) \ Named(new)}
    \cup {"positional_order_changed" : n \in
            {1} \cap {IF OldPositional(new, old) = OldPositional(old, old) THEN 0 ELSE 1}}

\* What Python does with a call of n positional and some keyword arguments:
\* the parameter each argument goes to, and whether it is accepted at all.  The
\* i-th positional argument goes to the i-th parameter, if that is positional.
Placed(signature, n) ==
    {i \in DOMAIN signature : signature[i].kind \in Positional /\ i <= n}
ByKeyword(signature, n) ==
    {signature[i].name : i \in {j \in DOMAIN signature \ Placed(signature, n) :
        signature[j].kind \in Nameable}}
Accepts(signature, n, keywords) ==
    LET placed == Placed(signature, n)
        filled == {signature[i].name : i \in placed}
                  \cup (keywords \cap ByKeyword(signature, n))
        others == keywords \ ByKeyword(signature, n)
        \* a keyword that names a place already filled by position
        twice == \E i \in placed : /\ signature[i].name \in keywords
                                   /\ signature[i].kind = "positional_or_keyword"
    IN /\ 1 .. n # placed => HasKind(signature, {"var_positional"})
       /\ others # {} => HasKind(signature, {"var_keyword"})
       /\ ~twice
       /\ \A i \in DOMAIN signature : signature[i].required => signature[i].name \in filled
-----------------------------------------------------------------------------
\* The values of an enum are nodes of a shape of their own; they cannot be
\* deprecated, and some checks know exports and members only.
EnumValue == "value"

\* _compare_api_node; a missing signature is None on both sides or an issue.
NodeIssues(old, new) ==
    {code \in {"kind_changed", "signature_changed", "enum_value_changed"} :
       \/ code = "kind_changed" /\ old.shape # new.shape
       \/ code = "signature_changed" /\ (old.callable # new.callable)
       \/ code = "enum_value_changed" /\ old.value # new.value}
    \cup (IF old.callable /\ new.callable
          THEN SignatureIssues(old.signature, new.signature) ELSE {})
Paths(snapshot) == DOMAIN snapshot.nodes
\* _exports_by_path, _members_by_name
Listed(snapshot) == {p \in Paths(snapshot) : snapshot.nodes[p].shape # EnumValue}
Entries == [path : STRING, replacement : STRING]
Versions == [major : Nat, minor : Nat]
IsSnapshot(snapshot) ==
    /\ snapshot.version \in Versions
    /\ \A p \in Paths(snapshot) :
          /\ snapshot.nodes[p].parent \in Paths(snapshot) \cup {None}
          /\ snapshot.nodes[p].deprecation.since \in Versions
          /\ snapshot.nodes[p].shape = EnumValue =>
                /\ snapshot.nodes[p].parent # None
                /\ ~snapshot.nodes[p].deprecation.deprecated

\* _compare_same_major
SameMajorIssues(old, new) ==
    {<<"removed", p>> : p \in Paths(old) \ Paths(new)}
    \cup UNION {NodeIssues(old.nodes[p], new.nodes[p]) \X {p} : p \in Paths(old) \cap Paths(new)}

\* _validate_deprecations
DeprecationIssues(snapshot) ==
    {<<"deprecation", p>> : p \in {q \in Listed(snapshot) :
        LET d == snapshot.nodes[q].deprecation IN
        d.deprecated /\ (\/ d.replacement = None
                         \/ d.message # d.replacement
                         \/ Precedes(snapshot.version, d.since))}}

\* _check_early_major_removals: members of a removed export are not looked at.
EarlyRemovals(old, new) ==
    {<<"deprecation_window_incomplete", p>> : p \in {q \in Listed(old) \ Listed(new) :
        LET node == old.nodes[q] IN
        /\ node.parent \in Paths(new) \cup {None}
        /\ node.deprecation.deprecated
        /\ ~WindowElapsed(node.deprecation.since, old.version)}}

\* compare_snapshots
SnapshotIssues(old, new) ==
    DeprecationIssues(new)
    \cup (IF Precedes(new.version, old.version)
          THEN {<<"version_regressed", None>>} ELSE {})
    \cup (IF old.version.major = new.version.major THEN SameMajorIssues(old, new)
          ELSE IF old.version.major < new.version.major THEN EarlyRemovals(old, new)
          ELSE {})
-----------------------------------------------------------------------------
\* find_removed_api_paths
Removed(old, new) ==
    {p \in Listed(old) \ Listed(new) : old.nodes[p].parent \in Paths(new) \cup {None}}
\* _recorded_replacements
Recorded(old, p) == IF old.nodes[p].deprecation.deprecated
                    THEN old.nodes[p].deprecation.replacement ELSE None
\* record_by_path: the last record of a path.
Guided(guide, p) ==
    LET at == {i \in DOMAIN guide : guide[i].path = p}
    IN IF at = {} THEN None
       ELSE guide[CHOOSE i \in at : \A j \in at : j <= i].replacement

\* find_breaking_changes: all issues but those of deprecations.
Breaking(old, new) == {issue \in SnapshotIssues(old, new) :
                          issue[1] \notin {"deprecation", "deprecation_window_incomplete"}}
\* validate_breaking_change_migration_guide
GuideAccepts(old, new, guide) ==
    IF new.version.major <= old.version.major THEN Breaking(old, new) = {}
    ELSE /\ IsInjective(guide)
         /\ \A p \in Removed(old, new) :
              /\ Guided(guide, p) # None
              /\ Recorded(old, p) \in {None, Guided(guide, p)}
-----------------------------------------------------------------------------
\* What a call of the baseline is owed: it is accepted, each positional argument
\* goes to the parameter it went to or to *args as before, and so does each
\* keyword to a parameter or to **kwargs.
CallKept(old, new, n, keywords) ==
    Accepts(old, n, keywords) =>
        /\ Accepts(new, n, keywords)
        /\ Placed(new, n) = Placed(old, n)
        /\ \A i \in Placed(old, n) : new[i].name = old[i].name
        /\ keywords \cap ByKeyword(new, n) = keywords \cap ByKeyword(old, n)

\* Two changes no check looks at.  A keyword-only parameter becomes positional
\* in front of others, or takes what went to *args; and, where there is **kwargs,
\* a keyword it collected is now a parameter's.
TakesPlaces(old, new) ==
    \E i \in DOMAIN new, j \in DOMAIN old :
        /\ new[i].name = old[j].name
        /\ new[i].kind \in Positional /\ old[j].kind = "keyword_only"
        /\ i < LastOld(old, new) \/ HasKind(old, {"var_positional"})
TakesKeywords(old, new) ==
    HasKind(old, {"var_keyword"}) /\ ~(ByKeyword(new, 0) \subseteq ByKeyword(old, 0))

\* api_compatibility.py: "Within one major, existing paths, callable modes,
\* enum values, and accepted signatures must remain compatible".  Where the
\* comparison has no objection this is so of all calls of the baseline, but for
\* just the two changes above, and each of those breaks a call: the exception is
\* exact.
CallsSurvive(old, new) ==
    SignatureIssues(old, new) = {} =>
        ((\A n \in 0 .. Len(old) + 1, keywords \in SUBSET (Named(old) \cup Named(new)) :
             CallKept(old, new, n, keywords))
         <=> ~TakesPlaces(old, new) /\ ~TakesKeywords(old, new))

\* API_REFERENCE.md: "Removals or narrowed signatures ship only under a greater
\* major version accompanied by a migration guide", which names the recorded
\* replacement; and a deprecated path had been kept for two minor releases.  Of
\* an enum value only the major version is asked.
Missing(old, new, p) == p \in Paths(old) \ Paths(new)
RemovalsAreAnnounced(old, new, guide) ==
    SnapshotIssues(old, new) = {} /\ GuideAccepts(old, new, guide) =>
        \A p \in Paths(old) : Missing(old, new, p) =>
            LET node == old.nodes[p]
                since == node.deprecation.since
            IN /\ old.version.major < new.version.major
               /\ \/ node.shape = EnumValue
                  \/ Missing(old, new, node.parent)
                  \/ \E i \in DOMAIN guide :
                        /\ guide[i].path = p
                        /\ node.deprecation.deprecated =>
                             /\ guide[i].replacement = node.deprecation.replacement
                             /\ \/ since.major < old.version.major
                                \/ since.minor + 2 <= old.version.minor
=============================================================================
