----------------------------- MODULE LossPolicy -----------------------------
(***************************************************************************)
(* Which losses of a translation a product accepts.  A path is a sequence  *)
(* of segments, as strings.Split leaves it; the path of a rule may also    *)
(* hold the wildcards "*" and "**", and the empty one matches every loss.  *)
(***************************************************************************)
EXTENDS Integers, Subsequences, SequencesExt

Classes == {"unsupported", "dropped", "approximated", "renamed"}
Severities == {"material", "advisory", "unknown"}
LossRule == [path : Seq(STRING), class : STRING, severity : STRING, action : STRING]
Losses == [path : Seq(STRING), class : STRING, severity : Severities]

\* Mutant: "**" stands for at least one segment.
SkipsOne(segment, i, j, last) == IF segment = "**" THEN (j + 1)..last ELSE {}

\* matchLossPath's "**": it may stand for any number of the segments left.
Skips(segment, i, j, last) == IF segment = "**" THEN j..last ELSE {}

\* matchLossPath: match[i] is where the path may go on, for the pattern from its
\* (i+1)th segment to match what is left of it.
MatchLossPath(pattern, path) ==
    LET match[i \in 0..Len(pattern)] ==
            IF i = Len(pattern) THEN {Len(path)}
            ELSE {j \in 0..Len(path) :
                    IF pattern[i + 1] = "**"
                    THEN Skips(pattern[i + 1], i, j, Len(path)) \cap match[i + 1] # {}
                    ELSE /\ j < Len(path)
                         /\ pattern[i + 1] \in {"*", path[j + 1]}
                         /\ j + 1 \in match[i + 1]}
    IN 0 \in match[0]

\* LossRule.matches.
RuleMatches(rule, loss) ==
    /\ rule.class \in {"", loss.class}
    /\ rule.severity \in {"", loss.severity}
    /\ rule.path = <<>> \/ MatchLossPath(rule.path, loss.path)

\* LossPolicy.Validate.
ValidPolicy(rules) ==
    \A i \in DOMAIN rules :
        /\ rules[i].action \in {"allow", "reject"}
        /\ "" \notin ToSet(rules[i].path)
        /\ rules[i].class \in Classes \cup {""}
        /\ rules[i].severity \in {"", "material", "advisory"}

\* LossPolicy.Decide: the first rule that matches, else only what is advisory.
Decide(rules, loss) ==
    LET matching == Only(rules, {i \in DOMAIN rules : RuleMatches(rules[i], loss)})
    IN IF matching # <<>> THEN Head(matching).action
       ELSE IF loss.severity = "advisory" THEN "allow" ELSE "reject"

\* LossPolicy.Rejected, which Check reports when there are any.
Rejected(rules, losses) ==
    Only(losses, {i \in DOMAIN losses : Decide(rules, losses[i]) = "reject"})
=============================================================================
