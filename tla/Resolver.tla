------------------------------ MODULE Resolver ------------------------------
(***************************************************************************)
(* resolve() of src/classify/ownership/resolver.rs: which session owns a   *)
(* resource that is no longer below it.  Candidates need an anchor, earn   *)
(* capped support, and are rejected by a contradiction; the best one wins  *)
(* if it reaches the threshold and is ahead of the others by the margin.   *)
(* Candidates come in, and evidence about them, one at a time.             *)
(***************************************************************************)
EXTENDS Naturals, Sequences

CONSTANTS
    Rules,          \* a record of weights: the fields of ResolverRules
    Evidence,       \* the candidates that may be offered: CandidateInput
    None,           \* no anchor, score, cap, delta or winner
    MaxCandidates   \* bound on the candidates of one resource

\* ResolverRules: u8 weights, and whatever they are set to
RuleSet ==
    [descendant_anchor : Nat, direct_parent_anchor : Nat, explicit_anchor : Nat,
     exact_cwd : Nat, same_git_root : Nat, project_cap : Nat,
     temporal_10s : Nat, temporal_60s : Nat, temporal_5m : Nat, temporal_cap : Nat,
     relationship_support : Nat, relationship_cap : Nat,
     ownership_threshold : Nat, ambiguity_margin : Nat]

\* CandidateInput, but for its numbers
IsCandidate(c) ==
    /\ c.session # None
    /\ \A n \in {c.score, c.cap, c.delta} : n = None \/ n \in Nat
    /\ {c.exact_cwd, c.same_git_root, c.tool, c.predates, c.reaches_other} \subseteq BOOLEAN

\* What the results need of v1: the margin is not zero, and being in the very
\* directory counts for as much as the git root.
ASSUME ResolverConstants ==
    /\ Rules \in RuleSet /\ MaxCandidates \in Nat
    /\ Rules.ambiguity_margin > 0
    /\ Rules.exact_cwd >= Rules.same_git_root
    /\ \A c \in Evidence : IsCandidate(c)

VARIABLES
    inputs,   \* the candidates of the resource, in the order found
    decision  \* what resolve() makes of them

resolverVars == <<inputs, decision>>

-----------------------------------------------------------------------------
Capped(n, cap) == IF n <= cap THEN n ELSE cap

\* The score an anchor has by itself; a recorded or an inherited one brings its own.
AnchorScore(c) ==
    CASE c.anchor = "Explicit" -> Rules.explicit_anchor
      [] c.anchor = "DirectChild" -> Rules.direct_parent_anchor
      [] c.anchor = "Descendant" -> Rules.descendant_anchor
      [] OTHER -> IF c.score = None THEN Rules.descendant_anchor ELSE c.score

ProjectSupport(c) ==
    Capped(IF c.exact_cwd THEN Rules.exact_cwd
           ELSE IF c.same_git_root THEN Rules.same_git_root ELSE 0, Rules.project_cap)

\* Seconds from the start of the session to that of the resource.
TemporalSupport(c) ==
    IF c.delta = None THEN 0
    ELSE Capped(IF c.delta <= 10 THEN Rules.temporal_10s
                ELSE IF c.delta <= 60 THEN Rules.temporal_60s
                ELSE IF c.delta <= 300 THEN Rules.temporal_5m ELSE 0, Rules.temporal_cap)

RelationshipSupport(c) ==
    Capped(IF c.tool THEN Rules.relationship_support ELSE 0, Rules.relationship_cap)

\* Saturating sums of u8, at most 100, and at most what it was inherited from.
Total(c) ==
    LET sum == Capped(AnchorScore(c) + ProjectSupport(c) + TemporalSupport(c)
                        + RelationshipSupport(c), 100)
    IN IF c.cap = None THEN sum ELSE Capped(sum, c.cap)

\* Mutant of Counts: a contradiction of the start times is not looked at.
CountsLate(c) == c.anchor # None /\ ~c.reaches_other

\* An anchor makes a candidate, a contradiction unmakes it.
Counts(c) == c.anchor # None /\ ~c.predates /\ ~c.reaches_other

Eligible(s) == {i \in DOMAIN s : Counts(s[i])}

\* The lead that makes a winner clear.
Ahead(a, b) == Total(a) >= Total(b) + Rules.ambiguity_margin

\* The first of the best: the head of the stable sort.
Best(s) ==
    CHOOSE i \in Eligible(s) : \A j \in Eligible(s) :
        Total(s[j]) < Total(s[i]) \/ (Total(s[j]) = Total(s[i]) /\ i <= j)

\* select: the verdict and its winner.
Resolve(s) ==
    IF Eligible(s) = {} THEN [verdict |-> "Unknown", winner |-> None]
    ELSE LET top == Best(s) IN
         IF Total(s[top]) < Rules.ownership_threshold
         THEN [verdict |-> "Unknown", winner |-> None]
         ELSE IF \A j \in Eligible(s) \ {top} : Ahead(s[top], s[j])
         THEN [verdict |-> "Owned", winner |-> s[top].session]
         ELSE [verdict |-> "Ambiguous", winner |-> None]

\* attribution_for of collect.rs: the one candidate it builds, from the owner
\* on record.  delta is None exactly when the resource predates the session.
Attribution(session, cwd, delta, tool) ==
    [session |-> session, anchor |-> "PersistedPrevious", score |-> 75, cap |-> None,
     exact_cwd |-> cwd, same_git_root |-> FALSE, delta |-> delta, tool |-> tool,
     predates |-> delta = None, reaches_other |-> FALSE]

-----------------------------------------------------------------------------
\* One more session is a candidate.
Offer(c) ==
    /\ Len(inputs) < MaxCandidates
    /\ inputs' = Append(inputs, c)
    /\ decision' = Resolve(inputs')

\* What speaks for a candidate: the same anchor, and at least its support.
Stronger(c, d) ==
    /\ c.session = d.session /\ c.anchor = d.anchor /\ c.score = d.score /\ c.cap = d.cap
    /\ c.predates = d.predates /\ c.reaches_other = d.reaches_other
    /\ d.exact_cwd => c.exact_cwd
    /\ d.same_git_root => c.same_git_root
    /\ d.tool => c.tool
    /\ c.delta = d.delta

\* More is found to speak for a candidate.
Support(i, c) ==
    /\ i \in DOMAIN inputs /\ Stronger(c, inputs[i])
    /\ inputs' = [inputs EXCEPT ![i] = c]
    /\ decision' = Resolve(inputs')

ResolverInit ==
    /\ inputs = <<>>
    /\ decision = Resolve(<<>>)

ResolverNext ==
    \E c \in Evidence : Offer(c) \/ \E i \in 1 .. MaxCandidates : Support(i, c)

ResolverSpec == ResolverInit /\ [][ResolverNext]_resolverVars

-----------------------------------------------------------------------------
\* The candidates come out of maps and sets in no order of their own: which
\* one was found first decides nothing, a tie is ambiguous.
OrderIrrelevant ==
    \A i, j \in DOMAIN inputs :
        Resolve([inputs EXCEPT ![i] = inputs[j], ![j] = inputs[i]]) = decision

\* The contract's "project and timing alone never create ownership", and
\* contradictions "never subtract points": a candidate without an anchor, or
\* with a contradiction, changes no decision.
OnlyAnchorsCount ==
    [][\A c \in Evidence :
          Offer(c) /\ (c.anchor = None \/ c.predates \/ c.reaches_other)
            => decision' = decision]_resolverVars

\* Support keeps a winner the winner.
SupportKeepsWinner ==
    [][\A i \in DOMAIN inputs :
          (/\ DOMAIN inputs' = DOMAIN inputs /\ inputs'[i] # inputs[i]
           /\ inputs[i].session = decision.winner /\ Counts(inputs[i])
           /\ \A j \in DOMAIN inputs \ {i} : inputs[j].session # decision.winner)
            => decision'.winner = decision.winner]_resolverVars

\* The resolver's contract: the order of the candidates, candidates without an anchor, and
\* support for the winner change no decision (resolver.rs resolve).
ResolverDecides == []OrderIrrelevant /\ OnlyAnchorsCount /\ SupportKeepsWinner
=============================================================================
