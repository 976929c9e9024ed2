----------------------------- MODULE Resolution -----------------------------
(***************************************************************************)
(* Which record of a source, if any, is the company that is looked for     *)
(* (company/resolution.py).  Evidence comes in tiers that do not add up.   *)
(* A name is the set of words that normalisation leaves of it, a GSTIN     *)
(* carries a state and a PAN, and confidence is counted in percent.        *)
(***************************************************************************)
EXTENDS Integers, Sequences, FiniteSets, FiniteSetsExt, Functions

CONSTANTS Entity,      \* the EntityInput: what is known of the company
          Found,       \* the SourceRecords that sources may return
          MaxRecords   \* bound: how many they return

VARIABLE records       \* what came back, in the order of the sources

rvars == <<records>>

NoId == "none"

\* A source record is what is known of a candidate; nothing has come back yet.
Init == records = <<>>

---------------------------------------------------------------------------
\* pan_from_gstin and state_from_gstin, where the field itself is empty.
PanOf(x) == IF x.pan = NoId THEN x.gstin.pan ELSE x.pan
StateOf(x) == IF x.state = NoId THEN x.gstin.state ELSE x.state

\* Both are there, and are equal or differ.
Agree(a, b) == a # NoId /\ a = b
Contradict(a, b) == a # NoId /\ b # NoId /\ a # b

\* token_set_similarity.
Similarity(a, b) ==
  IF a = {} \/ b = {} THEN 0 ELSE (100 * Cardinality(a \cap b)) \div Cardinality(a \cup b)

\* Tier 1: one identifier is enough.  A GSTIN is its number.
SharesIdentifier(r) == \/ Agree(Entity.gstin.number, r.gstin.number)
                       \/ Agree(Entity.cin, r.cin) \/ Agree(Entity.pan, r.pan)

SimilarAddress(r) == Similarity(Entity.address, r.address) >= 50

Verdict(tier, confidence, vetoed) == [tier |-> tier, confidence |-> confidence, vetoed |-> vetoed]
TierRank == [IDENTIFIER |-> 4, STRUCTURAL |-> 3, NAME_STRONG |-> 2, NAME_WEAK |-> 1, NONE |-> 0]

\* resolve.  Two companies without a known state are in the same one.
Resolve(r) ==
  LET similarity == Similarity(Entity.name, r.name) IN
  CASE SharesIdentifier(r) -> Verdict("IDENTIFIER", 100, FALSE)
    [] ~SharesIdentifier(r) /\ Agree(PanOf(Entity), PanOf(r)) -> Verdict("STRUCTURAL", 90, FALSE)
    [] OTHER ->
         IF Contradict(StateOf(Entity), StateOf(r)) /\ Contradict(PanOf(Entity), PanOf(r))
         THEN Verdict("NONE", 0, TRUE)
         ELSE IF similarity >= 85 /\ (SimilarAddress(r) \/ StateOf(Entity) = StateOf(r))
         THEN Verdict("NAME_STRONG", Min({75, similarity}), FALSE)
         ELSE IF similarity >= 60 THEN Verdict("NAME_WEAK", Min({50, similarity}), FALSE)
         ELSE Verdict("NONE", similarity, FALSE)

Better(v, w) == \/ TierRank[v.tier] > TierRank[w.tier]
                \/ v.tier = w.tier /\ v.confidence > w.confidence

\* The places of the records that are not vetoed, and which of them the sort puts before
\* the others: it is stable.
Scored(rs) == {i \in DOMAIN rs : ~Resolve(rs[i]).vetoed}
Ahead(rs, i, j) == \/ Better(Resolve(rs[i]), Resolve(rs[j]))
                   \/ i < j /\ ~Better(Resolve(rs[j]), Resolve(rs[i]))
Foremost(rs, s) == CHOOSE i \in s : \A j \in s \ {i} : Ahead(rs, i, j)

NoAnswer == [match |-> {}, tier |-> "NONE"]
Answer(r) == [match |-> {r}, tier |-> Resolve(r).tier]

\* Mutant: the first of the best is taken, however close the next.
FirstOfTheBest(rs) == IF Scored(rs) = {} THEN NoAnswer ELSE Answer(rs[Foremost(rs, Scored(rs))])

\* best_match: two that are almost as good are no match, below an identifier.
BestMatch(rs) ==
  LET scored == Scored(rs)
      first == Foremost(rs, scored)
      others == scored \ {first}
      best == Resolve(rs[first])
      next == Resolve(rs[Foremost(rs, others)])
      ambiguous == others # {} /\ best.tier = next.tier
                   /\ best.confidence - next.confidence < 5 /\ best.tier # "IDENTIFIER"
  IN IF scored = {} \/ ambiguous THEN NoAnswer ELSE Answer(rs[first])

---------------------------------------------------------------------------
\* A source answers.
SourceAnswers == /\ Len(records) < MaxRecords
                 /\ \E r \in Found : records' = Append(records, r)

Next == SourceAnswers

Spec == Init /\ [][Next]_rvars

---------------------------------------------------------------------------
Reordered(rs) == { [i \in DOMAIN rs |-> rs[p[i]]] : p \in Bijection(DOMAIN rs, DOMAIN rs) }

TypeOK == /\ Len(records) <= MaxRecords /\ Range(records) \subseteq Found
          /\ \A r \in Found : Resolve(r).confidence \in 0 .. 100

\* Whose record is attached to a company does not depend on which source answered first,
\* unless several share its identifier; nothing outvotes a shared identifier, however many
\* other records fit by name; and no record of another person in another state is attached
\* (company/resolution.py:3-9, 252-284).
MatchStands ==
  LET best == BestMatch(records) IN
  /\ best.tier # "IDENTIFIER" => \A rs \in Reordered(records) : BestMatch(rs) = best
  /\ (\E r \in Range(records) : SharesIdentifier(r)) => \A r \in best.match : SharesIdentifier(r)
  /\ \A r \in best.match : Contradict(StateOf(Entity), StateOf(r))
                            => ~Contradict(PanOf(Entity), PanOf(r)) \/ SharesIdentifier(r)
=============================================================================
