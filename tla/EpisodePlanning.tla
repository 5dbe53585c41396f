---------------------------- MODULE EpisodePlanning ----------------------------
(***************************************************************************)
(* How an episode is planned: the source pack of a page and the pages it   *)
(* links to (packages/handbook-content, source-pack.ts), the ids its       *)
(* excerpts are cited by (packages/podcast-engine, ids.ts), the seconds    *)
(* each beat of the model's draft gets (apportion.ts) and the number of    *)
(* segments the voice may be called for (budget.ts).  EpisodePipeline has  *)
(* all of this as one step, PlanAnswered or PlanFails.                     *)
(*                                                                         *)
(* A slug is the sequence of its parts, "foo-2" is <<"foo", 2>>; seconds   *)
(* are fractions, multiplied out by the sum of the weights and the         *)
(* characters per second.                                                  *)
(***************************************************************************)
EXTENDS Integers, FiniteSets, Sequences, Lists

CONSTANTS
  Sites,            \* page -> [links : pages and dead links, sections : [slug, length]]
  Depths, Tokens,   \* the pack's options
  Weights, MaxBeats, MaxExcerpts,     \* of a draft; it is made of packs up to so large
  Requested, Expansion, CharsPerSecond,
  Ceiling, Fixed, Marginal            \* what a render may take, and takes

VARIABLES
  site,
  pack,      \* what buildSourcePack() returned, with what it was asked for
  draft      \* the beats the model answered with: what each cites, and its weight
planningVars == <<site, pack, draft>>

NoPack == [included |-> <<>>, excerpts |-> <<>>]
Invented == 0     \* what a beat cites that is no excerpt's id
PlanningInit == site \in Sites /\ pack = NoPack /\ draft = <<>>

CeilDiv(n, d) == (n + d - 1) \div d

\* excerptsFor(), documentCost()
excerptsFor(pages, page) ==
  LET all == pages[page].sections
      kept[n \in 0..Len(all)] ==
        IF n = 0 THEN <<>> ELSE IF all[n].length = 0 THEN kept[n - 1]
        ELSE Append(kept[n - 1], [page |-> page, slug |-> all[n].slug, length |-> all[n].length])
  IN  kept[Len(all)]
documentCost(pages, page) ==
  LET own == excerptsFor(pages, page) IN Total([i \in DOMAIN own |-> CeilDiv(own[i].length, 4)])

\* resolveRelated(): one hop along the links of the frontier, depth times
Follow(pages, found, link) ==
  IF link \notin DOMAIN pages \ found.seen THEN found
  ELSE [seen |-> found.seen \cup {link}, ordered |-> Append(found.ordered, link),
        next |-> Append(found.next, link)]
Hop(pages, found) ==
  LET links == FlattenSeq([i \in DOMAIN found.next |-> pages[found.next[i]].links])
      walked[n \in 0..Len(links)] ==
        IF n = 0 THEN [found EXCEPT !.next = <<>>] ELSE Follow(pages, walked[n - 1], links[n])
  IN  walked[Len(links)]
resolveRelated(pages, primary, depth) ==
  LET hops[n \in 0..depth] ==
        IF n = 0 THEN [seen |-> {primary}, ordered |-> <<>>, next |-> <<primary>>]
        ELSE Hop(pages, hops[n - 1])
  IN  hops[depth].ordered

\* buildSourcePack(): what does not fit is passed over, what comes after it may
Packed(pages, p, page) ==
  IF p.total + documentCost(pages, page) > p.maxTokens
  THEN [p EXCEPT !.dropped = Append(@, page)]
  ELSE [p EXCEPT !.included = Append(@, page), !.total = @ + documentCost(pages, page)]
buildSourcePack(pages, primary, depth, maxTokens) ==
  LET related == resolveRelated(pages, primary, depth)
      packed[n \in 0..Len(related)] ==
        IF n = 0 THEN [included |-> <<primary>>, dropped |-> <<>>, depth |-> depth, excerpts |-> <<>>,
                       total |-> documentCost(pages, primary), maxTokens |-> maxTokens]
        ELSE Packed(pages, packed[n - 1], related[n])
      p == packed[Len(related)]
  IN  [p EXCEPT !.excerpts =
         FlattenSeq([i \in DOMAIN p.included |-> excerptsFor(pages, p.included[i])])]
BuildSourcePack(primary, depth, maxTokens) ==
  /\ pack = NoPack
  /\ pack' = buildSourcePack(site, primary, depth, maxTokens)
  /\ UNCHANGED <<site, draft>>
excerpts == pack.excerpts

\* deriveExcerptIds(): the first of base, base-2, base-3 ... that is not taken
Base(i) ==
  LET e == excerpts[i]
      ordinal == Cardinality({j \in 1..(i - 1) : excerpts[j].page = e.page})
  IN  <<e.page>> \o (IF e.slug = <<>> THEN <<"section", ordinal>> ELSE e.slug)
NextId(ids, i) ==
  LET taken == ToSet(ids)
      free == {n \in 2..(i + 1) : Append(Base(i), n) \notin taken}
  IN  Append(ids, IF Base(i) \notin taken THEN Base(i)
                  ELSE Append(Base(i), CHOOSE n \in free : \A m \in free : n <= m))
deriveExcerptIds ==
  LET ids[n \in 0..Len(excerpts)] == IF n = 0 THEN <<>> ELSE NextId(ids[n - 1], n)
  IN  ids[Len(excerpts)]

\* allocateCharacters(): whole shares, the largest remainders get one more
AllocatedByRounding(characters, weights) ==      \* mutant
  [b \in DOMAIN weights |-> IF Total(weights) = 0 THEN 0 ELSE
     (2 * characters * weights[b] + Total(weights)) \div (2 * Total(weights))]
allocateCharacters(characters, weights) ==
  LET total == Total(weights)
      Floor(b) == (characters * weights[b]) \div total
      Rest(b) == (characters * weights[b]) % total
      Before(b) == {a \in DOMAIN weights : Rest(a) > Rest(b) \/ (Rest(a) = Rest(b) /\ a < b)}
      remaining == characters - Total([b \in DOMAIN weights |-> Floor(b)])
  IN  [b \in DOMAIN weights |-> IF total = 0 THEN 0 ELSE
         Floor(b) + (IF Cardinality(Before(b)) < remaining THEN 1 ELSE 0)]

\* apportion(): each excerpt is shared by the beats that cite it; one that does
\* not has no weight there, so no remainder, and none of it.  Sequences are
\* appended to <<>> to be evaluated once.
WeightsOn(e) ==
  [b \in DOMAIN draft |-> IF e \in draft[b].cites THEN draft[b].weight ELSE 0]
Shares(e) == allocateCharacters(excerpts[e].length, <<>> \o WeightsOn(e))
totalWeight == Total([b \in DOMAIN draft |-> draft[b].weight])
Unit == totalWeight * CharsPerSecond
apportion ==
  LET shares == <<>> \o [e \in DOMAIN excerpts |-> <<>> \o Shares(e)]
      allocated == <<>> \o [b \in DOMAIN draft |-> Total([e \in DOMAIN excerpts |-> shares[e][b]])]
      desired(b) == Requested * draft[b].weight * CharsPerSecond
      supportable(b) == Expansion * allocated[b] * totalWeight
      thin == {b \in DOMAIN draft : desired(b) > supportable(b)}
  IN  [shares |-> shares, allocatedCharacters |-> allocated, thinBeats |-> thin,
       plannedSeconds |-> Total([b \in DOMAIN draft |->
                                   IF b \in thin THEN supportable(b) ELSE desired(b)])]

\* deriveSegmentBudget()
maxSegments(planned) == (Ceiling * Unit - Marginal * planned) \div (Fixed * Unit)

\* planEpisode(), whatever draft the model answers with
Drafts == UNION {[1..n -> [cites : ((SUBSET (1..Len(excerpts))) \ {{}}) \cup {{Invented}}, weight : Weights]] :
                 n \in 1..MaxBeats}
ModelDrafts ==
  /\ pack # NoPack /\ draft = <<>> /\ Len(excerpts) \in 1..MaxExcerpts
  /\ \E d \in Drafts : draft' = d
  /\ UNCHANGED <<site, pack>>
outcome(planned) ==
  IF \E b \in DOMAIN draft : Invented \in draft[b].cites THEN "invented citation"
  ELSE IF planned <= 0 THEN "no supporting text"
  ELSE IF maxSegments(planned) < 1 THEN "ceiling unreachable" ELSE "planned"

PlanningNext ==
  \/ \E primary \in DOMAIN site, depth \in Depths, tokens \in Tokens :
       BuildSourcePack(primary, depth, tokens)
  \/ ModelDrafts
-------------------------------------------------------------------------------
\* The pages at most n links away
Within(pages, primary, n) ==
  LET near[m \in 0..n] ==
        IF m = 0 THEN {primary}
        ELSE near[m - 1] \cup (DOMAIN pages \cap UNION {ToSet(pages[p].links) : p \in near[m - 1]})
  IN  near[n]

\* A closed set of sources (source-pack.ts:1-9, 200-225): the pack has or names
\* as dropped every page within reach, nearer ones first, keeps to its budget
\* unless the page itself exceeds it, drops none it has room for, and no two
\* excerpts share an id, however headings and suffixes collide (ids.ts:41-45).
PackClosed == pack # NoPack =>
  LET primary == pack.included[1]
      cost(page) == documentCost(site, page)
  IN  /\ ToSet(pack.included \o pack.dropped) = Within(site, primary, pack.depth)
      /\ IsInjective(pack.included \o pack.dropped)
      /\ \A n \in 0..pack.depth : \A i, j \in DOMAIN pack.included :
           i < j /\ pack.included[j] \in Within(site, primary, n)
             => pack.included[i] \in Within(site, primary, n)
      /\ pack.total = Total([i \in DOMAIN pack.included |-> cost(pack.included[i])])
      /\ pack.total <= pack.maxTokens \/ pack.included = <<primary>>
      /\ \A d \in ToSet(pack.dropped) : pack.total + cost(d) > pack.maxTokens
      /\ IsInjective(deriveExcerptIds)

\* No plan promises more than its sources hold (apportion.ts:1-13, budget.ts:70):
\* of the excerpts cited each character is given to one beat, within one of the
\* beat's proportion, and never less to a heavier beat that cites as much; the
\* plan is neither longer than requested nor than its citations support; it
\* falls short exactly if a beat is thin; it can be rendered below the ceiling
\* in as many segments as it says, and not in one more.  A pack's excerpt is
\* never empty, so a plan without any supporting text does not come up.
DraftGrounded ==
  LET cited == UNION {draft[b].cites : b \in DOMAIN draft}
      held == Total([e \in DOMAIN excerpts |-> IF e \in cited THEN excerpts[e].length ELSE 0])
      plan == apportion
      allocated == plan.allocatedCharacters
      planned == plan.plannedSeconds
      weightOn(e) == Total(WeightsOn(e))
      off(e, b) == plan.shares[e][b] * weightOn(e) - excerpts[e].length * draft[b].weight
      render(n) == n * Fixed * Unit + Marginal * planned
  IN  draft # <<>> /\ Invented \notin cited =>
        /\ outcome(planned) # "no supporting text"
        /\ Total(allocated) = held
        /\ \A b \in DOMAIN draft, e \in DOMAIN excerpts :
             IF e \in draft[b].cites THEN -weightOn(e) < off(e, b) /\ off(e, b) < weightOn(e)
             ELSE plan.shares[e][b] = 0
        /\ \A a, b \in DOMAIN draft :
             draft[b].cites \subseteq draft[a].cites /\ draft[b].weight < draft[a].weight
               => allocated[b] <= allocated[a]
        /\ planned <= Requested * Unit
        /\ planned <= Expansion * held * totalWeight
        /\ plan.thinBeats = {} <=> planned = Requested * Unit
        /\ outcome(planned) = "planned" => /\ render(maxSegments(planned)) <= Ceiling * Unit
                                           /\ render(maxSegments(planned) + 1) > Ceiling * Unit

\* What is planned rests on what the handbook says: the pack and the plan made of it.
PlanGrounded == PackClosed /\ DraftGrounded
===============================================================================
