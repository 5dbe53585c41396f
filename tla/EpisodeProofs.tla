----------------------------- MODULE EpisodeProofs -----------------------------
(****************************************************************************)
(* Proofs about the episodes of the podcast.  EpisodePipeline: what a run's  *)
(* directory and its manifest tell, and what the manifest charges for; then  *)
(* EpisodeSeries: what the publication of the runs leaves behind.            *)
(*                                                                           *)
(* A run shares nothing with the others but the directories it may reserve,  *)
(* so the invariant is about one run: its accounts (what its local variables *)
(* and its bill have to do with each other, stage by stage) and its files.   *)
(****************************************************************************)
EXTENDS EpisodePipeline, EpisodeSeries, Integers, FiniteSetTheorems, SequenceTheorems,
        TLAPS

Early == {"start", "exit 0 early", "exit 2", "refused"}
Loop == {"beat", "review", "revise", "revise, some dropped"}
Words == {"write script", "write transcript"}
Voice == {"speak", "write audio", "rewrite transcript"}
Ats == Early \cup {"plan", "write plan"} \cup Loop \cup Words \cup Voice \cup
       {"complete", "diagnose", "report", "exit 0", "exit 1", "unreported", "killed"}

Process ==
  [at : Ats, dir : RunIds \cup {NoDir}, stage : {"plan", "dialogue", "synthesis"},
   beats : 0..MaxBeats, beat : 1..MaxBeats, pending : Usage, usage : Usage,
   known : BOOLEAN, carried : BOOLEAN, artifacts : Seq(Names), reviews : Seq(Review)]

Bill == [answered : Usage, failed : Usage]
Contents == {"absent", "partial", "whole"}
OnDisk == [Names -> Contents]

-----------------------------------------------------------------------------
(* The accounts of a run: p its local variables, b its bill *)

\* The calls that n model calls after the plan paid for: one for each of the
\* beats written, one for each review that answered, one for each revision that
\* was kept, and perhaps one for each that was not.
PaysFor(n, written, s) ==
  n - written - s.reviewed \in s.revised..(s.revised + s.unfixed)

Fresh(p) ==
  /\ p.stage = "plan" /\ p.usage = ZeroUsage /\ ~p.known
  /\ p.artifacts = <<>> /\ p.reviews = <<>> /\ p.beat = 1

\* Of the beats 1..beats, those before p.beat are written and reviewed; in the
\* review of a beat it is written, too.
InLoop(r, p, b) ==
  LET s == ReviewSummary(p.reviews)
      written == IF p.at = "beat" THEN p.beat - 1 ELSE p.beat
      open == IF p.at \in {"revise", "revise, some dropped"} THEN 1 ELSE 0
  IN  /\ p.beat <= p.beats
      /\ p.at # "beat" => Reviews(r)
      /\ b.answered.model = 1 + p.pending.model + open
      /\ PaysFor(p.pending.model, written, s)
      /\ s.reviewed + s.unchecked = IF Reviews(r) THEN p.beat - 1 ELSE 0

HasWords(r, p, b) ==
  LET s == ReviewSummary(p.reviews)
  IN  /\ 1 <= p.beats
      /\ b.answered.model = 1 + p.pending.model
      /\ PaysFor(p.pending.model, p.beats, s)
      /\ s.reviewed + s.unchecked = IF Reviews(r) THEN p.beats ELSE 0

InDialogue(r, p, b) ==
  /\ r \in CreateRuns /\ p.stage = "dialogue" /\ p.known
  /\ p.usage = ModelCall /\ p.pending.speech = 0 /\ b.answered.speech = 0
  /\ p.artifacts = <<"plan.json">>

\* In synthesis the model's part of the bill is settled.
InSynthesis(r, p, b) ==
  LET s == ReviewSummary(p.reviews)
  IN  /\ r \in CreateRuns /\ p.known
      /\ p.usage.model = b.answered.model
      /\ PaysFor(p.usage.model - 1, p.beats, s)
      /\ s.reviewed + s.unchecked = IF Reviews(r) THEN p.beats ELSE 0

Voiced(p, b) ==
  /\ p.beat <= p.beats
  /\ p.stage = "synthesis" /\ p.usage.speech = 0 /\ p.pending.model = 0
  /\ b.answered.speech = p.pending.speech
  /\ p.artifacts = <<"plan.json", "script.json", "transcript.md">>

Accounts(r, p, b) ==
  /\ p.dir = NoDir <=> p.at \in Early
  /\ p.usage.model <= b.answered.model + b.failed.model
  /\ p.usage.speech <= b.answered.speech + b.failed.speech
  /\ p.at \in {"start", "plan"} =>
       Fresh(p) /\ p.pending = ZeroUsage /\ b = [answered |-> ZeroUsage, failed |-> ZeroUsage]
  /\ p.at = "write plan" =>
       /\ Fresh(p) /\ p.pending = ModelCall /\ 1 <= p.beats
       /\ b = [answered |-> ModelCall, failed |-> ZeroUsage]
  /\ p.at \in Loop => InDialogue(r, p, b) /\ InLoop(r, p, b)
  /\ p.at \in Words => InDialogue(r, p, b) /\ HasWords(r, p, b)
  /\ p.stage = "synthesis" => InSynthesis(r, p, b)
  /\ p.at \in Voice => Voiced(p, b)
  /\ p.at \in {"complete", "exit 0"} =>
       /\ p.usage = b.answered
       /\ r \in CreateRuns => p.stage = "synthesis"
       /\ r \in PlanRuns => p.stage = "plan"
  /\ p.at = "diagnose" =>
       Fresh(p) /\ b = [answered |-> ZeroUsage, failed |-> ModelCall]

-----------------------------------------------------------------------------
(* Its directory: fs the files, m the manifest *)

AllArtifacts == <<"plan.json", "script.json", "transcript.md", "episode.wav", "manifest.json">>

\* What is listed is there; only the transcript is rewritten, beside the audio.
Backed(f, fs) ==
  \/ f = "manifest.json" \/ fs[f] = "whole"
  \/ f = "transcript.md" /\ fs["episode.wav"] = "whole"

WordsKept(p, fs) ==
  /\ fs["plan.json"] = "whole" /\ fs["script.json"] = "whole"
  /\ fs["transcript.md"] = "whole" \/ fs["episode.wav"] = "whole"
  /\ p.at \in {"speak", "write audio"} => fs["transcript.md"] = "whole"
  /\ p.at = "rewrite transcript" => fs["episode.wav"] = "whole"

Filed(r, p, fs) ==
  /\ \A i \in DOMAIN p.artifacts : Backed(p.artifacts[i], fs)
  /\ p.stage # "synthesis" => \A i \in DOMAIN p.artifacts : p.artifacts[i] # "transcript.md"
  /\ p.at = "write transcript" => fs["script.json"] = "whole"
  /\ p.stage = "synthesis" => WordsKept(p, fs)
  /\ p.at \in {"complete", "exit 0"} =>
       /\ fs["plan.json"] = "whole"
       /\ r \in CreateRuns => p.artifacts = AllArtifacts /\ fs["transcript.md"] = "whole"
                              /\ fs["episode.wav"] = "whole"
  /\ p.at \in {"exit 0", "exit 1"} => fs["manifest.json"] = "whole"

Says(p, status, artifacts, measured) ==
  [status |-> status, stage |-> p.stage, artifacts |-> artifacts,
   measured |-> measured, usage |-> IF measured THEN p.usage ELSE ZeroUsage,
   review |-> ReviewSummary(p.reviews)]

\* The manifest is written once, with the run's last step.
ManifestSays(r, p, m) ==
  /\ p.at = "exit 0" => m = Says(p, "complete", IF r \in CreateRuns THEN p.artifacts
                                               ELSE <<"plan.json", "manifest.json">>, TRUE)
  /\ p.at = "exit 1" => m = Says(p, "failed", Append(p.artifacts, "manifest.json"), p.known)
  /\ p.at \notin {"exit 0", "exit 1"} => m = NoManifest

RunInv(r) ==
  /\ Accounts(r, run[r], billed[r])
  /\ run[r].dir # NoDir => /\ Filed(r, run[r], files[run[r].dir])
                           /\ ManifestSays(r, run[r], manifest[run[r].dir])

OwnDirs ==
  /\ \A r, s \in Runs : r # s /\ run[r].dir = run[s].dir => run[r].dir = NoDir
  /\ \A d \in RunIds : Free(d) => manifest[d] = NoManifest

PipelineTyped ==
  /\ run \in [Runs -> Process] /\ billed \in [Runs -> Bill]
  /\ files \in [RunIds -> OnDisk] /\ DOMAIN manifest = RunIds

PipelineInv ==
  /\ PipelineTyped
  /\ OwnDirs
  /\ \A r \in Runs : RunInv(r)

-----------------------------------------------------------------------------
(* Counting reviews *)

HowMany(K, reviews) == Cardinality({i \in DOMAIN reviews : reviews[i] \in K})

\* One entry more counts where it is one of those that are counted.
LEMMA CountOneMore ==
  ASSUME NEW reviews \in Seq(Review), NEW e \in Review, NEW K
  PROVE  /\ HowMany(K, reviews) \in Nat
         /\ HowMany(K, Append(reviews, e)) = HowMany(K, reviews) + (IF e \in K THEN 1 ELSE 0)
<1> DEFINE n == Len(reviews)
           more == Append(reviews, e)
           S == {i \in DOMAIN reviews : reviews[i] \in K}
           T == {i \in DOMAIN more : more[i] \in K}
<1>1. /\ n \in Nat /\ DOMAIN reviews = 1..n /\ DOMAIN more = 1..(n + 1)
      /\ \A i \in 1..n : more[i] = reviews[i]
      /\ more[n + 1] = e
  OBVIOUS
<1>2. /\ S \subseteq 1..n /\ n + 1 \notin S
      /\ T = IF e \in K THEN S \cup {n + 1} ELSE S
  <2>1. \A i : i \in 1..(n + 1) <=> i \in 1..n \/ i = n + 1
    BY <1>1
  <2>2. S = {i \in 1..n : reviews[i] \in K} /\ n + 1 \notin 1..n
    BY <1>1
  <2> HIDE DEF n, more
  <2>3. \A i : i \in T <=> (i \in 1..n /\ reviews[i] \in K) \/ (i = n + 1 /\ e \in K)
    BY <1>1, <2>1
  <2> QED BY <2>2, <2>3
<1> HIDE DEF n, S, T
<1>3. IsFiniteSet(1..n)
  BY <1>1, FS_Interval
<1>4. IsFiniteSet(S)
  BY <1>2, <1>3, FS_Subset
<1>5. Cardinality(S) \in Nat
  BY <1>4, FS_CardinalityType
<1>6. Cardinality(S \cup {n + 1}) = Cardinality(S) + 1
  BY <1>2, <1>4, FS_AddElement
<1>7. Cardinality(T) = Cardinality(S) + (IF e \in K THEN 1 ELSE 0)
  BY <1>2, <1>5, <1>6
<1> QED BY <1>5, <1>7 DEF HowMany, S, T, more

NewlyReviewed(s, e) ==
  [reviewed  |-> s.reviewed + (IF e.failed THEN 0 ELSE 1),
   revised   |-> s.revised + (IF e.revised THEN 1 ELSE 0),
   unfixed   |-> s.unfixed + (IF e.findings /\ ~e.revised THEN 1 ELSE 0),
   unchecked |-> s.unchecked + (IF e.failed THEN 1 ELSE 0)]

Summary == [reviewed : Nat, revised : Nat, unfixed : Nat, unchecked : Nat]

AsCounted(reviews) ==
  [reviewed  |-> HowMany({e \in Review : ~e.failed}, reviews),
   revised   |-> HowMany({e \in Review : e.revised}, reviews),
   unfixed   |-> HowMany({e \in Review : e.findings /\ ~e.revised}, reviews),
   unchecked |-> HowMany({e \in Review : e.failed}, reviews)]

\* reviewSummary() counts what AsCounted counts, by sets of positions.
LEMMA SummaryCounts ==
  ASSUME NEW reviews \in Seq(Review) PROVE ReviewSummary(reviews) = AsCounted(reviews)
<1>1. \A i \in DOMAIN reviews : reviews[i] \in Review
  BY ElementOfSeq
<1>2. /\ {i \in DOMAIN reviews : ~reviews[i].failed}
           = {i \in DOMAIN reviews : reviews[i] \in {e \in Review : ~e.failed}}
      /\ {i \in DOMAIN reviews : reviews[i].revised}
           = {i \in DOMAIN reviews : reviews[i] \in {e \in Review : e.revised}}
      /\ {i \in DOMAIN reviews : reviews[i].findings /\ ~reviews[i].revised}
           = {i \in DOMAIN reviews : reviews[i] \in {e \in Review : e.findings /\ ~e.revised}}
      /\ {i \in DOMAIN reviews : reviews[i].failed}
           = {i \in DOMAIN reviews : reviews[i] \in {e \in Review : e.failed}}
  BY <1>1
<1>3. ReviewSummary(reviews) =
        [reviewed  |-> Cardinality({i \in DOMAIN reviews : ~reviews[i].failed}),
         revised   |-> Cardinality({i \in DOMAIN reviews : reviews[i].revised}),
         unfixed   |-> Cardinality({i \in DOMAIN reviews : reviews[i].findings /\ ~reviews[i].revised}),
         unchecked |-> Cardinality({i \in DOMAIN reviews : reviews[i].failed})]
  BY DEF ReviewSummary, Count
<1> QED BY <1>2, <1>3 DEF AsCounted, HowMany

\* One more review adds to each count what it is an instance of.
LEMMA SummaryOfOneMore ==
  ASSUME NEW reviews \in Seq(Review), NEW e \in Review
  PROVE  /\ ReviewSummary(reviews) \in Summary
         /\ ReviewSummary(Append(reviews, e)) = NewlyReviewed(ReviewSummary(reviews), e)
<1>1. Append(reviews, e) \in Seq(Review)
  OBVIOUS
<1>2. ReviewSummary(reviews) = AsCounted(reviews)
  BY SummaryCounts
<1>3. ReviewSummary(Append(reviews, e)) = AsCounted(Append(reviews, e))
  BY <1>1, SummaryCounts
<1>4. \A K : /\ HowMany(K, reviews) \in Nat
            /\ HowMany(K, Append(reviews, e)) = HowMany(K, reviews) + (IF e \in K THEN 1 ELSE 0)
  BY CountOneMore
<1>5. AsCounted(reviews) \in Summary
  BY <1>4 DEF AsCounted, Summary
<1>6. AsCounted(Append(reviews, e)) = NewlyReviewed(AsCounted(reviews), e)
  <2>1. e.failed \in BOOLEAN /\ e.revised \in BOOLEAN /\ e.findings \in BOOLEAN
    BY DEF Review
  <2>2. /\ e \in {x \in Review : ~x.failed} <=> ~e.failed
        /\ e \in {x \in Review : x.revised} <=> e.revised
        /\ e \in {x \in Review : x.findings /\ ~x.revised} <=> (e.findings /\ ~e.revised)
        /\ e \in {x \in Review : x.failed} <=> e.failed
    OBVIOUS
  <2>3. HowMany({x \in Review : ~x.failed}, Append(reviews, e))
          = HowMany({x \in Review : ~x.failed}, reviews) + (IF e.failed THEN 0 ELSE 1)
    BY <1>4, <2>2
  <2>4. HowMany({x \in Review : x.revised}, Append(reviews, e))
          = HowMany({x \in Review : x.revised}, reviews) + (IF e.revised THEN 1 ELSE 0)
    BY <1>4, <2>2
  <2>5. HowMany({x \in Review : x.findings /\ ~x.revised}, Append(reviews, e))
          = HowMany({x \in Review : x.findings /\ ~x.revised}, reviews)
            + (IF e.findings /\ ~e.revised THEN 1 ELSE 0)
    BY <1>4, <2>2
  <2>6. HowMany({x \in Review : x.failed}, Append(reviews, e))
          = HowMany({x \in Review : x.failed}, reviews) + (IF e.failed THEN 1 ELSE 0)
    BY <1>4, <2>2
  <2> QED BY <2>3, <2>4, <2>5, <2>6 DEF AsCounted, NewlyReviewed
<1> QED BY <1>2, <1>3, <1>5, <1>6

\* Nothing is counted before the first review.
LEMMA SummaryOfNone ==
  ReviewSummary(<<>>) = [reviewed |-> 0, revised |-> 0, unfixed |-> 0, unchecked |-> 0]
<1>1. <<>> \in Seq(Review) /\ DOMAIN <<>> = {}
  OBVIOUS
<1>2. \A K : HowMany(K, <<>>) = 0
  BY <1>1, FS_EmptySet DEF HowMany
<1>3. ReviewSummary(<<>>) = AsCounted(<<>>)
  BY <1>1, SummaryCounts
<1> QED BY <1>2, <1>3 DEF AsCounted

-----------------------------------------------------------------------------
(* One run steps: the others keep what they have *)

\* r is at q now, and c is its bill.
StepsTo(r, q, c) ==
  /\ run' = [run EXCEPT ![r] = q]
  /\ billed' = [billed EXCEPT ![r] = c]

\* Nothing outside of r's directory is touched.
StaysIn(d) ==
  /\ files' \in [RunIds -> OnDisk] /\ DOMAIN manifest' = RunIds
  /\ \A e \in RunIds : e # d => files'[e] = files[e] /\ manifest'[e] = manifest[e]

\* The frame: a step of one run, inside its directory, keeps what is said of all.
LEMMA RunSteps ==
  ASSUME PipelineInv, NEW r \in Runs, NEW q \in Process, NEW c \in Bill,
         StepsTo(r, q, c), StaysIn(q.dir),
         q.dir # run[r].dir => run[r].dir = NoDir /\ Free(q.dir),
         Accounts(r, q, c),
         q.dir # NoDir => Filed(r, q, files'[q.dir]) /\ ManifestSays(r, q, manifest'[q.dir])
  PROVE  PipelineInv'
<1>1. /\ run \in [Runs -> Process] /\ billed \in [Runs -> Bill]
      /\ run' \in [Runs -> Process] /\ billed' \in [Runs -> Bill]
      /\ run'[r] = q /\ billed'[r] = c
      /\ \A s \in Runs \ {r} : run'[s] = run[s] /\ billed'[s] = billed[s]
  BY DEF PipelineInv, PipelineTyped, StepsTo
<1>2. /\ \A d \in RunIds : Free(d) => manifest[d] = NoManifest
      /\ \A s \in Runs : RunInv(s)
      /\ \A s \in Runs \ {r} : run[s].dir = run[r].dir => run[s].dir = NoDir
  BY DEF PipelineInv, OwnDirs
<1>3. \A s \in Runs : run[s].dir \in RunIds \cup {NoDir}
  BY <1>1 DEF Process
<1>4. ASSUME NEW s \in Runs \ {r}
      PROVE  run[s].dir = NoDir \/ run[s].dir # q.dir
  BY <1>2 DEF Free
<1>5. PipelineTyped'
  BY <1>1 DEF PipelineTyped, StaysIn
<1>6. OwnDirs'
  <2>1. ASSUME NEW s \in Runs, NEW t \in Runs, s # t, run'[s].dir = run'[t].dir
        PROVE  run'[s].dir = NoDir
    <3>1. CASE s # r /\ t # r
      BY <3>1, <2>1, <1>1 DEF PipelineInv, OwnDirs
    <3>2. CASE s = r
      BY <3>2, <2>1, <1>1, <1>4
    <3>3. CASE t = r
      BY <3>3, <2>1, <1>1, <1>4
    <3> QED BY <3>1, <3>2, <3>3
  <2>2. ASSUME NEW d \in RunIds, \A s \in Runs : run'[s].dir # d
        PROVE  manifest'[d] = NoManifest
    <3>1. d # q.dir /\ \A s \in Runs \ {r} : run[s].dir # d
      BY <2>2, <1>1
    <3>2. run[r].dir # d
      BY <3>1, PipelineAssumption
    <3>3. Free(d)
      BY <3>1, <3>2 DEF Free
    <3> QED BY <3>1, <3>3, <1>2 DEF StaysIn
  <2> QED BY <2>1, <2>2 DEF OwnDirs, Free
<1>7. ASSUME NEW s \in Runs, s # r
      PROVE  RunInv(s)'
  <2>1. run'[s] = run[s] /\ billed'[s] = billed[s] /\ RunInv(s)
    BY <1>1, <1>2, <1>7
  <2>2. run[s].dir # NoDir => /\ files'[run[s].dir] = files[run[s].dir]
                              /\ manifest'[run[s].dir] = manifest[run[s].dir]
    BY <1>3, <1>4, <1>7 DEF StaysIn
  <2> QED BY <2>1, <2>2 DEF RunInv
<1>8. RunInv(r)'
  BY <1>1 DEF RunInv
<1> QED BY <1>5, <1>6, <1>7, <1>8 DEF PipelineInv

\* What is known of a run before it steps.
LEMMA AtRun ==
  ASSUME PipelineInv, NEW r \in Runs
  PROVE  /\ run[r] \in Process /\ billed[r] \in Bill
         /\ Accounts(r, run[r], billed[r])
         /\ run[r].dir # NoDir =>
              /\ run[r].dir \in RunIds /\ files[run[r].dir] \in OnDisk
              /\ Filed(r, run[r], files[run[r].dir])
              /\ ManifestSays(r, run[r], manifest[run[r].dir])
<1>1. run[r] \in Process /\ billed[r] \in Bill /\ RunInv(r)
  BY DEF PipelineInv, PipelineTyped
<1>2. run[r].dir # NoDir => run[r].dir \in RunIds
  BY <1>1 DEF Process
<1> QED BY <1>1, <1>2 DEF RunInv, PipelineInv, PipelineTyped

-----------------------------------------------------------------------------
(* What the steps are made of *)

\* Usage is two counters, and adding usages adds them.
LEMMA UsageAdds ==
  /\ ZeroUsage \in Usage /\ ZeroUsage.model = 0 /\ ZeroUsage.speech = 0
  /\ ModelCall \in Usage /\ ModelCall.model = 1 /\ ModelCall.speech = 0
  /\ SpokenTurn \in Usage /\ SpokenTurn.model = 0 /\ SpokenTurn.speech = 1
  /\ TwoCalls \in Usage /\ TwoCalls.model = 2 /\ TwoCalls.speech = 0
  /\ \A u, v \in Usage :
       /\ AddUsage(u, v) \in Usage
       /\ AddUsage(u, v).model = u.model + v.model
       /\ AddUsage(u, v).speech = u.speech + v.speech
       /\ u.model = v.model /\ u.speech = v.speech => u = v
       /\ u.model \in Nat /\ u.speech \in Nat
BY DEF Usage, ZeroUsage, ModelCall, SpokenTurn, TwoCalls, AddUsage

\* A call that was answered is on the answered side of the bill.
LEMMA AnswersBills ==
  ASSUME billed \in [Runs -> Bill], NEW r \in Runs, NEW u \in Usage, Answers(r, u)
  PROVE  \E c \in Bill :
           /\ billed' = [billed EXCEPT ![r] = c]
           /\ c.answered.model = billed[r].answered.model + u.model
           /\ c.answered.speech = billed[r].answered.speech + u.speech
           /\ c.answered = AddUsage(billed[r].answered, u)
           /\ c.failed = billed[r].failed
<1> DEFINE a == AddUsage(billed[r].answered, u)
           c == [billed[r] EXCEPT !.answered = a]
<1>1. billed[r] \in Bill /\ billed[r].answered \in Usage
  BY DEF Bill
<1>2. billed' = [billed EXCEPT ![r] = c]
  BY DEF Answers
<1>3. /\ a \in Usage /\ a.model = billed[r].answered.model + u.model
      /\ a.speech = billed[r].answered.speech + u.speech
  BY <1>1, UsageAdds
<1>4. a = AddUsage(billed[r].answered, u)
  OBVIOUS
<1> HIDE DEF a
<1>5. c \in Bill /\ c.answered = a /\ c.failed = billed[r].failed
  BY <1>1, <1>3 DEF Bill
<1> HIDE DEF c
<1> QED BY <1>2, <1>3, <1>4, <1>5

\* A call that failed may be on the other side.
LEMMA MayCostBills ==
  ASSUME billed \in [Runs -> Bill], NEW r \in Runs, NEW u \in Usage, MayCost(r, u)
  PROVE  \E c \in Bill :
           /\ billed' = [billed EXCEPT ![r] = c]
           /\ c.answered = billed[r].answered
           /\ c.failed.model >= billed[r].failed.model
           /\ c.failed.speech >= billed[r].failed.speech
<1>1. PICK v \in {ZeroUsage, u} : billed' = [billed EXCEPT ![r].failed = AddUsage(@, v)]
  BY DEF MayCost
<1> DEFINE a == AddUsage(billed[r].failed, v)
           c == [billed[r] EXCEPT !.failed = a]
<1>2. billed[r] \in Bill /\ billed[r].failed \in Usage /\ v \in Usage
  BY UsageAdds DEF Bill
<1>3. billed' = [billed EXCEPT ![r] = c]
  BY <1>1
<1>4. a \in Usage /\ a.model = billed[r].failed.model + v.model
      /\ a.speech = billed[r].failed.speech + v.speech
  BY <1>2, UsageAdds
<1>5. /\ v.model \in Nat /\ v.speech \in Nat
      /\ billed[r].failed.model \in Nat /\ billed[r].failed.speech \in Nat
  BY <1>2, UsageAdds
<1> HIDE DEF a
<1>6. c \in Bill /\ c.answered = billed[r].answered /\ c.failed = a
  BY <1>2, <1>4 DEF Bill
<1>7. c.failed.model >= billed[r].failed.model /\ c.failed.speech >= billed[r].failed.speech
  BY <1>4, <1>5, <1>6
<1> HIDE DEF c
<1> QED BY <1>3, <1>6, <1>7

\* The one file that r writes, or tears, is f; the others stay.
Touches(r, f) ==
  /\ StaysIn(run[r].dir)
  /\ \A g \in Names : g # f => files'[run[r].dir][g] = files[run[r].dir][g]

\* A write, whole or torn, changes one file of the own directory.
LEMMA WritesTouches ==
  ASSUME PipelineInv, NEW r \in Runs, run[r].dir # NoDir, NEW f \in Names,
         Writes(r, f) \/ Tears(r, f),
         \A e \in RunIds : e # run[r].dir => manifest'[e] = manifest[e],
         DOMAIN manifest' = RunIds
  PROVE  Touches(r, f) /\ (Writes(r, f) => files'[run[r].dir][f] = "whole")
<1> DEFINE d == run[r].dir
<1>1. d \in RunIds /\ files \in [RunIds -> [Names -> Contents]] /\ files[d] \in [Names -> Contents]
  BY AtRun DEF PipelineInv, PipelineTyped, OnDisk
<1>2. PICK x \in Contents : /\ files' = [files EXCEPT ![d][f] = x]
                            /\ Writes(r, f) => x = "whole"
  <2>1. files[d][f] \in Contents /\ "partial" \in Contents /\ "whole" \in Contents
    BY <1>1 DEF Contents
  <2>2. CASE Writes(r, f)
    BY <2>1, <2>2 DEF Writes
  <2>3. CASE Tears(r, f) /\ ~Writes(r, f)
    BY <2>1, <2>3 DEF Tears
  <2> QED BY <2>2, <2>3
<1>3. files' = [files EXCEPT ![d] = [files[d] EXCEPT ![f] = x]]
  BY <1>1, <1>2
<1>4. [files[d] EXCEPT ![f] = x] \in [Names -> Contents]
  BY <1>1
<1> HIDE DEF d
<1>5. /\ files' \in [RunIds -> [Names -> Contents]]
      /\ files'[d] = [files[d] EXCEPT ![f] = x]
      /\ \A e \in RunIds : e # d => files'[e] = files[e]
  BY <1>1, <1>3, <1>4
<1>6. files'[d][f] = x /\ \A g \in Names : g # f => files'[d][g] = files[d][g]
  BY <1>1, <1>5
<1> QED BY <1>2, <1>5, <1>6 DEF d, Touches, StaysIn, OnDisk

\* A step that writes nothing.
LEMMA WritesNothing ==
  ASSUME PipelineInv, UNCHANGED <<files, manifest>>
  PROVE  \A d : StaysIn(d)
BY DEF StaysIn, PipelineInv, PipelineTyped

\* What a run holds in hand is nothing it has listed - but for the transcript it
\* rewrites when the audio is there - nor the words a voice is to speak.
LEMMA InHand ==
  ASSUME NEW r \in Runs, NEW f \in FileInHand(r)
  PROVE  /\ f \in Names /\ f # "manifest.json"
         /\ \/ run[r].at = "write plan" /\ f = "plan.json"
            \/ run[r].at = "write script" /\ f = "script.json"
            \/ run[r].at \in {"write transcript", "rewrite transcript"} /\ f = "transcript.md"
            \/ run[r].at = "write audio" /\ f = "episode.wav"
            \/ run[r].at = "diagnose" /\ f = "failure.json"
BY DEF FileInHand, Names

\* The lists of artifacts that grow with the stages.
LEMMA ArtifactLists ==
  /\ DOMAIN <<>> = {}
  /\ \A i \in DOMAIN <<"plan.json">> : <<"plan.json">>[i] = "plan.json"
  /\ 1 \in DOMAIN <<"plan.json">>
  /\ \A i \in DOMAIN <<"plan.json", "script.json", "transcript.md">> :
       <<"plan.json", "script.json", "transcript.md">>[i]
         \in {"plan.json", "script.json", "transcript.md"}
  /\ \A i \in DOMAIN AllArtifacts : AllArtifacts[i] \in Names \ {"failure.json"}
BY DEF AllArtifacts, Names

\* A list of artifacts is a list of names.
LEMMA NamesInSeq ==
  \A s \in Seq(Names) : \A i \in DOMAIN s : s[i] \in Names
OBVIOUS

\* The list of artifacts after the plan ...
LEMMA OneArtifact ==
  /\ Append(<<>>, "plan.json") = <<"plan.json">>
  /\ <<"plan.json">> \in Seq(Names)
<1>1. "plan.json" \in Names
  BY DEF Names
<1>2. <<>> \in Seq(Names)
  OBVIOUS
<1>3. Append(<<>>, "plan.json") = <<"plan.json">>
  OBVIOUS
<1>4. Append(<<>>, "plan.json") \in Seq(Names)
  BY ONLY <1>1, <1>2
<1> QED BY ONLY <1>3, <1>4

\* Two elements more.
LEMMA TwoMore ==
  ASSUME NEW S, NEW s \in Seq(S), NEW t \in Seq(S), Len(t) = 2
  PROVE  /\ s \o t \in Seq(S) /\ Len(s \o t) = Len(s) + 2
         /\ \A i \in 1..Len(s) : (s \o t)[i] = s[i]
         /\ (s \o t)[Len(s) + 1] = t[1] /\ (s \o t)[Len(s) + 2] = t[2]
<1> DEFINE c == s \o t
           n == Len(s)
<1>1. /\ c \in Seq(S) /\ Len(c) = Len(s) + Len(t)
      /\ \A i \in 1..Len(s) + Len(t) : c[i] = IF i <= Len(s) THEN s[i] ELSE t[i - Len(s)]
  BY ConcatProperties
<1>2. Len(s) = n /\ Len(t) = 2 /\ n \in Nat
  OBVIOUS
<1> HIDE DEF c, n
<1>3. \A i \in 1..(n + 2) : c[i] = IF i <= n THEN s[i] ELSE t[i - n]
  BY ONLY <1>1, <1>2
<1>4. /\ n + 1 \in 1..(n + 2) /\ n + 2 \in 1..(n + 2) /\ ~(n + 1 <= n) /\ ~(n + 2 <= n)
      /\ n + 1 - n = 1 /\ n + 2 - n = 2
      /\ \A i \in 1..n : i \in 1..(n + 2) /\ i <= n
  BY ONLY <1>2
<1>5. c[n + 1] = t[1] /\ c[n + 2] = t[2]
  <2>1. c[n + 1] = IF n + 1 <= n THEN s[n + 1] ELSE t[n + 1 - n]
    BY ONLY <1>2, <1>3, <1>4, SMTT(20)
  <2>2. c[n + 2] = IF n + 2 <= n THEN s[n + 2] ELSE t[n + 2 - n]
    BY ONLY <1>2, <1>3, <1>4, SMTT(20)
  <2>3. c[n + 1] = t[n + 1 - n] /\ c[n + 2] = t[n + 2 - n]
    BY <2>1, <2>2, <1>4, Zenon
  <2> QED BY <2>3, <1>4, Zenon
<1>6. \A i \in 1..n : c[i] = s[i]
  BY ONLY <1>3, <1>4
<1> QED BY <1>1, <1>2, <1>5, <1>6 DEF c, n

\* ... after the words, and after the voice.
LEMMA MoreArtifacts ==
  /\ <<"plan.json">> \o <<"script.json", "transcript.md">>
       = <<"plan.json", "script.json", "transcript.md">>
  /\ <<"plan.json", "script.json", "transcript.md">> \in Seq(Names)
  /\ <<"plan.json", "script.json", "transcript.md">> \o <<"episode.wav", "manifest.json">>
       = AllArtifacts
  /\ AllArtifacts \in Seq(Names)
<1>1. /\ "plan.json" \in Names /\ "script.json" \in Names /\ "transcript.md" \in Names
      /\ "episode.wav" \in Names /\ "manifest.json" \in Names
  BY DEF Names
<1>2. <<"plan.json", "script.json", "transcript.md">> \in Seq(Names)
  BY ONLY <1>1
<1>3. <<"plan.json", "script.json", "transcript.md", "episode.wav", "manifest.json">> \in Seq(Names)
  BY ONLY <1>1
<1>4. <<"plan.json">> \o <<"script.json", "transcript.md">>
        = <<"plan.json", "script.json", "transcript.md">>
  <2> DEFINE s == <<"plan.json">>
             t == <<"script.json", "transcript.md">>
             w == <<"plan.json", "script.json", "transcript.md">>
  <2>1. /\ s \in Seq(Names) /\ Len(s) = 1 /\ s[1] = "plan.json"
        /\ t \in Seq(Names) /\ Len(t) = 2 /\ t[1] = "script.json" /\ t[2] = "transcript.md"
    BY ONLY <1>1
  <2>2. /\ w \in Seq(Names) /\ Len(w) = 3
        /\ w[1] = "plan.json" /\ w[2] = "script.json" /\ w[3] = "transcript.md"
    BY ONLY <1>1
  <2> HIDE DEF s, t, w
  <2> DEFINE c == s \o t
  <2>3. /\ c \in Seq(Names) /\ Len(c) = Len(s) + 2
        /\ \A i \in 1..Len(s) : c[i] = s[i]
        /\ c[Len(s) + 1] = t[1] /\ c[Len(s) + 2] = t[2]
    BY ONLY <2>1, TwoMore
  <2> HIDE DEF c
  <2>4. Len(c) = 3 /\ \A i \in 1..3 : c[i] = w[i]
    BY ONLY <2>1, <2>2, <2>3
  <2>5. c = w
    BY ONLY <2>2, <2>3, <2>4, SeqEqual
  <2> QED BY <2>5 DEF c, s, t, w
<1>5. <<"plan.json", "script.json", "transcript.md">> \o <<"episode.wav", "manifest.json">>
        = <<"plan.json", "script.json", "transcript.md", "episode.wav", "manifest.json">>
  <2> DEFINE s == <<"plan.json", "script.json", "transcript.md">>
             t == <<"episode.wav", "manifest.json">>
             w == <<"plan.json", "script.json", "transcript.md", "episode.wav", "manifest.json">>
  <2>1. /\ s \in Seq(Names) /\ Len(s) = 3
        /\ s[1] = "plan.json" /\ s[2] = "script.json" /\ s[3] = "transcript.md"
        /\ t \in Seq(Names) /\ Len(t) = 2 /\ t[1] = "episode.wav" /\ t[2] = "manifest.json"
    BY ONLY <1>1
  <2>2. /\ w \in Seq(Names) /\ Len(w) = 5
        /\ w[1] = "plan.json" /\ w[2] = "script.json" /\ w[3] = "transcript.md"
        /\ w[4] = "episode.wav" /\ w[5] = "manifest.json"
    BY ONLY <1>1
  <2> HIDE DEF s, t, w
  <2> DEFINE c == s \o t
  <2>3. /\ c \in Seq(Names) /\ Len(c) = Len(s) + 2
        /\ \A i \in 1..Len(s) : c[i] = s[i]
        /\ c[Len(s) + 1] = t[1] /\ c[Len(s) + 2] = t[2]
    BY ONLY <2>1, TwoMore
  <2> HIDE DEF c
  <2>4. Len(c) = 5 /\ \A i \in 1..5 : c[i] = w[i]
    BY ONLY <2>1, <2>2, <2>3
  <2>5. c = w
    BY ONLY <2>2, <2>3, <2>4, SeqEqual
  <2> QED BY <2>5 DEF c, s, t, w
<1> QED BY <1>2, <1>3, <1>4, <1>5 DEF AllArtifacts

\* However a run fails or is killed, with whatever torn file in hand.
LEMMA EndsBadly ==
  ASSUME PipelineInv, NEW r \in Runs, run[r].dir # NoDir,
         run[r].at \notin {"exit 0", "exit 1"},
         NEW e \in {"report", "unreported", "killed"}, NEW c \in Bill,
         StepsTo(r, [run[r] EXCEPT !.at = e], c),
         c.answered.model + c.failed.model >= billed[r].answered.model + billed[r].failed.model,
         c.answered.speech + c.failed.speech >= billed[r].answered.speech + billed[r].failed.speech,
         run[r].stage = "synthesis" => c.answered.model = billed[r].answered.model,
         NEW f \in FileInHand(r) \cup {"manifest.json"}, Touches(r, f),
         manifest'[run[r].dir] = NoManifest
  PROVE  PipelineInv'
<1> DEFINE p == run[r]
           d == run[r].dir
           q == [p EXCEPT !.at = e]
           fs == files[d]
           gs == files'[d]
<1>1. /\ p \in Process /\ billed[r] \in Bill /\ Accounts(r, p, billed[r])
      /\ d \in RunIds /\ fs \in OnDisk /\ Filed(r, p, fs) /\ d # NoDir
  BY AtRun
<1>2. /\ e \notin Early \cup {"plan", "write plan", "complete", "diagnose", "exit 0", "exit 1"}
      /\ e \notin Loop \cup Words \cup Voice /\ e \in Ats
  BY DEF Early, Loop, Words, Voice, Ats
<1>3. /\ q \in Process /\ q.at = e /\ q.dir = d /\ q.stage = p.stage /\ q.usage = p.usage
      /\ q.known = p.known /\ q.beats = p.beats /\ q.reviews = p.reviews
      /\ q.artifacts = p.artifacts
  BY <1>1, <1>2 DEF Process
<1>4. /\ \A g \in Names : g # f => gs[g] = fs[g]
      /\ StaysIn(d)
  BY DEF Touches
<1>5. /\ p.usage.model \in Nat /\ p.usage.speech \in Nat
      /\ billed[r].answered.model \in Nat /\ billed[r].answered.speech \in Nat
      /\ billed[r].failed.model \in Nat /\ billed[r].failed.speech \in Nat
      /\ c.answered.model \in Nat /\ c.answered.speech \in Nat
      /\ c.failed.model \in Nat /\ c.failed.speech \in Nat
  BY <1>1 DEF Process, Bill, Usage
<1> HIDE DEF q
<1>6. Accounts(r, q, c)
  <2>1. /\ p.at \notin Early
        /\ p.usage.model <= billed[r].answered.model + billed[r].failed.model
        /\ p.usage.speech <= billed[r].answered.speech + billed[r].failed.speech
        /\ p.stage = "synthesis" => InSynthesis(r, p, billed[r])
    BY <1>1 DEF Accounts
  <2>2. /\ q.usage.model <= c.answered.model + c.failed.model
        /\ q.usage.speech <= c.answered.speech + c.failed.speech
    <3>0. /\ c.answered.model + c.failed.model >= billed[r].answered.model + billed[r].failed.model
          /\ c.answered.speech + c.failed.speech >= billed[r].answered.speech + billed[r].failed.speech
      OBVIOUS
    <3>1. /\ p.usage.model <= c.answered.model + c.failed.model
          /\ p.usage.speech <= c.answered.speech + c.failed.speech
      BY ONLY <2>1, <1>5, <3>0
    <3> QED BY <3>1, <1>3
  <2>3. q.stage = "synthesis" => InSynthesis(r, q, c)
    BY <2>1, <1>3 DEF InSynthesis
  <2> QED BY <2>2, <2>3, <1>1, <1>2, <1>3 DEF Accounts
<1>7. Filed(r, q, gs)
  <2>1. /\ \A i \in DOMAIN p.artifacts : Backed(p.artifacts[i], fs)
        /\ p.stage # "synthesis" => \A i \in DOMAIN p.artifacts : p.artifacts[i] # "transcript.md"
        /\ p.stage = "synthesis" => WordsKept(p, fs)
    BY <1>1 DEF Filed
  <2>2. \A i \in DOMAIN p.artifacts : p.artifacts[i] \in Names
    <3>1. p.artifacts \in Seq(Names)
      BY <1>1 DEF Process
    <3> QED BY <3>1, NamesInSeq
  <2>3. /\ "plan.json" \in Names /\ "script.json" \in Names /\ "transcript.md" \in Names
        /\ "episode.wav" \in Names
    BY DEF Names
  <2>4. CASE f = "manifest.json"
    <3>1. \A i \in DOMAIN p.artifacts : Backed(p.artifacts[i], gs)
      BY <2>1, <2>2, <2>3, <2>4, <1>4 DEF Backed
    <3>2. p.stage = "synthesis" => WordsKept(q, gs)
      BY <2>1, <2>3, <2>4, <1>2, <1>3, <1>4 DEF WordsKept, Voice
    <3> QED BY <2>1, <3>1, <3>2, <1>2, <1>3 DEF Filed, Words
  <2>5. CASE f \in FileInHand(r)
    <3>1. \/ p.at = "write plan" /\ f = "plan.json" /\ p.artifacts = <<>> /\ p.stage = "plan"
          \/ /\ p.at \in Words /\ f \in {"script.json", "transcript.md"}
             /\ p.artifacts = <<"plan.json">> /\ p.stage = "dialogue"
          \/ /\ p.at \in {"write audio", "rewrite transcript"} /\ f \in {"transcript.md", "episode.wav"}
             /\ p.at = "write audio" => f = "episode.wav"
             /\ p.at = "rewrite transcript" => f = "transcript.md"
             /\ p.stage = "synthesis"
          \/ p.at = "diagnose" /\ f = "failure.json" /\ p.artifacts = <<>> /\ p.stage = "plan"
      BY <2>5, <1>1, InHand DEF Accounts, Fresh, InDialogue, Voiced, Words, Voice
    <3>2. f # "manifest.json"
      BY <2>5, InHand
    <3>3. CASE p.artifacts = <<>> /\ p.stage = "plan"
      <4>1. \A i \in DOMAIN p.artifacts : FALSE
        BY <3>3, ArtifactLists
      <4> QED BY <4>1, <3>3, <1>2, <1>3 DEF Filed, Words
    <3>4. CASE f \in {"script.json", "transcript.md"} /\ p.artifacts = <<"plan.json">> /\ p.stage = "dialogue"
      <4>1. Backed("plan.json", gs)
        <5>1. Backed("plan.json", fs)
          <6>1. 1 \in DOMAIN p.artifacts /\ p.artifacts[1] = "plan.json"
            BY <3>4, ArtifactLists
          <6> QED BY <6>1, <2>1
        <5> QED BY <5>1, <2>3, <3>4, <1>4 DEF Backed
      <4>2. \A i \in DOMAIN p.artifacts : p.artifacts[i] = "plan.json"
        BY <3>4, ArtifactLists
      <4>3. \A i \in DOMAIN p.artifacts : Backed(p.artifacts[i], gs) /\ p.artifacts[i] # "transcript.md"
        BY <4>1, <4>2
      <4> QED BY <4>3, <3>4, <1>2, <1>3 DEF Filed, Words
    <3>5. CASE p.at = "write audio" /\ f = "episode.wav" /\ p.stage = "synthesis"
      <4>1. WordsKept(q, gs) /\ fs["transcript.md"] = "whole" /\ gs["transcript.md"] = "whole"
        BY <3>5, <2>1, <2>3, <1>2, <1>3, <1>4 DEF WordsKept, Voice
      <4>2. \A i \in DOMAIN p.artifacts : p.artifacts[i] \in {"plan.json", "script.json", "transcript.md"}
        <5>1. p.artifacts = <<"plan.json", "script.json", "transcript.md">>
          BY <3>5, <1>1 DEF Accounts, Voiced, Voice
        <5> QED BY <5>1, ArtifactLists
      <4>3. \A i \in DOMAIN p.artifacts : Backed(p.artifacts[i], gs)
        BY <4>1, <4>2 DEF Backed, WordsKept
      <4> QED BY <4>1, <4>3, <3>5, <1>2, <1>3 DEF Filed, Words
    <3>6. CASE p.at = "rewrite transcript" /\ f = "transcript.md" /\ p.stage = "synthesis"
      <4>1. WordsKept(q, gs) /\ gs["episode.wav"] = "whole"
        BY <3>6, <2>1, <2>3, <1>2, <1>3, <1>4 DEF WordsKept, Voice
      <4>2. \A i \in DOMAIN p.artifacts : Backed(p.artifacts[i], gs)
        BY <4>1, <2>1, <2>2, <3>6, <1>4 DEF Backed
      <4> QED BY <4>1, <4>2, <3>6, <1>2, <1>3 DEF Filed, Words
    <3> QED BY <3>1, <3>3, <3>4, <3>5, <3>6
  <2> QED BY <2>4, <2>5
<1>8. ManifestSays(r, q, manifest'[d])
  BY <1>2, <1>3 DEF ManifestSays
<1> QED BY <1>3, <1>4, <1>6, <1>7, <1>8, RunSteps DEF q

\* So does every step by which a run fails.
LEMMA FailsKeeps ==
  ASSUME PipelineInv, NEW r \in Runs, run[r].at \notin Early \cup {"exit 0", "exit 1"},
         NEW e \in {"report", "unreported", "killed"}, run' = [run EXCEPT ![r].at = e],
         \/ UNCHANGED billed
         \/ \E u \in Usage : MayCost(r, u)
         \/ \E u \in Usage : Answers(r, u) /\ run[r].stage # "synthesis",
         \/ UNCHANGED <<files, manifest>>
         \/ (\E f \in FileInHand(r) : Tears(r, f)) /\ UNCHANGED manifest
         \/ TearsManifest(r)
  PROVE  PipelineInv'
<1> DEFINE p == run[r]
           d == run[r].dir
           b == billed[r]
<1>1. /\ run \in [Runs -> Process] /\ billed \in [Runs -> Bill] /\ p \in Process /\ b \in Bill
      /\ files \in [RunIds -> OnDisk] /\ DOMAIN manifest = RunIds
      /\ d # NoDir /\ d \in RunIds /\ manifest[d] = NoManifest
  <2>1. d # NoDir
    BY AtRun DEF Accounts
  <2> QED BY <2>1, AtRun DEF PipelineInv, PipelineTyped, ManifestSays
<1>2. run' = [run EXCEPT ![r] = [run[r] EXCEPT !.at = e]]
  BY <1>1
<1>3. PICK c \in Bill :
        /\ billed' = [billed EXCEPT ![r] = c]
        /\ c.answered.model + c.failed.model >= b.answered.model + b.failed.model
        /\ c.answered.speech + c.failed.speech >= b.answered.speech + b.failed.speech
        /\ run[r].stage = "synthesis" => c.answered.model = b.answered.model
  <2>0. /\ b.answered.model \in Nat /\ b.answered.speech \in Nat
        /\ b.failed.model \in Nat /\ b.failed.speech \in Nat
        /\ \A c \in Bill : c.failed.model \in Nat /\ c.failed.speech \in Nat
    BY <1>1 DEF Bill, Usage
  <2>1. CASE UNCHANGED billed
    <3>1. billed' = [billed EXCEPT ![r] = b]
      BY <2>1, <1>1
    <3>2. /\ b.answered.model + b.failed.model >= b.answered.model + b.failed.model
          /\ b.answered.speech + b.failed.speech >= b.answered.speech + b.failed.speech
      BY ONLY <2>0
    <3>3. b \in Bill
      BY <1>1
    <3> WITNESS b \in Bill
    <3> QED BY <3>1, <3>2
  <2>2. CASE \E u \in Usage : MayCost(r, u)
    <3>1. PICK c \in Bill : /\ billed' = [billed EXCEPT ![r] = c]
                            /\ c.answered = b.answered
                            /\ c.failed.model >= b.failed.model
                            /\ c.failed.speech >= b.failed.speech
      BY <2>2, <1>1, MayCostBills
    <3>2. /\ c.answered.model + c.failed.model >= b.answered.model + b.failed.model
          /\ c.answered.speech + c.failed.speech >= b.answered.speech + b.failed.speech
      BY ONLY <3>1, <2>0
    <3> QED BY <3>1, <3>2
  <2>3. CASE \E u \in Usage : Answers(r, u) /\ run[r].stage # "synthesis"
    <3>1. PICK u \in Usage : Answers(r, u) /\ run[r].stage # "synthesis"
      BY <2>3
    <3>a. Answers(r, u) /\ billed \in [Runs -> Bill]
      BY <3>1, <1>1
    <3>2. PICK c \in Bill : /\ billed' = [billed EXCEPT ![r] = c]
                            /\ c.answered.model = b.answered.model + u.model
                            /\ c.answered.speech = b.answered.speech + u.speech
                            /\ c.answered = AddUsage(b.answered, u)
                            /\ c.failed = b.failed
      BY ONLY <3>a, AnswersBills
    <3>3. u.model \in Nat /\ u.speech \in Nat
      BY UsageAdds
    <3>4. /\ c.answered.model + c.failed.model >= b.answered.model + b.failed.model
          /\ c.answered.speech + c.failed.speech >= b.answered.speech + b.failed.speech
      BY ONLY <3>2, <3>3, <2>0
    <3> WITNESS c \in Bill
    <3> QED BY <3>1, <3>2, <3>4
  <2> QED BY <2>1, <2>2, <2>3
<1>4. StepsTo(r, [run[r] EXCEPT !.at = e], c)
  BY <1>2, <1>3 DEF StepsTo
<1>5. PICK f \in FileInHand(r) \cup {"manifest.json"} :
        Touches(r, f) /\ manifest'[d] = NoManifest
  <2>1. CASE UNCHANGED <<files, manifest>>
    <3>1. Touches(r, "manifest.json")
      BY <2>1, WritesNothing DEF Touches
    <3> QED BY <2>1, <3>1, <1>1
  <2>2. CASE (\E f \in FileInHand(r) : Tears(r, f)) /\ UNCHANGED manifest
    <3>1. PICK f \in FileInHand(r) : Tears(r, f)
      BY <2>2
    <3>2. f \in Names
      BY InHand
    <3>3. Touches(r, f)
      BY <2>2, <3>1, <3>2, <1>1, WritesTouches
    <3> QED BY <2>2, <3>3, <1>1
  <2>3. CASE TearsManifest(r)
    <3>1. /\ Tears(r, "manifest.json")
          /\ manifest' = manifest \/ manifest' = [manifest EXCEPT ![d] = NoManifest]
      BY <2>3 DEF TearsManifest, Tears
    <3>2. /\ DOMAIN manifest' = RunIds /\ manifest'[d] = NoManifest
          /\ \A x \in RunIds : x # d => manifest'[x] = manifest[x]
      BY <3>1, <1>1
    <3>3. "manifest.json" \in Names
      BY DEF Names
    <3>4. Touches(r, "manifest.json")
      BY <3>1, <3>2, <3>3, <1>1, WritesTouches
    <3> QED BY <3>2, <3>4
  <2> QED BY <2>1, <2>2, <2>3
<1> QED BY <1>1, <1>3, <1>4, <1>5, EndsBadly

-----------------------------------------------------------------------------
(* Before and in the plan *)

\* A dry run, a refused configuration: nothing is reserved.
LEMMA DeclinesKeeps ==
  ASSUME PipelineInv, NEW r \in Runs, Declines(r) PROVE PipelineInv'
<1>1. PICK code \in {"exit 0 early", "exit 2"} : run' = [run EXCEPT ![r].at = code]
  BY DEF Declines
<1> DEFINE p == run[r]
           q == [p EXCEPT !.at = code]
<1>2. /\ p.at = "start" /\ p \in Process /\ billed[r] \in Bill /\ Accounts(r, p, billed[r])
      /\ run \in [Runs -> Process] /\ UNCHANGED <<files, manifest, billed>>
      /\ billed \in [Runs -> Bill]
  BY AtRun DEF Declines, PipelineInv, PipelineTyped
<1>3. StepsTo(r, q, billed[r])
  BY <1>1, <1>2 DEF StepsTo
<1>4. /\ q \in Process /\ q.at = code /\ q.dir = p.dir /\ q.stage = p.stage /\ q.usage = p.usage
  BY <1>2 DEF Process, Ats, Early
<1> HIDE DEF q
<1>5. p.dir = NoDir /\ p.stage = "plan"
  BY <1>2 DEF Accounts, Early, Fresh
<1>6. Accounts(r, q, billed[r])
  BY <1>2, <1>4, <1>5 DEF Accounts, Early, Loop, Words, Voice
<1>7. StaysIn(q.dir)
  BY <1>2, WritesNothing
<1> QED BY <1>2, <1>3, <1>4, <1>5, <1>6, <1>7, RunSteps

\* The directory is made: a fresh one, that nobody else has.
LEMMA ReservesKeeps ==
  ASSUME PipelineInv, NEW r \in Runs, Reserves(r) PROVE PipelineInv'
<1> DEFINE p == run[r]
<1>1. /\ p.at = "start" /\ p \in Process /\ billed[r] \in Bill /\ Accounts(r, p, billed[r])
      /\ run \in [Runs -> Process] /\ UNCHANGED <<files, manifest, billed>>
      /\ billed \in [Runs -> Bill] /\ files \in [RunIds -> OnDisk]
  BY AtRun DEF Reserves, PipelineInv, PipelineTyped
<1>2. /\ p.dir = NoDir /\ Fresh(p) /\ p.pending = ZeroUsage
      /\ billed[r] = [answered |-> ZeroUsage, failed |-> ZeroUsage]
  BY <1>1 DEF Accounts, Early
<1>3. ASSUME NEW d \in RunIds, Free(d), run' = [run EXCEPT ![r].dir = d, ![r].at = "plan"]
      PROVE  PipelineInv'
  <2> DEFINE q == [p EXCEPT !.dir = d, !.at = "plan"]
  <2>1. StepsTo(r, q, billed[r])
    BY <1>1, <1>3 DEF StepsTo
  <2>2. /\ q \in Process /\ q.at = "plan" /\ q.dir = d /\ q.pending = p.pending
        /\ q.usage = p.usage /\ Fresh(q)
    BY <1>1, <1>2 DEF Process, Ats, Fresh
  <2> HIDE DEF q
  <2>3. d # NoDir
    BY PipelineAssumption
  <2>4. Accounts(r, q, billed[r])
    <3>1. q.usage.model <= billed[r].answered.model + billed[r].failed.model
          /\ q.usage.speech <= billed[r].answered.speech + billed[r].failed.speech
      BY <1>2, <2>2, UsageAdds DEF Fresh
    <3> QED BY <3>1, <1>2, <2>2, <2>3 DEF Accounts, Early, Loop, Words, Voice, Fresh
  <2>5. Filed(r, q, files'[d])
    <3>1. \A i \in DOMAIN q.artifacts : FALSE
      BY <2>2, ArtifactLists DEF Fresh
    <3> QED BY <3>1, <2>2 DEF Filed, Fresh
  <2>6. ManifestSays(r, q, manifest'[d])
    <3>1. manifest[d] = NoManifest
      BY <1>3 DEF PipelineInv, OwnDirs
    <3> QED BY <3>1, <1>1, <2>2 DEF ManifestSays
  <2>7. StaysIn(q.dir)
    BY <1>1, WritesNothing
  <2> QED BY <1>1, <1>2, <1>3, <2>1, <2>2, <2>4, <2>5, <2>6, <2>7, RunSteps
<1>4. ASSUME run' = [run EXCEPT ![r].at = "refused"]
      PROVE  PipelineInv'
  <2> DEFINE q == [p EXCEPT !.at = "refused"]
  <2>1. StepsTo(r, q, billed[r])
    BY <1>1, <1>4 DEF StepsTo
  <2>2. /\ q \in Process /\ q.at = "refused" /\ q.dir = p.dir /\ q.stage = p.stage /\ q.usage = p.usage
    BY <1>1 DEF Process, Ats, Early
  <2> HIDE DEF q
  <2>3. Accounts(r, q, billed[r])
    BY <1>1, <1>2, <2>2 DEF Accounts, Early, Loop, Words, Voice, Fresh
  <2>4. StaysIn(q.dir)
    BY <1>1, WritesNothing
  <2> QED BY <1>1, <1>2, <2>1, <2>2, <2>3, <2>4, RunSteps
<1> QED BY <1>3, <1>4 DEF Reserves

\* A run that neither writes nor lists anything new, and is not at its end: its
\* files are as they have to be if they were.
LEMMA FilesAsBefore ==
  ASSUME NEW r, NEW p \in Process, NEW q \in Process, NEW fs \in OnDisk, Filed(r, p, fs),
         q.artifacts = p.artifacts, q.stage = p.stage,
         q.at \notin {"write transcript", "rewrite transcript", "complete", "exit 0", "exit 1"},
         q.at \in {"speak", "write audio"} => p.at \in {"speak", "write audio"}
  PROVE  Filed(r, q, fs)
BY DEF Filed, WordsKept

\* A model answers with a plan.
LEMMA PlanAnsweredKeeps ==
  ASSUME PipelineInv, NEW r \in Runs, PlanAnswered(r) PROVE PipelineInv'
<1> DEFINE p == run[r]
           b == billed[r]
<1>1. /\ p.at = "plan" /\ p \in Process /\ b \in Bill /\ Accounts(r, p, b)
      /\ run \in [Runs -> Process] /\ billed \in [Runs -> Bill]
      /\ Answers(r, ModelCall) /\ UNCHANGED <<files, manifest>>
  BY AtRun DEF PlanAnswered, PipelineInv, PipelineTyped
<1>2. PICK n \in 1..MaxBeats :
        run' = [run EXCEPT ![r].at = "write plan", ![r].beats = n, ![r].pending = ModelCall]
  BY DEF PlanAnswered
<1>3. /\ p.dir # NoDir /\ Fresh(p) /\ b = [answered |-> ZeroUsage, failed |-> ZeroUsage]
      /\ p.dir \in RunIds /\ files[p.dir] \in OnDisk /\ Filed(r, p, files[p.dir])
      /\ ManifestSays(r, p, manifest[p.dir])
  BY <1>1, AtRun DEF Accounts, Early
<1> DEFINE q == [p EXCEPT !.at = "write plan", !.beats = n, !.pending = ModelCall]
           c == [answered |-> ModelCall, failed |-> ZeroUsage]
<1>4. StepsTo(r, q, c)
  <2>1. run' = [run EXCEPT ![r] = q]
    BY <1>1, <1>2
  <2>2. ModelCall \in Usage
    BY UsageAdds
  <2>3. PICK x \in Bill : /\ billed' = [billed EXCEPT ![r] = x]
                          /\ x.answered = AddUsage(b.answered, ModelCall)
                          /\ x.failed = b.failed
    BY <1>1, <2>2, AnswersBills
  <2>4. AddUsage(ZeroUsage, ModelCall) = ModelCall
    BY DEF AddUsage, ZeroUsage, ModelCall
  <2>5. x.answered = ModelCall /\ x.failed = ZeroUsage
    BY <2>3, <2>4, <1>3
  <2>6. x = c
    BY <2>5 DEF Bill
  <2> QED BY <2>1, <2>3, <2>6 DEF StepsTo
<1>5. /\ q \in Process /\ q.at = "write plan" /\ q.dir = p.dir /\ q.pending = ModelCall
      /\ q.usage = p.usage /\ q.beats = n /\ q.artifacts = p.artifacts /\ q.stage = p.stage
      /\ Fresh(q)
  <2>1. ModelCall \in Usage /\ n \in 0..MaxBeats /\ "write plan" \in Ats
    BY UsageAdds, PipelineAssumption DEF Ats
  <2> QED BY <1>1, <1>3, <2>1 DEF Process, Fresh
<1>6. c \in Bill
  BY UsageAdds DEF Bill
<1> HIDE DEF q
<1>7. Accounts(r, q, c)
  <2>1. /\ q.usage.model <= c.answered.model + c.failed.model
        /\ q.usage.speech <= c.answered.speech + c.failed.speech
    <3>1. q.usage = ZeroUsage /\ c.answered = ModelCall /\ c.failed = ZeroUsage
      BY <1>3, <1>5 DEF Fresh
    <3>2. /\ ZeroUsage.model = 0 /\ ZeroUsage.speech = 0
          /\ ModelCall.model = 1 /\ ModelCall.speech = 0
      BY UsageAdds
    <3> HIDE DEF c
    <3> QED BY ONLY <3>1, <3>2
  <2>2. 1 <= q.beats
    <3>1. 1 <= n
      <4>1. n \in 1..MaxBeats /\ MaxBeats \in Nat
        BY <1>2, PipelineAssumption
      <4> QED BY ONLY <4>1
    <3> QED BY <3>1, <1>5
  <2> QED BY <2>1, <2>2, <1>3, <1>5 DEF Accounts, Early, Loop, Words, Voice, Fresh
<1>8. Filed(r, q, files'[q.dir]) /\ ManifestSays(r, q, manifest'[q.dir])
  <2>1. Filed(r, q, files[p.dir])
    BY <1>1, <1>3, <1>5, FilesAsBefore
  <2> QED BY <2>1, <1>1, <1>3, <1>5 DEF ManifestSays
<1>9. StaysIn(q.dir)
  BY <1>1, WritesNothing
<1> QED BY <1>4, <1>5, <1>6, <1>7, <1>8, <1>9, RunSteps

\* A model answers with something else, which was paid for.
LEMMA PlanUnusableKeeps ==
  ASSUME PipelineInv, NEW r \in Runs, PlanUnusable(r) PROVE PipelineInv'
<1> DEFINE p == run[r]
           b == billed[r]
<1>1. /\ p.at = "plan" /\ p \in Process /\ b \in Bill /\ Accounts(r, p, b)
      /\ run \in [Runs -> Process] /\ billed \in [Runs -> Bill]
      /\ UNCHANGED <<files, manifest>>
  BY AtRun DEF PlanUnusable, PipelineInv, PipelineTyped
<1>2. PICK carried \in BOOLEAN :
        /\ run' = [run EXCEPT ![r].at = "diagnose", ![r].carried = carried]
        /\ billed' = [billed EXCEPT ![r].failed = ModelCall]
  BY DEF PlanUnusable, FailsDiagnosably
<1>3. /\ p.dir # NoDir /\ Fresh(p) /\ b = [answered |-> ZeroUsage, failed |-> ZeroUsage]
      /\ p.dir \in RunIds /\ files[p.dir] \in OnDisk /\ Filed(r, p, files[p.dir])
      /\ ManifestSays(r, p, manifest[p.dir])
  BY <1>1, AtRun DEF Accounts, Early
<1> DEFINE q == [p EXCEPT !.at = "diagnose", !.carried = carried]
           c == [answered |-> ZeroUsage, failed |-> ModelCall]
<1>4. StepsTo(r, q, c)
  <2>1. run' = [run EXCEPT ![r] = q]
    BY <1>1, <1>2
  <2>2. [b EXCEPT !.failed = ModelCall] = c
    BY <1>3
  <2>3. billed' = [billed EXCEPT ![r] = [b EXCEPT !.failed = ModelCall]]
    BY <1>1, <1>2
  <2> QED BY <2>1, <2>2, <2>3 DEF StepsTo
<1>5. /\ q \in Process /\ q.at = "diagnose" /\ q.dir = p.dir
      /\ q.usage = p.usage /\ q.artifacts = p.artifacts /\ q.stage = p.stage
      /\ Fresh(q)
  BY <1>1, <1>3 DEF Process, Fresh, Ats
<1>6. c \in Bill
  BY UsageAdds DEF Bill
<1> HIDE DEF q
<1>7. Accounts(r, q, c)
  <2>1. /\ q.usage.model <= c.answered.model + c.failed.model
        /\ q.usage.speech <= c.answered.speech + c.failed.speech
    BY <1>3, <1>5, UsageAdds DEF Fresh
  <2> QED BY <2>1, <1>3, <1>5 DEF Accounts, Early, Loop, Words, Voice, Fresh
<1>8. Filed(r, q, files'[q.dir]) /\ ManifestSays(r, q, manifest'[q.dir])
  <2>1. Filed(r, q, files[p.dir])
    BY <1>1, <1>3, <1>5, FilesAsBefore
  <2> QED BY <2>1, <1>1, <1>3, <1>5 DEF ManifestSays
<1>9. StaysIn(q.dir)
  BY <1>1, WritesNothing
<1> QED BY <1>4, <1>5, <1>6, <1>7, <1>8, <1>9, RunSteps

\* The plan is on disk: `create` goes on to the dialogue, `plan` to its manifest.
LEMMA PlanWrittenKeeps ==
  ASSUME PipelineInv, NEW r \in Runs, run[r].at = "write plan", Writes(r, "plan.json"),
         IF r \in CreateRuns THEN PlanReported(r) ELSE PlanCommandDone(r),
         UNCHANGED <<manifest, billed>>
  PROVE  PipelineInv'
<1> DEFINE p == run[r]
           d == run[r].dir
           b == billed[r]
           fs == files[d]
           gs == files'[d]
<1>1. /\ p \in Process /\ b \in Bill /\ Accounts(r, p, b) /\ run \in [Runs -> Process]
      /\ billed \in [Runs -> Bill] /\ DOMAIN manifest = RunIds
  BY AtRun DEF PipelineInv, PipelineTyped
<1>2. /\ d # NoDir /\ Fresh(p) /\ p.pending = ModelCall /\ 1 <= p.beats
      /\ b = [answered |-> ModelCall, failed |-> ZeroUsage]
      /\ p.beat \in 1..MaxBeats /\ p.beats \in 0..MaxBeats
  BY <1>1 DEF Accounts, Early, Process
<1>3. d \in RunIds /\ fs \in OnDisk /\ Filed(r, p, fs) /\ ManifestSays(r, p, manifest[d])
  BY <1>2, AtRun
<1>4. "plan.json" \in Names
  BY DEF Names
<1>5. Touches(r, "plan.json") /\ gs["plan.json"] = "whole"
  BY <1>1, <1>2, <1>4, WritesTouches
<1>6. /\ b.answered = ModelCall /\ b.failed = ZeroUsage
      /\ ModelCall.model = 1 /\ ModelCall.speech = 0 /\ ZeroUsage.model = 0 /\ ZeroUsage.speech = 0
      /\ AddUsage(ZeroUsage, ModelCall) = ModelCall /\ ModelCall \in Usage /\ ZeroUsage \in Usage
  <2>1. AddUsage(ZeroUsage, ModelCall) = ModelCall
    BY ONLY DEF AddUsage, ZeroUsage, ModelCall
  <2>2. b.answered = ModelCall /\ b.failed = ZeroUsage
    <3>1. b = [answered |-> ModelCall, failed |-> ZeroUsage]
      BY <1>2
    <3> HIDE DEF b
    <3> QED BY ONLY <3>1
  <2> QED BY ONLY <2>1, <2>2, UsageAdds
<1>7. CASE r \in CreateRuns
  <2> DEFINE q == [p EXCEPT !.at = "beat", !.stage = "dialogue",
                            !.artifacts = <<"plan.json">>, !.usage = ModelCall,
                            !.known = TRUE, !.pending = ZeroUsage]
  <2>1. run' = [run EXCEPT ![r] = q]
    <3>1. run' = [run EXCEPT ![r].at = "beat", ![r].stage = "dialogue",
                    ![r].artifacts = Append(p.artifacts, "plan.json"),
                    ![r].usage = AddUsage(p.usage, p.pending), ![r].known = TRUE,
                    ![r].pending = ZeroUsage]
      BY <1>1, <1>7 DEF PlanReported
    <3>2. Append(p.artifacts, "plan.json") = <<"plan.json">>
      BY <1>2, OneArtifact DEF Fresh
    <3>3. AddUsage(p.usage, p.pending) = ModelCall
      BY <1>2, <1>6 DEF Fresh
    <3> QED BY <1>1, <3>1, <3>2, <3>3
  <2>2. StepsTo(r, q, b)
    BY <1>1, <2>1 DEF StepsTo
  <2>3. /\ q \in Process /\ q.at = "beat" /\ q.dir = d /\ q.stage = "dialogue"
        /\ q.artifacts = <<"plan.json">> /\ q.usage = ModelCall /\ q.known = TRUE
        /\ q.pending = ZeroUsage /\ q.beat = 1 /\ q.beats = p.beats /\ q.reviews = <<>>
    <3>1. <<"plan.json">> \in Seq(Names) /\ "beat" \in Ats
      BY OneArtifact DEF Ats, Loop
    <3> QED BY <1>1, <1>2, <1>6, <3>1 DEF Process, Fresh
  <2> HIDE DEF q
  <2>4. InDialogue(r, q, b)
    BY <1>6, <1>7, <2>3 DEF InDialogue
  <2>5. InLoop(r, q, b)
    <3>1. ReviewSummary(q.reviews) = [reviewed |-> 0, revised |-> 0, unfixed |-> 0, unchecked |-> 0]
      BY <2>3, SummaryOfNone
    <3>2. PaysFor(0, 0, ReviewSummary(q.reviews))
      <4> DEFINE t == ReviewSummary(q.reviews)
      <4>1. t.reviewed = 0 /\ t.revised = 0 /\ t.unfixed = 0
        BY ONLY <3>1
      <4> HIDE DEF t
      <4>2. PaysFor(0, 0, t)
        BY ONLY <4>1 DEF PaysFor
      <4> QED BY <4>2 DEF t
    <3>3. /\ q.at = "beat" /\ q.beat = 1 /\ 1 <= q.beats /\ q.pending.model = 0
          /\ b.answered.model = 1
      BY <1>2, <1>6, <2>3
    <3>4. /\ b.answered.model = 1 + q.pending.model + 0 /\ q.beat - 1 = 0
      BY ONLY <3>3
    <3> QED BY ONLY <3>1, <3>2, <3>3, <3>4 DEF InLoop
  <2>6. Accounts(r, q, b)
    <3>1. /\ q.usage.model <= b.answered.model + b.failed.model
          /\ q.usage.speech <= b.answered.speech + b.failed.speech
      <4>1. q.usage = b.answered /\ b.answered = ModelCall /\ b.failed = ZeroUsage
        BY <1>6, <2>3
      <4> QED BY ONLY <1>6, <4>1
    <3> QED BY ONLY <1>2, <2>3, <2>4, <2>5, <3>1 DEF Accounts, Early, Loop, Words, Voice
  <2>7. Filed(r, q, gs)
    <3>1. \A i \in DOMAIN q.artifacts : q.artifacts[i] = "plan.json"
      BY <2>3, ArtifactLists
    <3> QED BY <3>1, <1>5, <2>3 DEF Filed, Backed
  <2>8. ManifestSays(r, q, manifest'[d])
    BY <1>3, <2>3 DEF ManifestSays
  <2> QED BY <1>1, <1>5, <2>2, <2>3, <2>6, <2>7, <2>8, RunSteps DEF Touches
<1>8. CASE r \notin CreateRuns
  <2> DEFINE q == [p EXCEPT !.at = "complete", !.usage = ModelCall, !.pending = ZeroUsage]
  <2>1. run' = [run EXCEPT ![r] = q]
    <3>1. run' = [run EXCEPT ![r].at = "complete", ![r].usage = p.pending,
                             ![r].pending = ZeroUsage]
      BY <1>1, <1>8 DEF PlanCommandDone
    <3> QED BY <1>1, <1>2, <3>1
  <2>2. StepsTo(r, q, b)
    BY <1>1, <2>1 DEF StepsTo
  <2>3. /\ q \in Process /\ q.at = "complete" /\ q.dir = d /\ q.stage = "plan"
        /\ q.artifacts = <<>> /\ q.usage = ModelCall
    <3>1. "complete" \in Ats
      BY DEF Ats
    <3> QED BY <1>1, <1>2, <1>6, <3>1 DEF Process, Fresh
  <2> HIDE DEF q
  <2>4. Accounts(r, q, b)
    <3>0. q.usage = b.answered /\ b.answered = ModelCall /\ b.failed = ZeroUsage
      BY <1>6, <2>3
    <3>1. /\ q.usage.model <= b.answered.model + b.failed.model
          /\ q.usage.speech <= b.answered.speech + b.failed.speech
      BY ONLY <1>6, <3>0
    <3> QED BY ONLY <1>2, <1>8, <2>3, <3>0, <3>1 DEF Accounts, Early, Loop, Words, Voice
  <2>5. Filed(r, q, gs)
    <3>1. \A i \in DOMAIN q.artifacts : FALSE
      BY <2>3, ArtifactLists
    <3> QED BY <3>1, <1>5, <1>8, <2>3 DEF Filed
  <2>6. ManifestSays(r, q, manifest'[d])
    BY <1>3, <2>3 DEF ManifestSays
  <2> QED BY <1>1, <1>5, <2>2, <2>3, <2>4, <2>5, <2>6, RunSteps DEF Touches
<1> QED BY <1>7, <1>8

-----------------------------------------------------------------------------
(* The dialogue *)

\* A step within the dialogue, or to its end, which writes nothing.
LEMMA DialogueKeeps ==
  ASSUME PipelineInv, NEW r \in Runs, run[r].at \in Loop,
         NEW q \in Process, NEW c \in Bill, StepsTo(r, q, c), UNCHANGED <<files, manifest>>,
         q.dir = run[r].dir, q.artifacts = run[r].artifacts, InDialogue(r, q, c),
         \/ q.at \in Loop /\ InLoop(r, q, c)
         \/ q.at = "write script" /\ HasWords(r, q, c)
  PROVE  PipelineInv'
<1> DEFINE p == run[r]
           d == run[r].dir
<1>1. /\ p \in Process /\ billed[r] \in Bill /\ Accounts(r, p, billed[r])
      /\ p.at \notin Early /\ p.at \notin {"exit 0", "exit 1"}
  BY AtRun DEF Loop, Early
<1>2. d # NoDir /\ p.stage = "dialogue"
  BY <1>1 DEF Accounts, InDialogue
<1>3. d \in RunIds /\ files[d] \in OnDisk /\ Filed(r, p, files[d]) /\ ManifestSays(r, p, manifest[d])
  BY <1>2, AtRun
<1>4. /\ q.at \in Loop \cup {"write script"}
      /\ q.at \notin Early \cup {"write plan", "write transcript"} \cup Voice
      /\ q.at \notin {"start", "plan", "complete", "exit 0", "exit 1", "diagnose"}
  BY DEF Loop, Early, Voice
<1>5. Accounts(r, q, c)
  <2>1. /\ q.usage.model = 1 /\ q.usage.speech = 0 /\ q.stage = "dialogue"
        /\ q.pending.model \in Nat
        /\ c.answered.model \in Nat /\ c.answered.speech \in Nat
        /\ c.failed.model \in Nat /\ c.failed.speech \in Nat
    BY UsageAdds DEF InDialogue, Process, Bill, Usage
  <2>2. \/ c.answered.model = 1 + q.pending.model
        \/ c.answered.model = 1 + q.pending.model + 0
        \/ c.answered.model = 1 + q.pending.model + 1
    BY DEF InLoop, HasWords
  <2>3. /\ q.usage.model <= c.answered.model + c.failed.model
        /\ q.usage.speech <= c.answered.speech + c.failed.speech
    BY ONLY <2>1, <2>2
  <2>4. q.at \in Words => q.at = "write script"
    BY <1>4 DEF Loop, Words
  <2>5. q.at \in Loop => InLoop(r, q, c)
    BY DEF Loop
  <2>6. q.at = "write script" => HasWords(r, q, c)
    BY DEF Loop
  <2> QED BY <2>1, <2>3, <2>4, <2>5, <2>6, <1>2, <1>4 DEF Accounts
<1>6. Filed(r, q, files[d])
  <2>1. q.stage = p.stage
    BY <1>2 DEF InDialogue
  <2> QED BY <2>1, <1>1, <1>3, <1>4, FilesAsBefore DEF Voice
<1>7. ManifestSays(r, q, manifest[d])
  BY <1>1, <1>3, <1>4 DEF ManifestSays
<1>8. StaysIn(d)
  BY WritesNothing
<1> QED BY <1>5, <1>6, <1>7, <1>8, RunSteps

\* What is known of a run in its dialogue.
LEMMA InTheDialogue ==
  ASSUME PipelineInv, NEW r \in Runs, run[r].at \in Loop
  PROVE  /\ run[r] \in Process /\ billed[r] \in Bill
         /\ run \in [Runs -> Process] /\ billed \in [Runs -> Bill]
         /\ InDialogue(r, run[r], billed[r]) /\ InLoop(r, run[r], billed[r])
         /\ run[r].beats \in 0..MaxBeats /\ run[r].beat \in 1..MaxBeats
         /\ run[r].reviews \in Seq(Review)
         /\ run[r].pending \in Usage /\ run[r].pending.model \in Nat
         /\ ReviewSummary(run[r].reviews) \in Summary
<1>1. /\ run[r] \in Process /\ billed[r] \in Bill /\ Accounts(r, run[r], billed[r])
      /\ run \in [Runs -> Process] /\ billed \in [Runs -> Bill]
  BY AtRun DEF PipelineInv, PipelineTyped
<1>2. /\ run[r].beats \in 0..MaxBeats /\ run[r].beat \in 1..MaxBeats
      /\ run[r].reviews \in Seq(Review) /\ run[r].pending \in Usage
  BY <1>1 DEF Process
<1>3. run[r].pending.model \in Nat
  BY <1>2, UsageAdds
<1>4. CleanEntry \in Review
  BY <1>2, PipelineAssumption DEF CleanEntry, Review
<1>5. ReviewSummary(run[r].reviews) \in Summary
  BY <1>2, <1>4, SummaryOfOneMore
<1> QED BY <1>1, <1>2, <1>3, <1>5 DEF Accounts

\* A beat is done: all of its calls are paid for, and the next one, or the
\* script, comes.
LEMMA BeatDoneKeeps ==
  ASSUME PipelineInv, NEW r \in Runs, run[r].at \in Loop,
         NEW q \in Process, NEW c \in Bill, StepsTo(r, BeatDone(q), c),
         UNCHANGED <<files, manifest>>,
         q.dir = run[r].dir, q.artifacts = run[r].artifacts, InDialogue(r, q, c),
         q.beat = run[r].beat, q.beats = run[r].beats,
         c.answered.model = 1 + q.pending.model,
         PaysFor(q.pending.model, q.beat, ReviewSummary(q.reviews)),
         LET s == ReviewSummary(q.reviews)
         IN  s.reviewed + s.unchecked = IF Reviews(r) THEN q.beat ELSE 0
  PROVE  PipelineInv'
<1> DEFINE s == ReviewSummary(q.reviews)
<1>1. /\ q.beat \in Nat /\ q.beats \in Nat /\ q.beat <= q.beats /\ 1 <= q.beat
      /\ q.beats <= MaxBeats /\ MaxBeats \in Nat /\ q.pending.model \in Nat
  <2>1. q.beat \in 1..MaxBeats /\ q.beats \in 0..MaxBeats /\ MaxBeats \in Nat
    BY PipelineAssumption, InTheDialogue
  <2>2. q.beat <= q.beats
    BY InTheDialogue DEF InLoop
  <2>3. q.pending.model \in Nat
    BY DEF Process, Usage
  <2> QED BY ONLY <2>1, <2>2, <2>3
<1>2. CASE q.beat = q.beats
  <2> DEFINE t == [q EXCEPT !.at = "write script"]
  <2>1. BeatDone(q) = t
    BY <1>2 DEF BeatDone
  <2>2. /\ t \in Process /\ t.at = "write script" /\ t.dir = q.dir /\ t.artifacts = q.artifacts
        /\ t.stage = q.stage /\ t.known = q.known /\ t.usage = q.usage
        /\ t.pending = q.pending /\ t.beats = q.beats /\ t.reviews = q.reviews
    BY DEF Process, Ats, Words
  <2>3. StepsTo(r, t, c)
    BY <2>1
  <2> HIDE DEF t
  <2>4. InDialogue(r, t, c) /\ HasWords(r, t, c)
    BY <2>2, <1>1, <1>2 DEF InDialogue, HasWords
  <2> QED BY <2>2, <2>3, <2>4, DialogueKeeps
<1>3. CASE q.beat # q.beats
  <2> DEFINE t == [q EXCEPT !.at = "beat", !.beat = q.beat + 1]
  <2>1. BeatDone(q) = t
    BY <1>3 DEF BeatDone
  <2>2. q.beat + 1 \in 1..MaxBeats /\ q.beat + 1 <= q.beats /\ q.beat + 1 - 1 = q.beat
    BY ONLY <1>1, <1>3
  <2>3. /\ t \in Process /\ t.at = "beat" /\ t.dir = q.dir /\ t.artifacts = q.artifacts
        /\ t.stage = q.stage /\ t.known = q.known /\ t.usage = q.usage
        /\ t.pending = q.pending /\ t.beats = q.beats /\ t.reviews = q.reviews
        /\ t.beat = q.beat + 1
    BY <2>2 DEF Process, Ats, Loop
  <2>4. StepsTo(r, t, c)
    BY <2>1
  <2> HIDE DEF t
  <2>5. InDialogue(r, t, c)
    BY <2>3 DEF InDialogue
  <2>6. InLoop(r, t, c)
    <3>1. /\ c.answered.model = 1 + q.pending.model + 0
          /\ PaysFor(t.pending.model, t.beat - 1, s)
          /\ s.reviewed + s.unchecked = IF Reviews(r) THEN t.beat - 1 ELSE 0
      BY <1>1, <2>2, <2>3
    <3> HIDE DEF s
    <3>2. ReviewSummary(t.reviews) = s
      BY <2>3 DEF s
    <3> QED BY ONLY <2>2, <2>3, <3>1, <3>2 DEF InLoop
  <2>7. t.at \in Loop
    BY <2>3 DEF Loop
  <2> QED BY <2>3, <2>4, <2>5, <2>6, <2>7, DialogueKeeps
<1> QED BY <1>2, <1>3

\* A beat is written and goes to its review, or not if reviews are skipped.
LEMMA BeatWrittenKeeps ==
  ASSUME PipelineInv, NEW r \in Runs, BeatWritten(r) PROVE PipelineInv'
<1> DEFINE p == run[r]
           b == billed[r]
           s == ReviewSummary(p.reviews)
           u == AddUsage(p.pending, ModelCall)
           q == [p EXCEPT !.pending = u]
<1>1. p.at = "beat" /\ p.at \in Loop /\ Answers(r, ModelCall) /\ UNCHANGED <<files, manifest>>
  BY DEF BeatWritten, Loop
<1>2. /\ p \in Process /\ b \in Bill /\ run \in [Runs -> Process] /\ billed \in [Runs -> Bill]
      /\ InDialogue(r, p, b) /\ InLoop(r, p, b) /\ p.pending \in Usage
      /\ p.beat \in 1..MaxBeats /\ p.beats \in 0..MaxBeats /\ s \in Summary
  BY <1>1, InTheDialogue
<1>3. /\ ModelCall \in Usage /\ ModelCall.model = 1 /\ ModelCall.speech = 0
  BY UsageAdds
<1>4. PICK c \in Bill : /\ billed' = [billed EXCEPT ![r] = c]
                        /\ c.answered.model = b.answered.model + ModelCall.model
                        /\ c.answered.speech = b.answered.speech + ModelCall.speech
                        /\ c.answered = AddUsage(b.answered, ModelCall)
                        /\ c.failed = b.failed
  BY <1>1, <1>2, <1>3, AnswersBills
<1>5. u \in Usage /\ u.model = p.pending.model + 1 /\ u.speech = p.pending.speech + 0
  BY <1>2, <1>3, UsageAdds
<1>6. run' = [run EXCEPT ![r] = IF Reviews(r) THEN [q EXCEPT !.at = "review"] ELSE BeatDone(q)]
  BY DEF BeatWritten
<1> HIDE DEF u
<1>7. /\ q \in Process /\ q.at = "beat" /\ q.dir = p.dir /\ q.artifacts = p.artifacts
      /\ q.stage = p.stage /\ q.known = p.known /\ q.usage = p.usage /\ q.pending = u
      /\ q.beat = p.beat /\ q.beats = p.beats /\ q.reviews = p.reviews
  BY <1>1, <1>2, <1>5 DEF Process
<1>8. /\ p.pending.model \in Nat /\ p.beat \in Nat /\ p.beat <= p.beats
      /\ s.reviewed \in Nat /\ s.revised \in Nat /\ s.unfixed \in Nat /\ s.unchecked \in Nat
      /\ b.answered.model \in Nat /\ b.answered.speech = 0 /\ p.pending.speech = 0
      /\ b.answered.model = 1 + p.pending.model + 0
      /\ PaysFor(p.pending.model, p.beat - 1, s)
      /\ s.reviewed + s.unchecked = IF Reviews(r) THEN p.beat - 1 ELSE 0
  <2>1. p.pending.model \in Nat /\ b.answered.model \in Nat
    BY <1>2 DEF Usage, Bill
  <2>2. s.reviewed \in Nat /\ s.revised \in Nat /\ s.unfixed \in Nat /\ s.unchecked \in Nat
    BY <1>2 DEF Summary
  <2>3. p.beat \in Nat
    BY ONLY <1>2, PipelineAssumption
  <2> HIDE DEF s
  <2> QED BY <1>1, <1>2, <2>1, <2>2, <2>3 DEF InLoop, InDialogue, s
<1>9. /\ u.model \in Nat /\ u.speech = 0 /\ c.answered.speech = 0
      /\ c.answered.model = 1 + u.model
  BY ONLY <1>3, <1>4, <1>5, <1>8
<1>10. PaysFor(u.model, p.beat, s)
  <2> HIDE DEF s
  <2> QED BY ONLY <1>5, <1>8 DEF PaysFor
<1>11. InDialogue(r, q, c)
  BY <1>2, <1>7, <1>9 DEF InDialogue
<1>12. CASE Reviews(r)
  <2> DEFINE t == [q EXCEPT !.at = "review"]
  <2>1. /\ t \in Process /\ t.at = "review" /\ t.dir = p.dir /\ t.artifacts = p.artifacts
        /\ t.stage = q.stage /\ t.known = q.known /\ t.usage = q.usage /\ t.pending = u
        /\ t.beat = p.beat /\ t.beats = p.beats /\ t.reviews = p.reviews
    BY <1>7 DEF Process, Ats, Loop
  <2>2. StepsTo(r, t, c)
    BY <1>4, <1>6, <1>12 DEF StepsTo
  <2> HIDE DEF t, q
  <2>3. InDialogue(r, t, c)
    BY <1>7, <1>11, <2>1 DEF InDialogue
  <2>4. InLoop(r, t, c)
    <3>1. c.answered.model = 1 + u.model + 0
      BY ONLY <1>9
    <3> QED BY <3>1, <1>8, <1>10, <1>12, <2>1 DEF InLoop
  <2>5. t.at \in Loop
    BY <2>1 DEF Loop
  <2> QED BY <1>1, <2>1, <2>2, <2>3, <2>4, <2>5, DialogueKeeps
<1>13. CASE ~Reviews(r)
  <2>1. StepsTo(r, BeatDone(q), c)
    BY <1>4, <1>6, <1>13 DEF StepsTo
  <2> HIDE DEF q
  <2>2. /\ PaysFor(q.pending.model, q.beat, ReviewSummary(q.reviews))
        /\ ReviewSummary(q.reviews) = s /\ s.reviewed + s.unchecked = 0
    BY <1>7, <1>8, <1>10, <1>13
  <2> QED BY <1>1, <1>7, <1>9, <1>11, <1>13, <2>1, <2>2, BeatDoneKeeps
<1> QED BY <1>12, <1>13

\* What a review, and the revision after it, cost n model calls for.
Costs(n, e) ==
  n - (IF e.failed THEN 0 ELSE 1)
    \in (IF e.revised THEN 1 ELSE 0)..((IF e.revised THEN 1 ELSE 0) +
                                       (IF e.findings /\ ~e.revised THEN 1 ELSE 0))

\* The review of a beat is over, however it went.
LEMMA ReviewedKeeps ==
  ASSUME PipelineInv, NEW r \in Runs, run[r].at \in Loop \ {"beat"},
         NEW u \in Usage, u.speech = 0, NEW entry \in Review, Reviewed(r, u, entry),
         Costs(u.model, entry), NEW c \in Bill, billed' = [billed EXCEPT ![r] = c],
         c.answered.speech = billed[r].answered.speech,
         c.answered.model = 1 + run[r].pending.model + u.model,
         UNCHANGED <<files, manifest>>
  PROVE  PipelineInv'
<1> DEFINE p == run[r]
           b == billed[r]
           s == ReviewSummary(p.reviews)
           v == AddUsage(p.pending, u)
           e == [entry EXCEPT !.beat = p.beat]
           more == Append(p.reviews, e)
           q == [p EXCEPT !.pending = v, !.reviews = more]
<1>1. /\ p \in Process /\ b \in Bill /\ run \in [Runs -> Process] /\ billed \in [Runs -> Bill]
      /\ InDialogue(r, p, b) /\ InLoop(r, p, b) /\ p.pending \in Usage
      /\ p.beat \in 1..MaxBeats /\ p.beats \in 0..MaxBeats /\ s \in Summary
      /\ p.reviews \in Seq(Review)
  BY InTheDialogue
<1>2. /\ e \in Review /\ e.failed = entry.failed /\ e.revised = entry.revised
      /\ e.findings = entry.findings
  BY <1>1 DEF Review
<1>3. StepsTo(r, BeatDone(q), c)
  <2>1. Reviewed(r, u, entry)
    OBVIOUS
  <2>2. run' = [run EXCEPT ![r] = BeatDone(q)]
    BY ONLY <1>1, <2>1 DEF Reviewed
  <2> QED BY <2>2 DEF StepsTo
<1>4. /\ v \in Usage /\ v.model = p.pending.model + u.model /\ v.speech = p.pending.speech + u.speech
      /\ u.model \in Nat /\ p.pending.model \in Nat
  BY <1>1, UsageAdds
<1> HIDE DEF e, v
<1>5. more \in Seq(Review) /\ ReviewSummary(more) = NewlyReviewed(s, e)
  BY <1>1, <1>2, SummaryOfOneMore
<1> HIDE DEF more
<1>6. /\ q \in Process /\ q.at = p.at /\ q.dir = p.dir /\ q.artifacts = p.artifacts
      /\ q.stage = p.stage /\ q.known = p.known /\ q.usage = p.usage /\ q.pending = v
      /\ q.beat = p.beat /\ q.beats = p.beats /\ q.reviews = more
  BY <1>1, <1>4, <1>5 DEF Process
<1> HIDE DEF q
<1>7. Reviews(r) /\ PaysFor(p.pending.model, p.beat, s) /\ s.reviewed + s.unchecked = p.beat - 1
  BY <1>1 DEF InLoop
<1>8. v.speech = 0 /\ c.answered.speech = 0
  BY <1>1, <1>4 DEF InDialogue
<1>9. InDialogue(r, q, c)
  BY <1>1, <1>6, <1>8 DEF InDialogue
<1>10. s.reviewed \in Nat /\ s.revised \in Nat /\ s.unfixed \in Nat /\ s.unchecked \in Nat
  BY <1>1 DEF Summary
<1>11. p.beat \in Nat
  BY ONLY <1>1, PipelineAssumption
<1> DEFINE t == NewlyReviewed(s, e)
<1>12. /\ t.reviewed = s.reviewed + (IF entry.failed THEN 0 ELSE 1)
       /\ t.unchecked = s.unchecked + (IF entry.failed THEN 1 ELSE 0)
       /\ t.revised = s.revised + (IF entry.revised THEN 1 ELSE 0)
       /\ t.unfixed = s.unfixed + (IF entry.findings /\ ~entry.revised THEN 1 ELSE 0)
  BY <1>2 DEF NewlyReviewed
<1> HIDE DEF t, s
<1>13. t.reviewed + t.unchecked = p.beat
  BY ONLY <1>7, <1>10, <1>11, <1>12
<1>14. PaysFor(v.model, p.beat, t)
  <2>1. Costs(u.model, entry)
    OBVIOUS
  <2> DEFINE x == IF entry.failed THEN 0 ELSE 1
             y == IF entry.revised THEN 1 ELSE 0
             z == IF entry.findings /\ ~entry.revised THEN 1 ELSE 0
  <2>2. x \in Int /\ y \in Int /\ z \in Int
    OBVIOUS
  <2>3. u.model - x \in y..(y + z)
    BY ONLY <2>1 DEF Costs
  <2>4. t.reviewed = s.reviewed + x /\ t.revised = s.revised + y /\ t.unfixed = s.unfixed + z
    BY ONLY <1>12
  <2> HIDE DEF x, y, z
  <2> QED BY ONLY <1>4, <1>7, <1>10, <1>11, <2>2, <2>3, <2>4 DEF PaysFor
<1>15. c.answered.model = 1 + q.pending.model
  <2>1. c.answered.model = 1 + p.pending.model + u.model
    OBVIOUS
  <2> QED BY ONLY <2>1, <1>4, <1>6
<1>16. ReviewSummary(q.reviews) = t
  BY <1>5, <1>6 DEF t
<1> QED BY <1>3, <1>6, <1>7, <1>9, <1>13, <1>14, <1>15, <1>16, BeatDoneKeeps

\* What is known of a run while one of its beats is reviewed.
LEMMA InReview ==
  ASSUME PipelineInv, NEW r \in Runs, run[r].at \in Loop \ {"beat"}
  PROVE  /\ run[r] \in Process /\ billed[r] \in Bill
         /\ run \in [Runs -> Process] /\ billed \in [Runs -> Bill]
         /\ Reviews(r) /\ InDialogue(r, run[r], billed[r]) /\ InLoop(r, run[r], billed[r])
         /\ billed[r].answered.model =
              1 + run[r].pending.model + (IF run[r].at = "review" THEN 0 ELSE 1)
         /\ run[r].pending.model \in Nat /\ billed[r].answered.speech = 0
<1>1. /\ run[r] \in Process /\ billed[r] \in Bill
      /\ run \in [Runs -> Process] /\ billed \in [Runs -> Bill]
      /\ InDialogue(r, run[r], billed[r]) /\ InLoop(r, run[r], billed[r])
      /\ run[r].pending.model \in Nat
  BY InTheDialogue
<1>2. Reviews(r) /\ billed[r].answered.speech = 0
  BY <1>1 DEF InLoop, InDialogue
<1>3. billed[r].answered.model = 1 + run[r].pending.model + (IF run[r].at = "review" THEN 0 ELSE 1)
  <2>1. CASE run[r].at = "review"
    BY <2>1, <1>1 DEF InLoop
  <2>2. CASE run[r].at \in {"revise", "revise, some dropped"}
    BY <2>2, <1>1 DEF InLoop
  <2> QED BY <2>1, <2>2 DEF Loop
<1> QED BY <1>1, <1>2, <1>3

\* The entries that onReview() is told, and what each of them costs.
LEMMA Entries ==
  /\ \A x \in BOOLEAN : LET e == [CleanEntry EXCEPT !.dropped = x]
                        IN  e \in Review /\ Costs(1, e)
  /\ FailedEntry \in Review /\ Costs(0, FailedEntry)
  /\ \A r : /\ \A x \in BOOLEAN : RevisionEntry(r, x) \in Review /\ Costs(2, RevisionEntry(r, x))
            /\ RevisionEntry(r, FALSE) \in Review /\ Costs(1, RevisionEntry(r, FALSE))
<1>1. 1 \in 1..MaxBeats
  BY PipelineAssumption
<1>2. CleanEntry \in Review
  BY <1>1 DEF CleanEntry, Review
<1>3. \A x \in BOOLEAN : LET e == [CleanEntry EXCEPT !.dropped = x]
                         IN  /\ e \in Review
                             /\ e.failed = FALSE /\ e.revised = FALSE /\ e.findings = FALSE
  BY <1>2 DEF CleanEntry, Review
<1>4. /\ FailedEntry \in Review /\ FailedEntry.failed = TRUE
      /\ FailedEntry.revised = FALSE /\ FailedEntry.findings = FALSE
  BY <1>2 DEF FailedEntry, CleanEntry, Review
<1>5. \A r : \A x \in BOOLEAN :
        /\ RevisionEntry(r, x) \in Review /\ RevisionEntry(r, x).failed = FALSE
        /\ RevisionEntry(r, x).revised = x /\ RevisionEntry(r, x).findings = TRUE
  BY <1>2 DEF RevisionEntry, CleanEntry, Review
<1>6. ASSUME NEW e, e.failed = FALSE, e.revised = FALSE, e.findings = FALSE PROVE Costs(1, e)
  BY ONLY <1>6 DEF Costs
<1>7. ASSUME NEW e, e.failed = TRUE, e.revised = FALSE, e.findings = FALSE PROVE Costs(0, e)
  BY ONLY <1>7 DEF Costs
<1>8. ASSUME NEW e, e.failed = FALSE, e.findings = TRUE, e.revised \in BOOLEAN PROVE Costs(2, e)
  BY ONLY <1>8 DEF Costs
<1>9. ASSUME NEW e, e.failed = FALSE, e.findings = TRUE, e.revised = FALSE PROVE Costs(1, e)
  BY ONLY <1>9 DEF Costs
<1>10. \A x \in BOOLEAN : LET e == [CleanEntry EXCEPT !.dropped = x]
                          IN  e \in Review /\ Costs(1, e)
  BY <1>3, <1>6
<1>11. Costs(0, FailedEntry)
  BY <1>4, <1>7
<1>12. \A r : \A x \in BOOLEAN : RevisionEntry(r, x) \in Review /\ Costs(2, RevisionEntry(r, x))
  BY <1>5, <1>8
<1>13. \A r : RevisionEntry(r, FALSE) \in Review /\ Costs(1, RevisionEntry(r, FALSE))
  BY <1>5, <1>9
<1> QED BY <1>4, <1>10, <1>11, <1>12, <1>13

\* A reviewer answers: the beat passes, or is to be revised.
LEMMA ReviewAnswersKeeps ==
  ASSUME PipelineInv, NEW r \in Runs, ReviewAnswers(r) PROVE PipelineInv'
<1> DEFINE p == run[r]
           b == billed[r]
<1>1. /\ p.at = "review" /\ p.at \in Loop \ {"beat"} /\ Answers(r, ModelCall)
      /\ UNCHANGED <<files, manifest>>
  BY DEF ReviewAnswers, Loop
<1>2. /\ p \in Process /\ b \in Bill /\ run \in [Runs -> Process] /\ billed \in [Runs -> Bill]
      /\ Reviews(r) /\ InDialogue(r, p, b) /\ InLoop(r, p, b)
      /\ b.answered.model = 1 + p.pending.model + 0
      /\ p.pending.model \in Nat /\ b.answered.speech = 0
  BY <1>1, InReview
<1>3. /\ ModelCall \in Usage /\ ModelCall.model = 1 /\ ModelCall.speech = 0
  BY UsageAdds
<1>4. PICK c \in Bill : /\ billed' = [billed EXCEPT ![r] = c]
                        /\ c.answered.model = b.answered.model + ModelCall.model
                        /\ c.answered.speech = b.answered.speech + ModelCall.speech
                        /\ c.answered = AddUsage(b.answered, ModelCall)
                        /\ c.failed = b.failed
  BY <1>1, <1>2, <1>3, AnswersBills
<1>5. c.answered.speech = 0 /\ c.answered.model = 1 + p.pending.model + 1
  BY ONLY <1>2, <1>3, <1>4
<1>6. PICK dropped \in BOOLEAN :
        \/ Reviewed(r, ModelCall, [CleanEntry EXCEPT !.dropped = dropped])
        \/ run' = [run EXCEPT ![r].at = IF dropped THEN "revise, some dropped" ELSE "revise"]
  BY DEF ReviewAnswers
<1>7. CASE Reviewed(r, ModelCall, [CleanEntry EXCEPT !.dropped = dropped])
  <2> DEFINE e == [CleanEntry EXCEPT !.dropped = dropped]
  <2>1. e \in Review /\ Costs(1, e)
    BY Entries
  <2>2. Reviewed(r, ModelCall, e)
    BY <1>7
  <2> HIDE DEF e
  <2>3. c.answered.model = 1 + p.pending.model + ModelCall.model /\ Costs(ModelCall.model, e)
    BY <1>3, <1>5, <2>1
  <2>4. c.answered.speech = b.answered.speech
    BY <1>2, <1>5
  <2> QED BY <1>1, <1>3, <1>4, <2>1, <2>2, <2>3, <2>4, ReviewedKeeps
<1>8. CASE run' = [run EXCEPT ![r].at = IF dropped THEN "revise, some dropped" ELSE "revise"]
  <2> DEFINE at == IF dropped THEN "revise, some dropped" ELSE "revise"
             q == [p EXCEPT !.at = at]
  <2>1. run' = [run EXCEPT ![r] = q]
    BY <1>2, <1>8
  <2>2. StepsTo(r, q, c)
    BY <1>4, <2>1 DEF StepsTo
  <2>3. at \in {"revise", "revise, some dropped"}
    OBVIOUS
  <2> HIDE DEF at
  <2>4. /\ q \in Process /\ q.at = at /\ q.dir = p.dir /\ q.artifacts = p.artifacts
        /\ q.stage = p.stage /\ q.known = p.known /\ q.usage = p.usage /\ q.pending = p.pending
        /\ q.beat = p.beat /\ q.beats = p.beats /\ q.reviews = p.reviews
    BY <1>2, <2>3 DEF Process, Ats, Loop
  <2> HIDE DEF q
  <2>5. InDialogue(r, q, c)
    BY <1>2, <1>5, <2>4 DEF InDialogue
  <2>6. InLoop(r, q, c)
    <3>1. /\ p.beat <= p.beats
          /\ PaysFor(p.pending.model, p.beat, ReviewSummary(p.reviews))
          /\ ReviewSummary(p.reviews).reviewed + ReviewSummary(p.reviews).unchecked =
               IF Reviews(r) THEN p.beat - 1 ELSE 0
      BY <1>1, <1>2 DEF InLoop
    <3> QED BY ONLY <3>1, <1>2, <1>5, <2>3, <2>4 DEF InLoop
  <2>7. q.at \in Loop
    BY <2>3, <2>4 DEF Loop
  <2> QED BY <1>1, <2>2, <2>4, <2>5, <2>6, <2>7, DialogueKeeps
<1> QED BY <1>6, <1>7, <1>8

\* A review that fails leaves the beat unchecked.
LEMMA ReviewFailsKeeps ==
  ASSUME PipelineInv, NEW r \in Runs, ReviewFails(r) PROVE PipelineInv'
<1> DEFINE p == run[r]
           b == billed[r]
<1>1. /\ p.at = "review" /\ p.at \in Loop \ {"beat"} /\ MayCost(r, ModelCall)
      /\ Reviewed(r, ZeroUsage, FailedEntry) /\ UNCHANGED <<files, manifest>>
  BY DEF ReviewFails, Loop
<1>2. /\ billed \in [Runs -> Bill] /\ b.answered.model = 1 + p.pending.model + 0
  BY <1>1, InReview
<1>3. /\ ModelCall \in Usage /\ ZeroUsage \in Usage /\ ZeroUsage.model = 0 /\ ZeroUsage.speech = 0
  BY UsageAdds
<1>4. PICK c \in Bill : /\ billed' = [billed EXCEPT ![r] = c]
                        /\ c.answered = b.answered
                        /\ c.failed.model >= b.failed.model
                        /\ c.failed.speech >= b.failed.speech
  BY <1>1, <1>2, <1>3, MayCostBills
<1>5. /\ c.answered.model = 1 + p.pending.model + ZeroUsage.model
      /\ c.answered.speech = b.answered.speech
  BY <1>2, <1>3, <1>4
<1>6. FailedEntry \in Review /\ Costs(ZeroUsage.model, FailedEntry)
  BY <1>3, Entries
<1> QED BY <1>1, <1>3, <1>4, <1>5, <1>6, ReviewedKeeps

\* A revision takes the place of its beat.
LEMMA RevisionAnswersKeeps ==
  ASSUME PipelineInv, NEW r \in Runs, RevisionAnswers(r) PROVE PipelineInv'
<1> DEFINE p == run[r]
           b == billed[r]
<1>1. /\ p.at # "review" /\ p.at \in Loop \ {"beat"} /\ Answers(r, ModelCall)
      /\ UNCHANGED <<files, manifest>>
  BY DEF RevisionAnswers, Revising, Loop
<1>2. /\ billed \in [Runs -> Bill] /\ b.answered.model = 1 + p.pending.model + 1
      /\ p.pending.model \in Nat /\ b.answered.speech = 0
  BY <1>1, InReview
<1>3. /\ ModelCall \in Usage /\ ModelCall.model = 1 /\ ModelCall.speech = 0
      /\ TwoCalls \in Usage /\ TwoCalls.model = 2 /\ TwoCalls.speech = 0
  BY UsageAdds
<1>4. PICK c \in Bill : /\ billed' = [billed EXCEPT ![r] = c]
                        /\ c.answered.model = b.answered.model + ModelCall.model
                        /\ c.answered.speech = b.answered.speech + ModelCall.speech
                        /\ c.answered = AddUsage(b.answered, ModelCall)
                        /\ c.failed = b.failed
  BY <1>1, <1>2, <1>3, AnswersBills
<1>5. /\ c.answered.model = 1 + p.pending.model + TwoCalls.model
      /\ c.answered.speech = b.answered.speech
  BY ONLY <1>2, <1>3, <1>4
<1>6. PICK kept \in BOOLEAN : Reviewed(r, TwoCalls, RevisionEntry(r, kept))
  BY DEF RevisionAnswers
<1>7. RevisionEntry(r, kept) \in Review /\ Costs(TwoCalls.model, RevisionEntry(r, kept))
  BY <1>3, Entries
<1> QED BY <1>1, <1>3, <1>4, <1>5, <1>6, <1>7, ReviewedKeeps

\* A revision that fails leaves the beat unfixed.
LEMMA RevisionFailsKeeps ==
  ASSUME PipelineInv, NEW r \in Runs, RevisionFails(r) PROVE PipelineInv'
<1> DEFINE p == run[r]
           b == billed[r]
<1>1. /\ p.at # "review" /\ p.at \in Loop \ {"beat"} /\ MayCost(r, ModelCall)
      /\ Reviewed(r, ModelCall, RevisionEntry(r, FALSE)) /\ UNCHANGED <<files, manifest>>
  BY DEF RevisionFails, Revising, Loop
<1>2. /\ billed \in [Runs -> Bill] /\ b.answered.model = 1 + p.pending.model + 1
  BY <1>1, InReview
<1>3. /\ ModelCall \in Usage /\ ModelCall.model = 1 /\ ModelCall.speech = 0
  BY UsageAdds
<1>4. PICK c \in Bill : /\ billed' = [billed EXCEPT ![r] = c]
                        /\ c.answered = b.answered
                        /\ c.failed.model >= b.failed.model
                        /\ c.failed.speech >= b.failed.speech
  BY <1>1, <1>2, <1>3, MayCostBills
<1>5. /\ c.answered.model = 1 + p.pending.model + ModelCall.model
      /\ c.answered.speech = b.answered.speech
  BY <1>2, <1>3, <1>4
<1>6. RevisionEntry(r, FALSE) \in Review /\ Costs(ModelCall.model, RevisionEntry(r, FALSE))
  BY <1>3, Entries
<1> QED BY <1>1, <1>3, <1>4, <1>5, <1>6, ReviewedKeeps

-----------------------------------------------------------------------------
(* The script, the transcript and the voice *)

\* A step of a run that has its directory and does not end with it: it writes f,
\* and what has been billed is as it was.
LEMMA WritingKeeps ==
  ASSUME PipelineInv, NEW r \in Runs, run[r].dir # NoDir, run[r].at \notin {"exit 0", "exit 1"},
         NEW q \in Process, q.dir = run[r].dir, q.at \notin {"exit 0", "exit 1"},
         run' = [run EXCEPT ![r] = q], NEW f \in Names, Writes(r, f),
         UNCHANGED <<manifest, billed>>,
         Accounts(r, q, billed[r]),
         \A gs \in OnDisk :
           (/\ gs[f] = "whole"
            /\ \A g \in Names : g # f => gs[g] = files[run[r].dir][g]) => Filed(r, q, gs)
  PROVE  PipelineInv'
<1> DEFINE p == run[r]
           d == run[r].dir
           b == billed[r]
           gs == files'[d]
<1>1. /\ d \in RunIds /\ b \in Bill /\ billed \in [Runs -> Bill] /\ DOMAIN manifest = RunIds
      /\ ManifestSays(r, p, manifest[d])
  BY AtRun DEF PipelineInv, PipelineTyped
<1>2. Touches(r, f) /\ gs[f] = "whole"
  BY <1>1, WritesTouches
<1>3. /\ StaysIn(d) /\ gs \in OnDisk
      /\ \A g \in Names : g # f => gs[g] = files[d][g]
  BY <1>1, <1>2 DEF Touches, StaysIn
<1>4. Filed(r, q, gs)
  BY <1>2, <1>3
<1>5. ManifestSays(r, q, manifest'[d])
  BY <1>1 DEF ManifestSays
<1>6. StepsTo(r, q, b)
  BY <1>1 DEF StepsTo
<1> QED BY <1>1, <1>3, <1>4, <1>5, <1>6, RunSteps

\* What is known of a run that has its words.
LEMMA WithWords ==
  ASSUME PipelineInv, NEW r \in Runs, run[r].at \in Words
  PROVE  /\ run[r].dir \in RunIds /\ run[r].dir # NoDir
         /\ run[r].at \notin Early \cup {"exit 0", "exit 1"}
         /\ run[r] \in Process /\ billed[r] \in Bill /\ run \in [Runs -> Process]
         /\ InDialogue(r, run[r], billed[r]) /\ HasWords(r, run[r], billed[r])
         /\ Accounts(r, run[r], billed[r])
         /\ files[run[r].dir] \in OnDisk /\ Filed(r, run[r], files[run[r].dir])
         /\ files[run[r].dir]["plan.json"] = "whole"
<1>1. /\ run[r] \in Process /\ billed[r] \in Bill /\ Accounts(r, run[r], billed[r])
      /\ run[r].at \notin Early \cup {"exit 0", "exit 1"} /\ run \in [Runs -> Process]
  BY AtRun DEF Early, Words, PipelineInv, PipelineTyped
<1>2. InDialogue(r, run[r], billed[r]) /\ HasWords(r, run[r], billed[r]) /\ run[r].dir # NoDir
  BY <1>1 DEF Accounts
<1>3. /\ run[r].dir \in RunIds /\ files[run[r].dir] \in OnDisk
      /\ Filed(r, run[r], files[run[r].dir])
  BY <1>2, AtRun
<1>4. 1 \in DOMAIN run[r].artifacts /\ run[r].artifacts[1] = "plan.json"
  BY <1>2, ArtifactLists DEF InDialogue
<1>5. Backed("plan.json", files[run[r].dir])
  BY <1>3, <1>4 DEF Filed
<1> QED BY <1>1, <1>2, <1>3, <1>5 DEF Backed

\* The script is written, and the transcript is next.
LEMMA ScriptWrittenKeeps ==
  ASSUME PipelineInv, NEW r \in Runs, run[r].at = "write script", Writes(r, "script.json"),
         run' = [run EXCEPT ![r].at = "write transcript"], UNCHANGED <<manifest, billed>>
  PROVE  PipelineInv'
<1> DEFINE p == run[r]
           b == billed[r]
           d == run[r].dir
           q == [p EXCEPT !.at = "write transcript"]
<1>1. p.at \in Words
  BY DEF Words
<1>2. /\ d \in RunIds /\ d # NoDir /\ p.at \notin {"exit 0", "exit 1"}
      /\ p \in Process /\ b \in Bill /\ run \in [Runs -> Process]
      /\ InDialogue(r, p, b) /\ HasWords(r, p, b) /\ Accounts(r, p, b)
      /\ Filed(r, p, files[d]) /\ files[d]["plan.json"] = "whole"
  BY <1>1, WithWords
<1>3. run' = [run EXCEPT ![r] = q]
  BY <1>2
<1>4. /\ q \in Process /\ q.at = "write transcript" /\ q.dir = d /\ q.stage = p.stage
      /\ q.known = p.known /\ q.usage = p.usage /\ q.pending = p.pending /\ q.beats = p.beats
      /\ q.reviews = p.reviews /\ q.artifacts = p.artifacts
  BY <1>2 DEF Process, Ats, Words
<1> HIDE DEF q
<1>5. InDialogue(r, q, b) /\ HasWords(r, q, b) /\ q.stage = "dialogue"
  BY <1>2, <1>4 DEF InDialogue, HasWords
<1>6. Accounts(r, q, b)
  BY <1>2, <1>4, <1>5 DEF Accounts, Early, Loop, Words, Voice
<1>7. "script.json" \in Names /\ "plan.json" \in Names
  BY DEF Names
<1>8. ASSUME NEW gs \in OnDisk, gs["script.json"] = "whole",
             \A g \in Names : g # "script.json" => gs[g] = files[d][g]
      PROVE  Filed(r, q, gs)
  <2>1. gs["plan.json"] = "whole"
    BY <1>2, <1>7, <1>8
  <2>2. \A i \in DOMAIN q.artifacts : q.artifacts[i] = "plan.json"
    BY <1>5, ArtifactLists DEF InDialogue
  <2> QED BY <1>4, <1>5, <1>8, <2>1, <2>2 DEF Filed, Backed
<1> QED BY <1>2, <1>3, <1>4, <1>6, <1>7, <1>8, WritingKeeps

\* The bill of the dialogue is settled when its words are on disk.
LEMMA TranscriptWrittenKeeps ==
  ASSUME PipelineInv, NEW r \in Runs, run[r].at = "write transcript", Writes(r, "transcript.md"),
         run' = [run EXCEPT ![r].at = "speak", ![r].stage = "synthesis",
                            ![r].beat = 1, ![r].known = TRUE,
                            ![r].artifacts = run[r].artifacts \o <<"script.json", "transcript.md">>,
                            ![r].usage = AddUsage(run[r].usage, run[r].pending),
                            ![r].pending = ZeroUsage],
         UNCHANGED <<manifest, billed>>
  PROVE  PipelineInv'
<1> DEFINE p == run[r]
           b == billed[r]
           d == run[r].dir
           u == AddUsage(p.usage, p.pending)
           list == <<"plan.json", "script.json", "transcript.md">>
           q == [p EXCEPT !.at = "speak", !.stage = "synthesis", !.beat = 1, !.known = TRUE,
                          !.artifacts = list, !.usage = u, !.pending = ZeroUsage]
<1>1. p.at \in Words
  BY DEF Words
<1>2. /\ d \in RunIds /\ d # NoDir /\ p.at \notin {"exit 0", "exit 1"}
      /\ p \in Process /\ b \in Bill /\ run \in [Runs -> Process]
      /\ InDialogue(r, p, b) /\ HasWords(r, p, b) /\ Accounts(r, p, b)
      /\ Filed(r, p, files[d]) /\ files[d]["plan.json"] = "whole"
  BY <1>1, WithWords
<1>3. /\ r \in CreateRuns /\ p.usage = ModelCall /\ p.pending.speech = 0 /\ b.answered.speech = 0
      /\ b.answered.model = 1 + p.pending.model /\ p.artifacts = <<"plan.json">>
      /\ 1 <= p.beats
  BY <1>2 DEF InDialogue, HasWords
<1>4. p.artifacts \o <<"script.json", "transcript.md">> = list /\ list \in Seq(Names)
  BY <1>3, MoreArtifacts
<1>5. /\ p.usage \in Usage /\ p.pending \in Usage /\ b.answered \in Usage /\ b.failed \in Usage
  BY <1>2 DEF Process, Bill
<1>6. /\ u \in Usage /\ u.model = p.usage.model + p.pending.model
      /\ u.speech = p.usage.speech + p.pending.speech
      /\ p.usage.model = 1 /\ p.usage.speech = 0 /\ p.pending.model \in Nat
      /\ b.failed.model \in Nat /\ b.failed.speech \in Nat
      /\ b.answered.model \in Nat
      /\ ZeroUsage \in Usage /\ ZeroUsage.model = 0 /\ ZeroUsage.speech = 0
  BY <1>3, <1>5, UsageAdds
<1> HIDE DEF u, list
<1>7. run' = [run EXCEPT ![r] = q]
  BY <1>2, <1>4 DEF u
<1>8. /\ q \in Process /\ q.at = "speak" /\ q.dir = d /\ q.stage = "synthesis"
      /\ q.known = TRUE /\ q.usage = u /\ q.pending = ZeroUsage /\ q.beats = p.beats
      /\ q.beat = 1
      /\ q.reviews = p.reviews /\ q.artifacts = list
  <2>1. "speak" \in Ats
    BY DEF Ats, Voice
  <2>2. 1 \in 1..MaxBeats
    BY ONLY PipelineAssumption
  <2> QED BY <1>2, <1>4, <1>6, <2>1, <2>2 DEF Process
<1> HIDE DEF q
<1>9. /\ u.model = b.answered.model /\ u.speech = 0 /\ u.model - 1 = p.pending.model
      /\ u.model <= b.answered.model + b.failed.model
      /\ u.speech <= b.answered.speech + b.failed.speech
  BY ONLY <1>3, <1>6
<1>10. InSynthesis(r, q, b)
  BY <1>2, <1>3, <1>8, <1>9 DEF HasWords, InSynthesis
<1>11. Voiced(q, b)
  BY <1>3, <1>6, <1>8, <1>9 DEF Voiced, list
<1>12. Accounts(r, q, b)
  BY <1>2, <1>8, <1>9, <1>10, <1>11 DEF Accounts, Early, Loop, Words, Voice
<1>13. /\ "transcript.md" \in Names /\ "script.json" \in Names /\ "plan.json" \in Names
  BY DEF Names
<1>14. ASSUME NEW gs \in OnDisk, gs["transcript.md"] = "whole",
              \A g \in Names : g # "transcript.md" => gs[g] = files[d][g]
       PROVE  Filed(r, q, gs)
  <2>1. gs["plan.json"] = "whole" /\ gs["script.json"] = "whole"
    BY <1>2, <1>13, <1>14 DEF Filed
  <2>2. \A i \in DOMAIN q.artifacts : q.artifacts[i] \in {"plan.json", "script.json", "transcript.md"}
    BY <1>8, ArtifactLists DEF list
  <2> QED BY <1>8, <1>14, <2>1, <2>2 DEF Filed, Backed, WordsKept
<1>15. q.at \notin {"exit 0", "exit 1"}
  BY <1>8
<1>16. PipelineInv /\ Writes(r, "transcript.md") /\ UNCHANGED <<manifest, billed>>
  OBVIOUS
<1> QED BY ONLY <1>2, <1>7, <1>8, <1>12, <1>13, <1>14, <1>15, <1>16, WritingKeeps

\* What is known of a run whose words are being spoken.
LEMMA WithVoice ==
  ASSUME PipelineInv, NEW r \in Runs, run[r].at \in Voice
  PROVE  /\ run[r].dir \in RunIds /\ run[r].dir # NoDir
         /\ run[r].at \notin Early \cup {"exit 0", "exit 1"}
         /\ run[r] \in Process /\ billed[r] \in Bill
         /\ run \in [Runs -> Process] /\ billed \in [Runs -> Bill]
         /\ Accounts(r, run[r], billed[r])
         /\ InSynthesis(r, run[r], billed[r]) /\ Voiced(run[r], billed[r])
         /\ files[run[r].dir] \in OnDisk /\ Filed(r, run[r], files[run[r].dir])
         /\ WordsKept(run[r], files[run[r].dir])
         /\ ManifestSays(r, run[r], manifest[run[r].dir])
<1>1. /\ run[r] \in Process /\ billed[r] \in Bill /\ Accounts(r, run[r], billed[r])
      /\ run[r].at \notin Early \cup {"exit 0", "exit 1"}
      /\ run \in [Runs -> Process] /\ billed \in [Runs -> Bill]
  BY AtRun DEF Early, Voice, PipelineInv, PipelineTyped
<1>2. /\ InSynthesis(r, run[r], billed[r]) /\ Voiced(run[r], billed[r])
      /\ run[r].dir # NoDir /\ run[r].stage = "synthesis"
  BY <1>1 DEF Accounts, Voiced
<1>3. /\ run[r].dir \in RunIds /\ files[run[r].dir] \in OnDisk
      /\ Filed(r, run[r], files[run[r].dir])
      /\ ManifestSays(r, run[r], manifest[run[r].dir])
  BY <1>2, AtRun
<1> QED BY <1>1, <1>2, <1>3 DEF Filed

\* From one step of the synthesis to the next only turns are paid for.
LEMMA VoiceAccounts ==
  ASSUME NEW r, NEW p \in Process, NEW q \in Process, NEW b \in Bill, NEW c \in Bill,
         Accounts(r, p, b), p.at \in Voice, q.at \in Voice, q.dir = p.dir, q.usage = p.usage,
         q.known = p.known, q.beats = p.beats, q.reviews = p.reviews,
         c.answered.model = b.answered.model, c.failed = b.failed, Voiced(q, c)
  PROVE  Accounts(r, q, c)
<1>1. /\ q.at \notin Early \cup Loop \cup Words
      /\ q.at \notin {"start", "plan", "write plan", "complete", "diagnose", "exit 0"}
      /\ p.at \notin Early
  BY DEF Early, Loop, Words, Voice
<1>2. /\ p.dir # NoDir /\ InSynthesis(r, p, b)
      /\ p.usage.model <= b.answered.model + b.failed.model
  BY <1>1 DEF Accounts, Voiced
<1>3. InSynthesis(r, q, c)
  BY <1>2 DEF InSynthesis
<1>4. /\ q.usage.model <= c.answered.model + c.failed.model
      /\ q.usage.speech <= c.answered.speech + c.failed.speech
  <2>1. /\ c.answered.speech \in Nat /\ c.failed.speech \in Nat /\ q.usage.speech = 0
    BY DEF Bill, Usage, Voiced
  <2>2. q.usage.speech <= c.answered.speech + c.failed.speech
    BY ONLY <2>1
  <2> QED BY <1>2, <2>2
<1> QED BY <1>1, <1>2, <1>3, <1>4 DEF Accounts

\* A turn is spoken, which was the last or not.
LEMMA TurnSpokenKeeps ==
  ASSUME PipelineInv, NEW r \in Runs, TurnSpoken(r) PROVE PipelineInv'
<1> DEFINE p == run[r]
           b == billed[r]
           d == run[r].dir
           u == AddUsage(p.pending, SpokenTurn)
           w == [p EXCEPT !.pending = u]
           q == IF p.beat = p.beats THEN [w EXCEPT !.at = "write audio"]
                ELSE [w EXCEPT !.beat = p.beat + 1]
<1>1. /\ p.at = "speak" /\ p.at \in Voice /\ Answers(r, SpokenTurn) /\ UNCHANGED <<files, manifest>>
  BY DEF TurnSpoken, Voice
<1>2. /\ p \in Process /\ b \in Bill /\ run \in [Runs -> Process] /\ billed \in [Runs -> Bill]
      /\ Accounts(r, p, b) /\ Voiced(p, b) /\ d # NoDir /\ d \in RunIds
      /\ files[d] \in OnDisk /\ Filed(r, p, files[d]) /\ ManifestSays(r, p, manifest[d])
      /\ p.pending \in Usage /\ p.beat \in 1..MaxBeats /\ p.beats \in 0..MaxBeats
      /\ b.answered \in Usage /\ p.beat <= p.beats
  <2>1. p.at \in Voice
    BY <1>1
  <2>2. /\ p \in Process /\ b \in Bill /\ run \in [Runs -> Process] /\ billed \in [Runs -> Bill]
        /\ Accounts(r, p, b) /\ Voiced(p, b) /\ d # NoDir /\ d \in RunIds
        /\ files[d] \in OnDisk /\ Filed(r, p, files[d]) /\ ManifestSays(r, p, manifest[d])
    BY <2>1, WithVoice
  <2> QED BY <2>2 DEF Process, Bill, Voiced
<1>3. SpokenTurn \in Usage /\ SpokenTurn.model = 0 /\ SpokenTurn.speech = 1
  BY UsageAdds
<1>4. PICK c \in Bill : /\ billed' = [billed EXCEPT ![r] = c]
                        /\ c.answered.model = b.answered.model + SpokenTurn.model
                        /\ c.answered.speech = b.answered.speech + SpokenTurn.speech
                        /\ c.answered = AddUsage(b.answered, SpokenTurn)
                        /\ c.failed = b.failed
  BY <1>1, <1>2, <1>3, AnswersBills
<1>5. /\ u \in Usage /\ u.model = p.pending.model + 0 /\ u.speech = p.pending.speech + 1
      /\ b.answered.model \in Nat /\ p.pending.model \in Nat
  <2>1. p.pending \in Usage /\ b.answered \in Usage
    BY <1>2
  <2>2. /\ u \in Usage /\ u.model = p.pending.model + SpokenTurn.model
        /\ u.speech = p.pending.speech + SpokenTurn.speech
    BY ONLY <2>1, <1>3, UsageAdds
  <2>3. b.answered.model \in Nat /\ p.pending.model \in Nat
    BY ONLY <2>1, UsageAdds
  <2> HIDE DEF u
  <2> QED BY ONLY <2>2, <2>3, <1>3
<1>6. run' = [run EXCEPT ![r] = q]
  BY <1>2 DEF TurnSpoken
<1>7. StepsTo(r, q, c)
  BY <1>4, <1>6 DEF StepsTo
<1> HIDE DEF u
<1>8. w \in Process
  BY <1>2, <1>5 DEF Process
<1>9. /\ q \in Process /\ q.at \in {"speak", "write audio"} /\ q.dir = d /\ q.stage = p.stage
      /\ q.known = p.known /\ q.usage = p.usage /\ q.pending = u /\ q.beats = p.beats
      /\ q.reviews = p.reviews /\ q.artifacts = p.artifacts /\ q.beat <= q.beats
  <2>1. CASE p.beat = p.beats
    <3>1. "write audio" \in Ats
      BY DEF Ats, Voice
    <3> QED BY <2>1, <3>1, <1>1, <1>2, <1>8 DEF Process
  <2>2. CASE p.beat # p.beats
    <3>1. p.beat + 1 \in 1..MaxBeats /\ p.beat + 1 <= p.beats
      BY ONLY <1>2, <2>2, PipelineAssumption
    <3>2. q = [w EXCEPT !.beat = p.beat + 1]
      BY <2>2
    <3>3. /\ q \in Process /\ q.at = p.at /\ q.dir = d /\ q.stage = p.stage
          /\ q.known = p.known /\ q.usage = p.usage /\ q.pending = u /\ q.beats = p.beats
          /\ q.reviews = p.reviews /\ q.artifacts = p.artifacts /\ q.beat = p.beat + 1
      BY <3>1, <3>2, <1>2, <1>8 DEF Process
    <3> HIDE DEF q
    <3> QED BY <3>1, <3>3, <1>1
  <2> QED BY <2>1, <2>2
<1> HIDE DEF q, w
<1>10. Voiced(q, c) /\ c.answered.model = b.answered.model
  <2>1. /\ p.stage = "synthesis" /\ p.usage.speech = 0 /\ p.pending.model = 0
        /\ b.answered.speech = p.pending.speech
        /\ p.artifacts = <<"plan.json", "script.json", "transcript.md">>
    BY <1>2 DEF Voiced
  <2>2. /\ u.model = 0 /\ c.answered.speech = u.speech /\ c.answered.model = b.answered.model
    BY ONLY <1>3, <1>4, <1>5, <2>1
  <2> QED BY <2>1, <2>2, <1>9 DEF Voiced
<1>11. q.at \in Voice /\ q.at \notin {"write transcript", "rewrite transcript", "complete", "exit 0", "exit 1"}
  BY <1>9 DEF Voice
<1>12. Accounts(r, q, c)
  BY <1>1, <1>2, <1>4, <1>9, <1>10, <1>11, VoiceAccounts
<1>13. Filed(r, q, files'[d])
  BY <1>1, <1>2, <1>9, <1>11, FilesAsBefore
<1>14. ManifestSays(r, q, manifest'[d])
  BY <1>1, <1>2, <1>11 DEF ManifestSays
<1>15. StaysIn(d)
  BY <1>1, WritesNothing
<1> QED BY <1>7, <1>9, <1>12, <1>13, <1>14, <1>15, RunSteps

\* The audio is on disk: the transcript may be rewritten.
LEMMA AudioWrittenKeeps ==
  ASSUME PipelineInv, NEW r \in Runs, run[r].at = "write audio", Writes(r, "episode.wav"),
         run' = [run EXCEPT ![r].at = "rewrite transcript"], UNCHANGED <<manifest, billed>>
  PROVE  PipelineInv'
<1> DEFINE p == run[r]
           b == billed[r]
           d == run[r].dir
           q == [p EXCEPT !.at = "rewrite transcript"]
<1>1. p.at \in Voice
  BY DEF Voice
<1>2. /\ d \in RunIds /\ d # NoDir /\ p.at \notin {"exit 0", "exit 1"}
      /\ p \in Process /\ b \in Bill /\ run \in [Runs -> Process]
      /\ Voiced(p, b) /\ Accounts(r, p, b) /\ WordsKept(p, files[d])
  BY <1>1, WithVoice
<1>3. run' = [run EXCEPT ![r] = q]
  BY <1>2
<1>4. /\ q \in Process /\ q.at = "rewrite transcript" /\ q.dir = d /\ q.stage = p.stage
      /\ q.known = p.known /\ q.usage = p.usage /\ q.pending = p.pending /\ q.beats = p.beats
      /\ q.beat = p.beat /\ q.reviews = p.reviews /\ q.artifacts = p.artifacts
  BY <1>2 DEF Process, Ats, Voice
<1> HIDE DEF q
<1>5. Voiced(q, b) /\ q.stage = "synthesis" /\ q.at \in Voice
  BY <1>2, <1>4 DEF Voiced, Voice
<1>6. Accounts(r, q, b)
  BY <1>1, <1>2, <1>4, <1>5, VoiceAccounts
<1>7. /\ "episode.wav" \in Names /\ "script.json" \in Names /\ "plan.json" \in Names
      /\ "transcript.md" \in Names
  BY DEF Names
<1>8. ASSUME NEW gs \in OnDisk, gs["episode.wav"] = "whole",
             \A g \in Names : g # "episode.wav" => gs[g] = files[d][g]
      PROVE  Filed(r, q, gs)
  <2>1. gs["plan.json"] = "whole" /\ gs["script.json"] = "whole" /\ gs["transcript.md"] = "whole"
    <3>1. /\ files[d]["plan.json"] = "whole" /\ files[d]["script.json"] = "whole"
          /\ files[d]["transcript.md"] = "whole"
      BY <1>2 DEF WordsKept
    <3> QED BY <3>1, <1>7, <1>8
  <2>2. \A i \in DOMAIN q.artifacts : q.artifacts[i] \in {"plan.json", "script.json", "transcript.md"}
    BY <1>5, ArtifactLists DEF Voiced
  <2> QED BY <1>4, <1>5, <1>8, <2>1, <2>2 DEF Filed, Backed, WordsKept
<1>9. q.at \notin {"exit 0", "exit 1"}
  BY <1>4
<1>10. PipelineInv /\ Writes(r, "episode.wav") /\ UNCHANGED <<manifest, billed>> /\ r \in Runs
  OBVIOUS
<1> QED BY ONLY <1>2, <1>3, <1>4, <1>6, <1>7, <1>8, <1>9, <1>10, WritingKeeps

\* The episode is whole, and all that was answered is charged for.
LEMMA TranscriptRewrittenKeeps ==
  ASSUME PipelineInv, NEW r \in Runs, run[r].at = "rewrite transcript", Writes(r, "transcript.md"),
         run' = [run EXCEPT ![r].at = "complete",
                            ![r].artifacts = run[r].artifacts \o <<"episode.wav", "manifest.json">>,
                            ![r].usage = AddUsage(run[r].usage, run[r].pending),
                            ![r].pending = ZeroUsage],
         UNCHANGED <<manifest, billed>>
  PROVE  PipelineInv'
<1> DEFINE p == run[r]
           b == billed[r]
           d == run[r].dir
           q == [p EXCEPT !.at = "complete", !.artifacts = AllArtifacts,
                          !.usage = b.answered, !.pending = ZeroUsage]
<1>1. p.at \in Voice
  BY DEF Voice
<1>2. /\ d \in RunIds /\ d # NoDir /\ p.at \notin {"exit 0", "exit 1"}
      /\ p \in Process /\ b \in Bill /\ run \in [Runs -> Process]
      /\ InSynthesis(r, p, b) /\ Voiced(p, b) /\ WordsKept(p, files[d])
  BY <1>1, WithVoice
<1>3. /\ r \in CreateRuns /\ p.usage.model = b.answered.model /\ p.usage.speech = 0
      /\ p.pending.model = 0 /\ b.answered.speech = p.pending.speech
      /\ p.artifacts = <<"plan.json", "script.json", "transcript.md">> /\ p.stage = "synthesis"
  BY <1>2 DEF InSynthesis, Voiced
<1>4. p.artifacts \o <<"episode.wav", "manifest.json">> = AllArtifacts /\ AllArtifacts \in Seq(Names)
  BY <1>3, MoreArtifacts
<1>5. /\ p.usage \in Usage /\ p.pending \in Usage /\ b.answered \in Usage /\ b.failed \in Usage
      /\ ZeroUsage \in Usage
  BY <1>2, UsageAdds DEF Process, Bill
<1>6. AddUsage(p.usage, p.pending) = b.answered
  <2> DEFINE a == AddUsage(p.usage, p.pending)
  <2>1. /\ a \in Usage /\ a.model = p.usage.model + p.pending.model
        /\ a.speech = p.usage.speech + p.pending.speech
        /\ b.answered.model \in Nat /\ p.pending.speech \in Nat
    BY ONLY <1>5, UsageAdds
  <2> HIDE DEF a
  <2>2. a.model = b.answered.model /\ a.speech = b.answered.speech
    BY ONLY <2>1, <1>3
  <2>3. a = b.answered
    BY ONLY <2>1, <2>2, <1>5, UsageAdds
  <2> QED BY <2>3 DEF a
<1>7. run' = [run EXCEPT ![r] = q]
  BY <1>2, <1>4, <1>6
<1>8. /\ q \in Process /\ q.at = "complete" /\ q.dir = d /\ q.stage = "synthesis"
      /\ q.known = p.known /\ q.usage = b.answered /\ q.pending = ZeroUsage /\ q.beats = p.beats
      /\ q.reviews = p.reviews /\ q.artifacts = AllArtifacts
  <2>1. "complete" \in Ats
    BY DEF Ats
  <2> QED BY <1>2, <1>3, <1>4, <1>5, <2>1 DEF Process
<1> HIDE DEF q
<1>9. InSynthesis(r, q, b)
  BY <1>2, <1>3, <1>8 DEF InSynthesis
<1>10. /\ q.usage.model <= b.answered.model + b.failed.model
       /\ q.usage.speech <= b.answered.speech + b.failed.speech
  <2>1. /\ b.answered.model \in Nat /\ b.answered.speech \in Nat
        /\ b.failed.model \in Nat /\ b.failed.speech \in Nat /\ q.usage = b.answered
    BY <1>5, <1>8, UsageAdds
  <2> QED BY ONLY <2>1
<1>11. r \notin PlanRuns
  BY <1>3, PipelineAssumption
<1>12. Accounts(r, q, b)
  BY <1>2, <1>8, <1>9, <1>10, <1>11 DEF Accounts, Early, Loop, Words, Voice
<1>13. /\ "transcript.md" \in Names /\ "script.json" \in Names /\ "plan.json" \in Names
       /\ "episode.wav" \in Names
  BY DEF Names
<1>14. ASSUME NEW gs \in OnDisk, gs["transcript.md"] = "whole",
              \A g \in Names : g # "transcript.md" => gs[g] = files[d][g]
       PROVE  Filed(r, q, gs)
  <2>1. gs["plan.json"] = "whole" /\ gs["script.json"] = "whole" /\ gs["episode.wav"] = "whole"
    <3>1. /\ files[d]["plan.json"] = "whole" /\ files[d]["script.json"] = "whole"
          /\ files[d]["episode.wav"] = "whole"
      BY <1>2 DEF WordsKept
    <3> QED BY <3>1, <1>13, <1>14
  <2>2. \A i \in DOMAIN q.artifacts : q.artifacts[i] \in Names \ {"failure.json"}
    BY <1>8, ArtifactLists
  <2>3. \A g \in Names \ {"failure.json"} : Backed(g, gs)
    BY <2>1, <1>14 DEF Backed, Names
  <2>4. \A i \in DOMAIN q.artifacts : Backed(q.artifacts[i], gs)
    BY <2>2, <2>3
  <2> QED BY <1>8, <1>14, <2>1, <2>4 DEF Filed, WordsKept
<1>15. q.at \notin {"exit 0", "exit 1"}
  BY <1>8
<1>16. PipelineInv /\ Writes(r, "transcript.md") /\ UNCHANGED <<manifest, billed>> /\ r \in Runs
  OBVIOUS
<1> QED BY ONLY <1>2, <1>7, <1>8, <1>12, <1>13, <1>14, <1>15, <1>16, WritingKeeps

-----------------------------------------------------------------------------
(* The diagnosis and the manifest *)

\* failure.json is written and listed, and what the failing call cost is charged.
LEMMA DiagnosedKeeps ==
  ASSUME PipelineInv, NEW r \in Runs, run[r].at = "diagnose", Writes(r, "failure.json"),
         run' = [run EXCEPT ![r].at = "report",
                   ![r].artifacts = <<"failure.json">> \o run[r].artifacts,
                   ![r].usage = IF run[r].carried THEN AddUsage(run[r].usage, ModelCall)
                                ELSE run[r].usage,
                   ![r].known = run[r].known \/ run[r].carried],
         UNCHANGED <<manifest, billed>>
  PROVE  PipelineInv'
<1> DEFINE p == run[r]
           b == billed[r]
           d == run[r].dir
           u == IF p.carried THEN AddUsage(p.usage, ModelCall) ELSE p.usage
           list == <<"failure.json">>
           q == [p EXCEPT !.at = "report", !.artifacts = list, !.usage = u,
                          !.known = p.known \/ p.carried]
<1>1. /\ p \in Process /\ b \in Bill /\ Accounts(r, p, b) /\ run \in [Runs -> Process]
  BY AtRun DEF PipelineInv, PipelineTyped
<1>2. /\ d # NoDir /\ p.at \notin {"exit 0", "exit 1"}
      /\ p.usage = ZeroUsage /\ p.artifacts = <<>> /\ p.stage = "plan"
      /\ b = [answered |-> ZeroUsage, failed |-> ModelCall]
      /\ p.known \in BOOLEAN /\ p.carried \in BOOLEAN
  BY <1>1 DEF Accounts, Early, Fresh, Process
<1>3. d \in RunIds /\ Filed(r, p, files[d])
  BY <1>2, AtRun
<1>4. "failure.json" \in Names
  BY DEF Names
<1>5. list \in Seq(Names) /\ \A i \in DOMAIN list : list[i] = "failure.json"
  BY ONLY <1>4
<1>6. list \o p.artifacts = list
  <2>1. list \o <<>> = list
    BY ONLY <1>5, ConcatEmptySeq
  <2> QED BY <2>1, <1>2
<1> HIDE DEF list
<1>7. u \in Usage /\ u.model \in {0, 1} /\ u.speech = 0
  <2>1. p.usage \in Usage /\ p.usage = ZeroUsage
    BY <1>1, <1>2 DEF Process
  <2> DEFINE a == AddUsage(p.usage, ModelCall)
  <2>2. a \in Usage /\ a.model = 1 /\ a.speech = 0 /\ p.usage.model = 0 /\ p.usage.speech = 0
    BY ONLY <2>1, UsageAdds
  <2> HIDE DEF a
  <2>3. u = IF p.carried THEN a ELSE p.usage
    BY DEF a
  <2> QED BY ONLY <2>1, <2>2, <2>3
<1>8. run' = [run EXCEPT ![r] = q]
  BY <1>1, <1>6 DEF list
<1> HIDE DEF u
<1>9. /\ q \in Process /\ q.at = "report" /\ q.dir = d /\ q.stage = "plan"
      /\ q.usage = u /\ q.artifacts = list
  <2>1. "report" \in Ats /\ (p.known \/ p.carried) \in BOOLEAN
    BY <1>2 DEF Ats
  <2> QED BY <1>1, <1>2, <1>5, <1>7, <2>1 DEF Process
<1> HIDE DEF q
<1>10. Accounts(r, q, b)
  <2>1. /\ b.answered.model = 0 /\ b.answered.speech = 0 /\ b.failed.model = 1 /\ b.failed.speech = 0
    <3>1. b.answered = ZeroUsage /\ b.failed = ModelCall
      BY <1>2
    <3> QED BY ONLY <3>1, UsageAdds
  <2>2. /\ q.usage.model <= b.answered.model + b.failed.model
        /\ q.usage.speech <= b.answered.speech + b.failed.speech
    BY ONLY <1>7, <1>9, <2>1
  <2> QED BY <1>2, <1>9, <2>2 DEF Accounts, Early, Loop, Words, Voice
<1>11. ASSUME NEW gs \in OnDisk, gs["failure.json"] = "whole",
              \A g \in Names : g # "failure.json" => gs[g] = files[d][g]
       PROVE  Filed(r, q, gs)
  BY <1>5, <1>9, <1>11 DEF Filed, Backed
<1>12. q.at \notin {"exit 0", "exit 1"}
  BY <1>9
<1>13. PipelineInv /\ Writes(r, "failure.json") /\ UNCHANGED <<manifest, billed>> /\ r \in Runs
  OBVIOUS
<1> QED BY ONLY <1>2, <1>4, <1>8, <1>9, <1>10, <1>11, <1>12, <1>13, WritingKeeps

\* The last step of a run that writes its manifest.
LEMMA ManifestKeeps ==
  ASSUME PipelineInv, NEW r \in Runs, NEW m, WritesManifest(r, m), UNCHANGED billed,
         \/ /\ run[r].at = "complete" /\ run' = [run EXCEPT ![r].at = "exit 0"]
            /\ m = Says(run[r], "complete", IF r \in CreateRuns THEN run[r].artifacts
                                            ELSE <<"plan.json", "manifest.json">>, TRUE)
         \/ /\ run[r].at = "report" /\ run' = [run EXCEPT ![r].at = "exit 1"]
            /\ m = Says(run[r], "failed", Append(run[r].artifacts, "manifest.json"), run[r].known)
  PROVE  PipelineInv'
<1> DEFINE p == run[r]
           b == billed[r]
           d == run[r].dir
           gs == files'[d]
<1>1. /\ p \in Process /\ b \in Bill /\ Accounts(r, p, b) /\ run \in [Runs -> Process]
      /\ billed \in [Runs -> Bill] /\ DOMAIN manifest = RunIds
      /\ p.at \in {"complete", "report"}
  BY AtRun DEF PipelineInv, PipelineTyped
<1>2. d # NoDir
  BY <1>1 DEF Accounts, Early
<1>3. d \in RunIds /\ files[d] \in OnDisk /\ Filed(r, p, files[d])
  BY <1>2, AtRun
<1>4. /\ "manifest.json" \in Names /\ "plan.json" \in Names /\ "script.json" \in Names
      /\ "transcript.md" \in Names /\ "episode.wav" \in Names
  BY DEF Names
<1>5. /\ Writes(r, "manifest.json") /\ manifest' = [manifest EXCEPT ![d] = m]
  BY DEF WritesManifest
<1>6. /\ DOMAIN manifest' = RunIds /\ manifest'[d] = m
      /\ \A e \in RunIds : e # d => manifest'[e] = manifest[e]
  BY <1>1, <1>3, <1>5
<1>7. Touches(r, "manifest.json") /\ gs["manifest.json"] = "whole"
  BY <1>2, <1>4, <1>5, <1>6, WritesTouches
<1>8. /\ StaysIn(d) /\ gs \in OnDisk
      /\ \A g \in Names : g # "manifest.json" => gs[g] = files[d][g]
  BY <1>3, <1>7 DEF Touches, StaysIn
<1>9. PICK e \in {"exit 0", "exit 1"} :
        /\ run' = [run EXCEPT ![r].at = e]
        /\ e = "exit 0" <=> p.at = "complete"
        /\ m = IF e = "exit 0"
               THEN Says(p, "complete", IF r \in CreateRuns THEN p.artifacts
                                        ELSE <<"plan.json", "manifest.json">>, TRUE)
               ELSE Says(p, "failed", Append(p.artifacts, "manifest.json"), p.known)
  OBVIOUS
<1> DEFINE q == [p EXCEPT !.at = e]
<1>10. StepsTo(r, q, b)
  BY <1>1, <1>9 DEF StepsTo
<1>11. /\ q \in Process /\ q.at = e /\ q.dir = d /\ q.stage = p.stage /\ q.usage = p.usage
       /\ q.known = p.known /\ q.beats = p.beats /\ q.reviews = p.reviews
       /\ q.artifacts = p.artifacts
  BY <1>1 DEF Process, Ats
<1> HIDE DEF q
<1>12. Accounts(r, q, b)
  BY <1>1, <1>2, <1>9, <1>11 DEF Accounts, Early, Loop, Words, Voice, InSynthesis
<1>13. Filed(r, q, gs)
  <2>1. \A i \in DOMAIN p.artifacts : p.artifacts[i] \in Names
    <3>1. p.artifacts \in Seq(Names)
      BY <1>1 DEF Process
    <3> QED BY <3>1, NamesInSeq
  <2>2. \A f \in Names : Backed(f, files[d]) => Backed(f, gs)
    BY <1>4, <1>8 DEF Backed
  <2>3. \A i \in DOMAIN p.artifacts : Backed(p.artifacts[i], gs)
    BY <2>1, <2>2, <1>3 DEF Filed
  <2>4. p.stage = "synthesis" => WordsKept(q, gs)
    <3>1. p.stage = "synthesis" => WordsKept(p, files[d])
      BY <1>3 DEF Filed
    <3> QED BY <3>1, <1>4, <1>8, <1>11 DEF WordsKept
  <2>5. q.at = "exit 0" =>
          /\ gs["plan.json"] = "whole"
          /\ r \in CreateRuns => p.artifacts = AllArtifacts /\ gs["transcript.md"] = "whole"
                                 /\ gs["episode.wav"] = "whole"
    BY <1>3, <1>4, <1>8, <1>9, <1>11 DEF Filed
  <2>6. p.stage # "synthesis" => \A i \in DOMAIN p.artifacts : p.artifacts[i] # "transcript.md"
    BY <1>3 DEF Filed
  <2>7. q.at \in {"exit 0", "exit 1"}
    BY <1>9, <1>11
  <2>8. gs["manifest.json"] = "whole"
    BY <1>7
  <2> QED BY ONLY <2>3, <2>4, <2>5, <2>6, <2>7, <2>8, <1>11 DEF Filed
<1>14. ManifestSays(r, q, manifest'[d])
  BY <1>6, <1>9, <1>11 DEF ManifestSays, Says
<1> QED BY <1>1, <1>8, <1>10, <1>11, <1>12, <1>13, <1>14, RunSteps

-----------------------------------------------------------------------------
(* Every step *)

\* The actions that may fail on the way to the words, and those that cannot.
LEMMA WordsStepKeeps ==
  ASSUME PipelineInv, NEW r \in Runs
  PROVE  /\ PlanFails(r) => PipelineInv'
         /\ WritesPlan(r) => PipelineInv'
         /\ BeatFails(r) => PipelineInv'
         /\ ScriptRefused(r) => PipelineInv'
         /\ WritesScript(r) => PipelineInv'
         /\ WritesTranscript(r) => PipelineInv'
<1>1. ModelCall \in Usage
  BY UsageAdds
<1>2. ASSUME PlanFails(r) PROVE PipelineInv'
  <2>1. /\ run[r].at = "plan" /\ run[r].at \notin Early \cup {"exit 0", "exit 1"}
        /\ run' = [run EXCEPT ![r].at = "report"] /\ UNCHANGED <<files, manifest>>
        /\ MayCost(r, ModelCall) \/ Answers(r, ModelCall)
    BY <1>2 DEF PlanFails, Fails, Early
  <2>2. run[r].stage # "synthesis"
    BY <2>1, AtRun DEF Accounts, Fresh
  <2> QED BY <1>1, <2>1, <2>2, FailsKeeps
<1>3. ASSUME WritesPlan(r) PROVE PipelineInv'
  <2>1. CASE /\ Writes(r, "plan.json")
             /\ IF r \in CreateRuns THEN PlanReported(r) ELSE PlanCommandDone(r)
    BY <2>1, <1>3, PlanWrittenKeeps DEF WritesPlan
  <2>2. CASE Tears(r, "plan.json") /\ Fails(r)
    <3>1. /\ run[r].at = "write plan" /\ run[r].at \notin Early \cup {"exit 0", "exit 1"}
          /\ run' = [run EXCEPT ![r].at = "report"] /\ UNCHANGED <<manifest, billed>>
          /\ "plan.json" \in FileInHand(r)
      BY <2>2, <1>3 DEF WritesPlan, Fails, Early, FileInHand
    <3> QED BY <2>2, <3>1, FailsKeeps
  <2> QED BY <2>1, <2>2, <1>3 DEF WritesPlan
<1>4. ASSUME BeatFails(r) PROVE PipelineInv'
  <2>1. /\ run[r].at = "beat" /\ run[r].at \notin Early \cup {"exit 0", "exit 1"}
        /\ run' = [run EXCEPT ![r].at = "report"] /\ UNCHANGED <<files, manifest>>
        /\ MayCost(r, ModelCall)
    BY <1>4 DEF BeatFails, Fails, Early
  <2> QED BY <1>1, <2>1, FailsKeeps
<1>5. ASSUME ScriptRefused(r) PROVE PipelineInv'
  <2>1. /\ run[r].at = "write script" /\ run[r].at \notin Early \cup {"exit 0", "exit 1"}
        /\ run' = [run EXCEPT ![r].at = "report"] /\ UNCHANGED <<files, manifest>>
        /\ UNCHANGED billed
    BY <1>5 DEF ScriptRefused, Fails, Early
  <2> QED BY <2>1, FailsKeeps
<1>6. ASSUME WritesScript(r) PROVE PipelineInv'
  <2>1. CASE Writes(r, "script.json") /\ run' = [run EXCEPT ![r].at = "write transcript"]
    BY <2>1, <1>6, ScriptWrittenKeeps DEF WritesScript
  <2>2. CASE Tears(r, "script.json") /\ Fails(r)
    <3>1. /\ run[r].at = "write script" /\ run[r].at \notin Early \cup {"exit 0", "exit 1"}
          /\ run' = [run EXCEPT ![r].at = "report"] /\ UNCHANGED <<manifest, billed>>
          /\ "script.json" \in FileInHand(r)
      BY <2>2, <1>6 DEF WritesScript, Fails, Early, FileInHand
    <3> QED BY <2>2, <3>1, FailsKeeps
  <2> QED BY <2>1, <2>2, <1>6 DEF WritesScript
<1>7. ASSUME WritesTranscript(r) PROVE PipelineInv'
  <2> DEFINE Whole ==
        /\ Writes(r, "transcript.md")
        /\ run' = [run EXCEPT ![r].at = "speak", ![r].stage = "synthesis",
                     ![r].beat = 1, ![r].known = TRUE,
                     ![r].artifacts = @ \o <<"script.json", "transcript.md">>,
                     ![r].usage = AddUsage(@, run[r].pending),
                     ![r].pending = ZeroUsage]
  <2>1. CASE Whole
    <3>1. run[r] \in Process /\ run \in [Runs -> Process]
      BY DEF PipelineInv, PipelineTyped
    <3>2. /\ Writes(r, "transcript.md")
          /\ run' = [run EXCEPT ![r].at = "speak", ![r].stage = "synthesis",
                            ![r].beat = 1, ![r].known = TRUE,
                            ![r].artifacts = run[r].artifacts \o <<"script.json", "transcript.md">>,
                            ![r].usage = AddUsage(run[r].usage, run[r].pending),
                            ![r].pending = ZeroUsage]
      BY <2>1, <3>1
    <3> QED BY <3>2, <1>7, TranscriptWrittenKeeps DEF WritesTranscript
  <2>2. CASE Tears(r, "transcript.md") /\ Fails(r)
    <3>1. /\ run[r].at = "write transcript" /\ run[r].at \notin Early \cup {"exit 0", "exit 1"}
          /\ run' = [run EXCEPT ![r].at = "report"] /\ UNCHANGED <<manifest, billed>>
          /\ "transcript.md" \in FileInHand(r)
      BY <2>2, <1>7 DEF WritesTranscript, Fails, Early, FileInHand
    <3> QED BY <2>2, <3>1, FailsKeeps
  <2> QED BY <2>1, <2>2, <1>7 DEF WritesTranscript
<1> QED BY <1>2, <1>3, <1>4, <1>5, <1>6, <1>7

\* Those of the voice.
LEMMA VoiceStepKeeps ==
  ASSUME PipelineInv, NEW r \in Runs
  PROVE  /\ TurnFails(r) => PipelineInv'
         /\ TurnTimesOut(r) => PipelineInv'
         /\ JoinFails(r) => PipelineInv'
         /\ WritesAudio(r) => PipelineInv'
         /\ RewritesTranscript(r) => PipelineInv'
<1>1. ASSUME TurnFails(r) PROVE PipelineInv'
  <2>1. /\ run[r].at = "speak" /\ run[r].at \notin Early \cup {"exit 0", "exit 1"}
        /\ run' = [run EXCEPT ![r].at = "report"] /\ UNCHANGED <<files, manifest>>
        /\ MayCost(r, SpokenTurn) /\ SpokenTurn \in Usage
    BY <1>1, UsageAdds DEF TurnFails, Fails, Early
  <2> QED BY <2>1, FailsKeeps
<1>2. ASSUME TurnTimesOut(r) PROVE PipelineInv'
  <2>1. /\ run[r].at = "speak" /\ run[r].at \notin Early \cup {"exit 0", "exit 1"}
        /\ run' = [run EXCEPT ![r].at = "report"] /\ UNCHANGED <<files, manifest>>
        /\ UNCHANGED billed
    BY <1>2 DEF TurnTimesOut, Fails, Early
  <2> QED BY <2>1, FailsKeeps
<1>3. ASSUME JoinFails(r) PROVE PipelineInv'
  <2>1. /\ run[r].at = "write audio" /\ run[r].at \notin Early \cup {"exit 0", "exit 1"}
        /\ run' = [run EXCEPT ![r].at = "report"] /\ UNCHANGED <<files, manifest>>
        /\ UNCHANGED billed
    BY <1>3 DEF JoinFails, Fails, Early
  <2> QED BY <2>1, FailsKeeps
<1>4. ASSUME WritesAudio(r) PROVE PipelineInv'
  <2>1. CASE Writes(r, "episode.wav") /\ run' = [run EXCEPT ![r].at = "rewrite transcript"]
    BY <2>1, <1>4, AudioWrittenKeeps DEF WritesAudio
  <2>2. CASE Tears(r, "episode.wav") /\ Fails(r)
    <3>1. /\ run[r].at = "write audio" /\ run[r].at \notin Early \cup {"exit 0", "exit 1"}
          /\ run' = [run EXCEPT ![r].at = "report"] /\ UNCHANGED <<manifest, billed>>
          /\ "episode.wav" \in FileInHand(r)
      BY <2>2, <1>4 DEF WritesAudio, Fails, Early, FileInHand
    <3> QED BY <2>2, <3>1, FailsKeeps
  <2> QED BY <2>1, <2>2, <1>4 DEF WritesAudio
<1>5. ASSUME RewritesTranscript(r) PROVE PipelineInv'
  <2> DEFINE Whole ==
        /\ Writes(r, "transcript.md")
        /\ run' = [run EXCEPT ![r].at = "complete",
                     ![r].artifacts = @ \o <<"episode.wav", "manifest.json">>,
                     ![r].usage = AddUsage(@, run[r].pending),
                     ![r].pending = ZeroUsage]
  <2>1. CASE Whole
    <3>1. run[r] \in Process /\ run \in [Runs -> Process]
      BY DEF PipelineInv, PipelineTyped
    <3>2. /\ Writes(r, "transcript.md")
          /\ run' = [run EXCEPT ![r].at = "complete",
                            ![r].artifacts = run[r].artifacts \o <<"episode.wav", "manifest.json">>,
                            ![r].usage = AddUsage(run[r].usage, run[r].pending),
                            ![r].pending = ZeroUsage]
      BY <2>1, <3>1
    <3> QED BY <3>2, <1>5, TranscriptRewrittenKeeps DEF RewritesTranscript
  <2>2. CASE Tears(r, "transcript.md") /\ Fails(r)
    <3>1. /\ run[r].at = "rewrite transcript" /\ run[r].at \notin Early \cup {"exit 0", "exit 1"}
          /\ run' = [run EXCEPT ![r].at = "report"] /\ UNCHANGED <<manifest, billed>>
          /\ "transcript.md" \in FileInHand(r)
      BY <2>2, <1>5 DEF RewritesTranscript, Fails, Early, FileInHand
    <3> QED BY <2>2, <3>1, FailsKeeps
  <2> QED BY <2>1, <2>2, <1>5 DEF RewritesTranscript
<1> QED BY <1>1, <1>2, <1>3, <1>4, <1>5

\* The ends of a run.
LEMMA EndStepKeeps ==
  ASSUME PipelineInv, NEW r \in Runs
  PROVE  /\ Completes(r) => PipelineInv'
         /\ Diagnoses(r) => PipelineInv'
         /\ Reports(r) => PipelineInv'
         /\ Killed(r) => PipelineInv'
<1>1. ASSUME Completes(r) PROVE PipelineInv'
  <2> DEFINE list == IF r \in CreateRuns THEN run[r].artifacts
                     ELSE <<"plan.json", "manifest.json">>
             m == Manifest(r, "complete", list, TRUE)
  <2>1. CASE WritesManifest(r, m) /\ run' = [run EXCEPT ![r].at = "exit 0"]
    <3>1. m = Says(run[r], "complete", list, TRUE)
      BY DEF Manifest, Says
    <3> HIDE DEF m
    <3> QED BY <2>1, <3>1, <1>1, ManifestKeeps DEF Completes
  <2>2. CASE TearsManifest(r) /\ Fails(r)
    <3>1. /\ run[r].at = "complete" /\ run[r].at \notin Early \cup {"exit 0", "exit 1"}
          /\ run' = [run EXCEPT ![r].at = "report"] /\ UNCHANGED billed
      BY <2>2, <1>1 DEF Completes, Fails, Early
    <3> QED BY <2>2, <3>1, FailsKeeps
  <2> QED BY <2>1, <2>2, <1>1 DEF Completes
<1>2. ASSUME Diagnoses(r) PROVE PipelineInv'
  <2> DEFINE Whole ==
        /\ Writes(r, "failure.json")
        /\ run' = [run EXCEPT ![r].at = "report",
                     ![r].artifacts = <<"failure.json">> \o @,
                     ![r].usage = IF run[r].carried THEN AddUsage(@, ModelCall) ELSE @,
                     ![r].known = @ \/ run[r].carried]
  <2>1. CASE Whole
    <3>1. run[r] \in Process /\ run \in [Runs -> Process]
      BY DEF PipelineInv, PipelineTyped
    <3>2. /\ Writes(r, "failure.json")
          /\ run' = [run EXCEPT ![r].at = "report",
                   ![r].artifacts = <<"failure.json">> \o run[r].artifacts,
                   ![r].usage = IF run[r].carried THEN AddUsage(run[r].usage, ModelCall)
                                ELSE run[r].usage,
                   ![r].known = run[r].known \/ run[r].carried]
      BY <2>1, <3>1
    <3> QED BY <3>2, <1>2, DiagnosedKeeps DEF Diagnoses
  <2>2. CASE Tears(r, "failure.json") /\ run' = [run EXCEPT ![r].at = "unreported"]
    <3>1. /\ run[r].at = "diagnose" /\ run[r].at \notin Early \cup {"exit 0", "exit 1"}
          /\ UNCHANGED <<manifest, billed>> /\ "failure.json" \in FileInHand(r)
      BY <1>2 DEF Diagnoses, Early, FileInHand
    <3> QED BY <2>2, <3>1, FailsKeeps
  <2> QED BY <2>1, <2>2, <1>2 DEF Diagnoses
<1>3. ASSUME Reports(r) PROVE PipelineInv'
  <2> DEFINE list == Append(run[r].artifacts, "manifest.json")
             m == Manifest(r, "failed", list, run[r].known)
  <2>1. CASE WritesManifest(r, m) /\ run' = [run EXCEPT ![r].at = "exit 1"]
    <3>1. m = Says(run[r], "failed", list, run[r].known)
      BY DEF Manifest, Says
    <3> HIDE DEF m
    <3> QED BY <2>1, <3>1, <1>3, ManifestKeeps DEF Reports
  <2>2. CASE TearsManifest(r) /\ run' = [run EXCEPT ![r].at = "unreported"]
    <3>1. /\ run[r].at = "report" /\ run[r].at \notin Early \cup {"exit 0", "exit 1"}
          /\ UNCHANGED billed
      BY <1>3 DEF Reports, Early
    <3> QED BY <2>2, <3>1, FailsKeeps
  <2> QED BY <2>1, <2>2, <1>3 DEF Reports
<1>4. ASSUME Killed(r) PROVE PipelineInv'
  <2>1. /\ run' = [run EXCEPT ![r].at = "killed"] /\ UNCHANGED billed
        /\ run[r].at \notin {"exit 0", "exit 1"} /\ run[r].dir # NoDir
    BY <1>4 DEF Killed, Ended, Endings
  <2>2. run[r].at \notin Early
    BY <2>1, AtRun DEF Accounts
  <2>3. \/ UNCHANGED <<files, manifest>>
        \/ (\E f \in FileInHand(r) : Tears(r, f)) /\ UNCHANGED manifest
        \/ TearsManifest(r)
    BY <1>4 DEF Killed
  <2> QED BY <2>1, <2>2, <2>3, FailsKeeps
<1> QED BY <1>1, <1>2, <1>3, <1>4

\* The invariant is inductive.
LEMMA NextKeeps ==
  ASSUME PipelineInv, [Next]_vars PROVE PipelineInv'
<1>1. CASE UNCHANGED vars
  BY <1>1 DEF vars, PipelineInv, PipelineTyped, OwnDirs, Free, RunInv
<1>2. CASE Next
  <2>1. PICK r \in Runs : OwnStep(r) \/ TurnSpoken(r) \/ TurnFails(r) \/ Killed(r)
    BY <1>2 DEF Next
  <2> QED BY <2>1, DeclinesKeeps, ReservesKeeps, PlanAnsweredKeeps, PlanUnusableKeeps,
             BeatWrittenKeeps, ReviewAnswersKeeps, ReviewFailsKeeps, RevisionAnswersKeeps,
             RevisionFailsKeeps, TurnSpokenKeeps, WordsStepKeeps, VoiceStepKeeps, EndStepKeeps
          DEF OwnStep
<1> QED BY <1>1, <1>2

\* No process has begun, no directory is there.
LEMMA InitHolds ==
  ASSUME Init PROVE PipelineInv
<1> DEFINE p == [at |-> "start", dir |-> NoDir, stage |-> "plan", beats |-> 0, beat |-> 1,
                 pending |-> ZeroUsage, usage |-> ZeroUsage, known |-> FALSE,
                 carried |-> FALSE, artifacts |-> <<>>, reviews |-> <<>>]
           b == [answered |-> ZeroUsage, failed |-> ZeroUsage]
<1>1. \A r \in Runs : run[r] = p /\ billed[r] = b
  BY DEF Init
<1>2. p \in Process
  <2>1. <<>> \in Seq(Names) /\ <<>> \in Seq(Review)
    OBVIOUS
  <2>2. 1 \in 1..MaxBeats /\ 0 \in 0..MaxBeats
    BY ONLY PipelineAssumption
  <2>3. "start" \in Ats /\ ZeroUsage \in Usage
    BY UsageAdds DEF Ats, Early
  <2> QED BY <2>1, <2>2, <2>3 DEF Process
<1>3. b \in Bill
  BY UsageAdds DEF Bill
<1>4. PipelineTyped
  <2>1. run \in [Runs -> Process] /\ billed \in [Runs -> Bill] /\ DOMAIN manifest = RunIds
    BY <1>2, <1>3 DEF Init
  <2>2. files \in [RunIds -> OnDisk]
    BY DEF Init, OnDisk, Contents
  <2> QED BY <2>1, <2>2 DEF PipelineTyped
<1>5. OwnDirs
  BY <1>1 DEF OwnDirs, Init
<1>6. \A r : Accounts(r, p, b)
  <2>1. /\ p.usage.model <= b.answered.model + b.failed.model
        /\ p.usage.speech <= b.answered.speech + b.failed.speech
    BY UsageAdds
  <2> QED BY <2>1 DEF Accounts, Fresh, Early, Loop, Words, Voice
<1> HIDE DEF b
<1>7. p.dir = NoDir
  OBVIOUS
<1> HIDE DEF p
<1> QED BY <1>1, <1>4, <1>5, <1>6, <1>7 DEF PipelineInv, RunInv

\* The invariant holds always: each run's accounts, files and manifest agree, whatever
\* its calls and writes come to and wherever it is killed.
THEOREM PipelineInvAlways == Spec => []PipelineInv
<1>1. Init => PipelineInv
  BY InitHolds
<1>2. PipelineInv /\ [Next]_vars => PipelineInv'
  BY NextKeeps
<1> QED BY <1>1, <1>2, PTL DEF Spec

-----------------------------------------------------------------------------
(* What follows *)

\* What a manifest says, field by field.
LEMMA Fields ==
  ASSUME NEW m, NEW p, NEW status, NEW artifacts, NEW measured,
         m = Says(p, status, artifacts, measured)
  PROVE  /\ m.status = status /\ m.stage = p.stage /\ m.artifacts = artifacts
         /\ m.measured = measured /\ m.usage = (IF measured THEN p.usage ELSE ZeroUsage)
         /\ m.review = ReviewSummary(p.reviews)
BY DEF Says

\* What the manifest m of a run says at its end: the status, the artifacts, and
\* whether it states a cost.
Tells(p, m, status, artifacts, measured) ==
  /\ m.status = status /\ m.stage = p.stage /\ m.artifacts = artifacts
  /\ m.measured = measured /\ m.usage = (IF measured THEN p.usage ELSE ZeroUsage)
  /\ m.review = ReviewSummary(p.reviews)

\* At its end a run's manifest is about that run, and there is none before.
LEMMA ManifestAtEnd ==
  ASSUME PipelineInv, NEW r \in Runs, run[r].dir # NoDir
  PROVE  /\ run[r] \in Process /\ billed[r] \in Bill /\ run[r].dir \in RunIds
         /\ Accounts(r, run[r], billed[r]) /\ Filed(r, run[r], files[run[r].dir])
         /\ run[r].at = "exit 0" =>
              Tells(run[r], manifest[run[r].dir], "complete",
                IF r \in CreateRuns THEN run[r].artifacts
                ELSE <<"plan.json", "manifest.json">>, TRUE)
         /\ run[r].at = "exit 1" =>
              Tells(run[r], manifest[run[r].dir], "failed",
                Append(run[r].artifacts, "manifest.json"), run[r].known)
         /\ run[r].at \notin {"exit 0", "exit 1"} => manifest[run[r].dir] = NoManifest
<1> DEFINE p == run[r]
           m == manifest[p.dir]
           whole == IF r \in CreateRuns THEN p.artifacts ELSE <<"plan.json", "manifest.json">>
           listed == Append(p.artifacts, "manifest.json")
<1>1. /\ p \in Process /\ billed[r] \in Bill /\ p.dir \in RunIds
      /\ Accounts(r, p, billed[r]) /\ Filed(r, p, files[p.dir]) /\ ManifestSays(r, p, m)
  BY AtRun
<1>2. /\ p.at = "exit 0" => m = Says(p, "complete", whole, TRUE)
      /\ p.at = "exit 1" => m = Says(p, "failed", listed, p.known)
      /\ p.at \notin {"exit 0", "exit 1"} => m = NoManifest
  BY <1>1 DEF ManifestSays
<1> HIDE DEF m, whole, listed
<1>3. ASSUME p.at = "exit 0" PROVE Tells(p, m, "complete", whole, TRUE)
  <2> DEFINE yes == TRUE
  <2>1. m = Says(p, "complete", whole, yes)
    BY <1>2, <1>3
  <2> HIDE DEF p, yes
  <2>2. Tells(p, m, "complete", whole, yes)
    BY ONLY <2>1, Fields DEF Tells
  <2> QED BY <2>2 DEF yes
<1>4. ASSUME p.at = "exit 1" PROVE Tells(p, m, "failed", listed, p.known)
  <2>1. m = Says(p, "failed", listed, p.known)
    BY <1>2, <1>4
  <2> HIDE DEF p
  <2> QED BY ONLY <2>1, Fields DEF Tells
<1> QED BY <1>1, <1>2, <1>3, <1>4 DEF m, whole, listed

\* What a finished episode and a finished plan list.
LEMMA ListedArtifacts ==
  /\ {AllArtifacts[i] : i \in DOMAIN AllArtifacts} = Names \ {"failure.json"}
  /\ {<<"plan.json", "manifest.json">>[i] : i \in DOMAIN <<"plan.json", "manifest.json">>}
       = {"plan.json", "manifest.json"}
<1>1. {AllArtifacts[i] : i \in DOMAIN AllArtifacts} = Names \ {"failure.json"}
  <2> DEFINE s == AllArtifacts
  <2>1. /\ DOMAIN s = 1..5 /\ s[1] = "plan.json" /\ s[2] = "script.json" /\ s[3] = "transcript.md"
        /\ s[4] = "episode.wav" /\ s[5] = "manifest.json"
    BY DEF AllArtifacts
  <2>2. 1..5 = {1, 2, 3, 4, 5}
    OBVIOUS
  <2> HIDE DEF s
  <2>3. {s[i] : i \in {1, 2, 3, 4, 5}} = {s[1], s[2], s[3], s[4], s[5]}
    OBVIOUS
  <2>4. Names \ {"failure.json"} = {"plan.json", "script.json", "transcript.md", "episode.wav", "manifest.json"}
    BY DEF Names
  <2>5. {s[i] : i \in DOMAIN s} = Names \ {"failure.json"}
    BY <2>1, <2>2, <2>3, <2>4
  <2> QED BY <2>5 DEF s
<1>2. {<<"plan.json", "manifest.json">>[i] : i \in DOMAIN <<"plan.json", "manifest.json">>}
        = {"plan.json", "manifest.json"}
  <2> DEFINE s == <<"plan.json", "manifest.json">>
  <2>1. DOMAIN s = 1..2 /\ s[1] = "plan.json" /\ s[2] = "manifest.json"
    OBVIOUS
  <2>2. 1..2 = {1, 2}
    OBVIOUS
  <2> HIDE DEF s
  <2>3. {s[i] : i \in {1, 2}} = {s[1], s[2]}
    OBVIOUS
  <2>4. {s[i] : i \in DOMAIN s} = {"plan.json", "manifest.json"}
    BY <2>1, <2>2, <2>3
  <2> QED BY <2>4 DEF s
<1> QED BY <1>1, <1>2

\* What a manifest lists can be found, with the one exception.
LEMMA ListedIsThere ==
  ASSUME PipelineInv, NEW r \in Runs, run[r].dir # NoDir, run[r].at \in {"exit 0", "exit 1"},
         NEW f \in Listed(run[r].dir)
  PROVE  \/ files[run[r].dir][f] = "whole"
         \/ f = "transcript.md" /\ manifest[run[r].dir].status = "failed"
            /\ files[run[r].dir]["episode.wav"] = "whole"
<1> DEFINE p == run[r]
           d == run[r].dir
           fs == files[d]
<1>1. /\ p \in Process /\ Accounts(r, p, billed[r]) /\ Filed(r, p, fs)
      /\ fs["manifest.json"] = "whole"
  BY ManifestAtEnd DEF Filed
<1>2. CASE p.at = "exit 0"
  <2>1. manifest[d].artifacts = IF r \in CreateRuns THEN p.artifacts
                                ELSE <<"plan.json", "manifest.json">>
    BY <1>2, ManifestAtEnd DEF Tells
  <2>2. CASE r \in CreateRuns
    <3>1. p.artifacts = AllArtifacts /\ p.stage = "synthesis"
          /\ fs["transcript.md"] = "whole" /\ fs["episode.wav"] = "whole"
      BY <1>1, <1>2, <2>2 DEF Filed, Accounts
    <3>2. WordsKept(p, fs)
      BY <1>1, <3>1 DEF Filed
    <3>3. Listed(d) = Names \ {"failure.json"}
      BY <2>1, <2>2, <3>1, ListedArtifacts DEF Listed
    <3> QED BY <1>1, <3>1, <3>2, <3>3 DEF WordsKept, Names
  <2>3. CASE r \notin CreateRuns
    <3>1. Listed(d) = {"plan.json", "manifest.json"}
      BY <2>1, <2>3, ListedArtifacts DEF Listed
    <3>2. fs["plan.json"] = "whole"
      BY <1>1, <1>2 DEF Filed
    <3> QED BY <1>1, <3>1, <3>2
  <2> QED BY <2>2, <2>3
<1>3. CASE p.at = "exit 1"
  <2> DEFINE list == Append(p.artifacts, "manifest.json")
  <2>1. manifest[d].artifacts = list /\ manifest[d].status = "failed"
    BY <1>3, ManifestAtEnd DEF Tells
  <2>2. PICK i \in DOMAIN list : f = list[i]
    BY <2>1 DEF Listed
  <2>3. \/ f = "manifest.json"
        \/ i \in DOMAIN p.artifacts /\ f = p.artifacts[i]
    <3>1. p.artifacts \in Seq(Names)
      BY <1>1 DEF Process
    <3>2. "manifest.json" \in Names
      BY DEF Names
    <3>3. ASSUME NEW s \in Seq(Names), NEW x \in Names, NEW j \in DOMAIN Append(s, x)
          PROVE  Append(s, x)[j] = x \/ (j \in DOMAIN s /\ Append(s, x)[j] = s[j])
      BY ONLY <3>3
    <3> QED BY <2>2, <3>1, <3>2, <3>3
  <2>4. f = "manifest.json" \/ Backed(f, fs)
    BY <2>3, <1>1 DEF Filed
  <2> QED BY <1>1, <2>1, <2>4 DEF Backed
<1> QED BY <1>2, <1>3

\* The types follow ...
LEMMA InvTypeOK == PipelineInv => TypeOK
<1> SUFFICES ASSUME PipelineInv PROVE TypeOK
  OBVIOUS
<1>1. /\ \A r \in Runs : run[r] \in Process /\ billed[r] \in Bill
      /\ files \in [RunIds -> [Names -> {"absent", "partial", "whole"}]]
  BY DEF PipelineInv, PipelineTyped, OnDisk, Contents
<1> QED BY <1>1 DEF TypeOK, Process, Bill

\* ... and what the manifest tells,
LEMMA InvManifestTells == PipelineInv => ManifestTells
<1> SUFFICES ASSUME PipelineInv PROVE ManifestTells
  OBVIOUS
<1>1. TypeOK
  BY InvTypeOK
<1>2. ASSUME NEW r \in Runs, run[r].dir # NoDir
      PROVE  /\ run[r].at = "exit 0" <=> manifest[run[r].dir].status = "complete"
             /\ run[r].at = "exit 0" => Listed(run[r].dir) = Deliverables(r)
             /\ run[r].at = "exit 1" => /\ manifest[run[r].dir].status = "failed"
                                        /\ manifest[run[r].dir].stage = run[r].stage
             /\ manifest[run[r].dir] # NoManifest =>
                  \A f \in Listed(run[r].dir) :
                    \/ files[run[r].dir][f] = "whole"
                    \/ f = "transcript.md" /\ manifest[run[r].dir].status = "failed"
                       /\ files[run[r].dir]["episode.wav"] = "whole"
  <2> DEFINE p == run[r]
             m == manifest[run[r].dir]
  <2>1. /\ p.at = "exit 0" => m.status = "complete"
        /\ p.at = "exit 1" => m.status = "failed" /\ m.stage = p.stage
        /\ p.at \notin {"exit 0", "exit 1"} => m = NoManifest /\ m.status = "none"
    <3>1. p.at = "exit 0" => m.status = "complete"
      BY <1>2, ManifestAtEnd DEF Tells
    <3>2. p.at = "exit 1" => m.status = "failed" /\ m.stage = p.stage
      BY <1>2, ManifestAtEnd DEF Tells
    <3>3. p.at \notin {"exit 0", "exit 1"} => m = NoManifest
      BY <1>2, ManifestAtEnd
    <3>4. NoManifest.status = "none"
      BY DEF NoManifest
    <3> QED BY <3>1, <3>2, <3>3, <3>4
  <2>2. ASSUME p.at = "exit 0" PROVE Listed(p.dir) = Deliverables(r)
    <3>1. m.artifacts = IF r \in CreateRuns THEN p.artifacts ELSE <<"plan.json", "manifest.json">>
      BY <1>2, <2>2, ManifestAtEnd DEF Tells
    <3>2. CASE r \in CreateRuns
      <4>1. p.artifacts = AllArtifacts
        BY <1>2, <2>2, <3>2, ManifestAtEnd DEF Filed
      <4>2. Deliverables(r) = Names \ {"failure.json"}
        BY <3>2, PipelineAssumption DEF Deliverables
      <4> QED BY <3>1, <3>2, <4>1, <4>2, ListedArtifacts DEF Listed
    <3>3. CASE r \notin CreateRuns
      <4>1. Deliverables(r) = {"plan.json", "manifest.json"}
        BY <3>3 DEF Deliverables, Runs
      <4> QED BY <3>1, <3>3, <4>1, ListedArtifacts DEF Listed
    <3> QED BY <3>2, <3>3
  <2>3. ASSUME m # NoManifest, NEW f \in Listed(p.dir)
        PROVE  \/ files[p.dir][f] = "whole"
               \/ f = "transcript.md" /\ m.status = "failed" /\ files[p.dir]["episode.wav"] = "whole"
    BY <1>2, <2>1, <2>3, ListedIsThere
  <2> QED BY <2>1, <2>2, <2>3
<1> QED BY <1>1, <1>2 DEF ManifestTells

\* that the words come first,
LEMMA InvWordsBeforeVoice == PipelineInv => WordsBeforeVoice
<1> SUFFICES ASSUME PipelineInv, NEW r \in Runs, run[r].dir # NoDir, run[r].stage = "synthesis"
             PROVE  /\ files[run[r].dir]["plan.json"] = "whole"
                    /\ files[run[r].dir]["script.json"] = "whole"
                    /\ \/ files[run[r].dir]["transcript.md"] = "whole"
                       \/ files[run[r].dir]["episode.wav"] = "whole"
  BY DEF WordsBeforeVoice
<1>1. WordsKept(run[r], files[run[r].dir])
  BY AtRun DEF Filed
<1> QED BY <1>1 DEF WordsKept

\* and that the bill is honest.
LEMMA InvBillHonest == PipelineInv => BillHonest
<1> SUFFICES ASSUME PipelineInv, NEW r \in Runs, run[r].dir # NoDir,
                    run[r].at \in {"exit 0", "exit 1"}
             PROVE  LET m == manifest[run[r].dir]
                        b == billed[r]
                    IN /\ m.usage.model <= b.answered.model + b.failed.model
                       /\ m.usage.speech <= b.answered.speech + b.failed.speech
                       /\ m.status = "complete" => m.usage = b.answered
                       /\ m.stage = "synthesis" =>
                            /\ m.measured /\ m.usage.model = b.answered.model
                            /\ m.review.reviewed + m.review.unchecked =
                                 IF Reviews(r) THEN run[r].beats ELSE 0
                            /\ m.usage.model - 1 - run[r].beats - m.review.reviewed
                                 \in m.review.revised..m.review.revised + m.review.unfixed
  BY DEF BillHonest
<1> DEFINE p == run[r]
           m == manifest[run[r].dir]
           b == billed[r]
<1>1. /\ p \in Process /\ b \in Bill /\ Accounts(r, p, b)
  BY ManifestAtEnd
<1>2. /\ m.measured = (p.at = "exit 0" \/ p.known)
      /\ m.usage = (IF m.measured THEN p.usage ELSE ZeroUsage)
      /\ m.status = (IF p.at = "exit 0" THEN "complete" ELSE "failed")
      /\ m.stage = p.stage /\ m.review = ReviewSummary(p.reviews)
  <2>1. CASE p.at = "exit 0"
    BY <2>1, ManifestAtEnd DEF Tells
  <2>2. CASE p.at = "exit 1"
    <3>1. p.known \in BOOLEAN
      BY <1>1 DEF Process
    <3> QED BY <2>2, <3>1, ManifestAtEnd DEF Tells
  <2> QED BY <2>1, <2>2
<1> HIDE DEF m
<1>3. /\ m.usage.model <= b.answered.model + b.failed.model
      /\ m.usage.speech <= b.answered.speech + b.failed.speech
  <2>1. /\ p.usage.model <= b.answered.model + b.failed.model
        /\ p.usage.speech <= b.answered.speech + b.failed.speech
    BY <1>1 DEF Accounts
  <2>2. /\ b.answered.model \in Nat /\ b.answered.speech \in Nat
        /\ b.failed.model \in Nat /\ b.failed.speech \in Nat
    BY <1>1 DEF Bill, Usage
  <2>3. ZeroUsage.model = 0 /\ ZeroUsage.speech = 0
    BY UsageAdds
  <2>4. m.usage = p.usage \/ m.usage = ZeroUsage
    BY <1>2
  <2> QED BY ONLY <2>1, <2>2, <2>3, <2>4
<1>4. m.status = "complete" => m.usage = b.answered
  BY <1>1, <1>2 DEF Accounts
<1>5. ASSUME m.stage = "synthesis"
      PROVE  /\ m.measured /\ m.usage.model = b.answered.model
             /\ m.review.reviewed + m.review.unchecked = IF Reviews(r) THEN p.beats ELSE 0
             /\ m.usage.model - 1 - p.beats - m.review.reviewed
                  \in m.review.revised..m.review.revised + m.review.unfixed
  <2>1. InSynthesis(r, p, b)
    BY <1>1, <1>2, <1>5 DEF Accounts
  <2>2. m.measured /\ m.usage = p.usage
    BY <1>2, <2>1 DEF InSynthesis
  <2> QED BY <1>2, <2>1, <2>2 DEF InSynthesis, PaysFor
<1> QED BY <1>3, <1>4, <1>5 DEF m

\* What a run's directory holds at its end tells how it ended, and what its
\* manifest lists is on disk, however often calls and writes fail and whenever
\* the process is killed (cli.ts, manifest.ts).
THEOREM ManifestCorrect == Spec => []ManifestTells
<1>1. PipelineInv => ManifestTells
  BY InvManifestTells
<1> QED BY <1>1, PipelineInvAlways, PTL

\* No turn is sent to the voice before the words are on disk, and they stay
\* there through whatever the synthesis does (create.ts).
THEOREM WordsCorrect == Spec => []WordsBeforeVoice
<1>1. PipelineInv => WordsBeforeVoice
  BY InvWordsBeforeVoice
<1> QED BY <1>1, PipelineInvAlways, PTL

\* A manifest charges for nothing that was not spent, a complete one for all
\* that was answered, and the reviews it counts are those it charges for
\* (dialogue.ts, review.ts, manifest.ts).
THEOREM BillCorrect == Spec => []BillHonest
<1>1. PipelineInv => BillHonest
  BY InvBillHonest
<1> QED BY <1>1, PipelineInvAlways, PTL

-----------------------------------------------------------------------------
(* EpisodeSeries: what a player plays, and that audio in the store has its   *)
(* own words beside it, for any number of pages, runs, starts and commands   *)
(* by hand.  A publication writes one file after the other and may be cut    *)
(* off anywhere, so the invariant says which of them are of the run that is  *)
(* being published, by the place the shell has reached (Sealed).             *)

Publishing == {"encode", "page", "archive", "beside", "upload"}
ShellAts == {"prompt", "next", "create", "wire", "build"} \cup Publishing

RunsTyped ==
  /\ runs \in [Pages -> Seq(RunKinds)]
  /\ \A p \in Pages : Len(runs[p]) <= MaxRuns

ShellTyped ==
  /\ shell \in [at : ShellAts, page : 0..NumPages, run : Version,
                serves : {"nobody", "series", "operator"}]
  /\ series \in [queue : SUBSET Pages, fail_streak : 0..2, retried : BOOLEAN]

\* A command is about a page; only the series goes on to another one, and it
\* has not seen two failures in a row while it is at work on a page.
AtWork ==
  /\ shell.at \in {"create", "wire", "build"} \cup Publishing => shell.page \in Pages
  /\ shell.at \in {"next", "create", "wire", "build"} => shell.serves = "series"
  /\ shell.at \in {"create", "wire"} \cup Publishing /\ shell.serves = "series"
       => series.fail_streak < 2

\* What is published is a run with audio, ...
Complete(p, take) == take \in DOMAIN runs[p] /\ runs[p][take] = "complete"

\* ... and the files that were placed so far are its own.
Sealed ==
  LET f == holdings[shell.page]
  IN  /\ shell.at \in Publishing => Complete(shell.page, shell.run)
      /\ shell.at \in Publishing \ {"encode"} => f.encoded = shell.run
      /\ shell.at \in {"archive", "beside", "upload"} => f.page = shell.run
      /\ shell.at \in {"beside", "upload"} => f.archive = shell.run
      /\ shell.at = "upload" => f.beside = shell.run
      /\ shell.at = "wire" => shell.run # 0 /\ f.stored = shell.run

\* A page the series has been through with has a player and audio, and there is
\* no audio without words.
CanPlay(p, f) ==
  /\ p \in wired => f.player # 0 /\ f.stored # 0
  /\ f.stored # 0 => Complete(p, f.stored) /\ f.page # 0 /\ f.archive # 0

Playable(p) == CanPlay(p, holdings[p])

SeriesInv ==
  /\ RunsTyped /\ holdings \in [Pages -> Files] /\ ShellTyped /\ wired \subseteq Pages
  /\ AtWork /\ Sealed
  /\ \A p \in Pages : Playable(p)

-------------------------------------------------------------------------------
(* What a run leaves *)

\* Runs are only added: what was complete stays where it is.
Grows == RunsTyped' /\ \A p \in Pages : \A take : Complete(p, take) => Complete(p, take)'

\* A run that is added is the last one of its page.
LEMMA LeavingGrows ==
  ASSUME RunsTyped, NEW p \in Pages, NEW kind \in RunKinds, LeavesRun(p, kind)
  PROVE  /\ Grows
         /\ Len(runs[p]) + 1 \in Version
         /\ kind = "complete" => \A n : n = Len(runs[p]) + 1 => Complete(p, n)'
  <1>1. /\ runs \in [Pages -> Seq(RunKinds)] /\ Len(runs[p]) < MaxRuns
        /\ runs' = [runs EXCEPT ![p] = Append(runs[p], kind)]
    BY DEF RunsTyped, LeavesRun
  <1> DEFINE new == Append(runs[p], kind)
  <1>2. /\ new \in Seq(RunKinds) /\ Len(new) = Len(runs[p]) + 1
        /\ \A i \in 1..Len(runs[p]) : new[i] = runs[p][i]
        /\ new[Len(runs[p]) + 1] = kind
        /\ Len(runs[p]) \in Nat /\ DOMAIN runs[p] = 1..Len(runs[p])
        /\ DOMAIN new = 1..(Len(runs[p]) + 1)
    BY <1>1
  <1>3. runs'[p] = new /\ \A q \in Pages : q # p => runs'[q] = runs[q]
    BY <1>1
  <1> HIDE DEF new
  <1>4. RunsTyped'
    <2>1. runs' \in [Pages -> Seq(RunKinds)]
      BY <1>1, <1>2 DEF new
    <2>2. ASSUME NEW q \in Pages PROVE Len(runs'[q]) <= MaxRuns
      BY <1>1, <1>2, <1>3, SeriesAssumption DEF RunsTyped
    <2> QED
      BY <2>1, <2>2 DEF RunsTyped
  <1>5. ASSUME NEW q \in Pages, NEW take, Complete(q, take) PROVE Complete(q, take)'
    <2>1. CASE q = p
      <3>1. take \in 1..Len(runs[p]) /\ runs[p][take] = "complete"
        BY <1>2, <1>5, <2>1 DEF Complete
      <3>2. take \in 1..(Len(runs[p]) + 1) /\ new[take] = "complete"
        BY <1>2, <3>1
      <3> QED
        BY <1>2, <1>3, <2>1, <3>2 DEF Complete
    <2>2. CASE q # p
      BY <1>3, <1>5, <2>2 DEF Complete
    <2> QED
      BY <2>1, <2>2
  <1>6. Len(runs[p]) + 1 \in 1..(Len(runs[p]) + 1) /\ Len(runs[p]) + 1 \in 0..MaxRuns
    BY <1>1, <1>2, SeriesAssumption
  <1>7. ASSUME kind = "complete", NEW n, n = Len(runs[p]) + 1 PROVE Complete(p, n)'
    <2>1. n \in DOMAIN new /\ new[n] = "complete"
      BY <1>2, <1>6, <1>7
    <2> QED
      BY <1>3, <2>1 DEF Complete
  <1> QED
    BY <1>4, <1>5, <1>6, <1>7 DEF Grows, Version

\* A command that fails adds one, or none.
LEMMA AnythingGrows ==
  ASSUME RunsTyped, UNCHANGED runs \/ \E p \in Pages : LeavesAnything(p)
  PROVE  Grows
  <1>1. CASE UNCHANGED runs
    BY <1>1 DEF Grows, RunsTyped, Complete
  <1>2. CASE \E p \in Pages, kind \in RunKinds : LeavesRun(p, kind)
    BY <1>2, LeavingGrows
  <1> QED
    BY <1>1, <1>2 DEF LeavesAnything
-------------------------------------------------------------------------------
(* Steps that write no file *)

Shell == [at : ShellAts, page : 0..NumPages, run : Version,
          serves : {"nobody", "series", "operator"}]
Series == [queue : SUBSET Pages, fail_streak : 0..2, retried : BOOLEAN]

\* Without a file written, only the shell's place is to be looked at.
LEMMA NoFileWritten ==
  ASSUME SeriesInv, Grows, UNCHANGED <<holdings, wired>>, shell' \in Shell,
         series' \in Series, AtWork', Sealed'
  PROVE  SeriesInv'
  <1>1. ASSUME NEW p \in Pages PROVE Playable(p)'
    <2>1. Playable(p) /\ holdings'[p] = holdings[p]
      BY DEF SeriesInv
    <2>2. Complete(p, holdings[p].stored) => Complete(p, holdings[p].stored)'
      BY DEF Grows, Complete
    <2> QED
      BY <2>1, <2>2 DEF Playable, CanPlay, Complete
  <1> QED
    BY <1>1 DEF SeriesInv, Grows, ShellTyped, Shell, Series

\* At the prompt and between two pages nothing is promised.
LEMMA RestsSealed ==
  ASSUME shell'.at \in {"prompt", "next", "create", "build"} PROVE Sealed'
  BY DEF Sealed, Publishing

\* The command ends.
LEMMA ExitsRests ==
  ASSUME SeriesInv, shell' = Idle, series' \in Series
  PROVE  shell' \in Shell /\ series' \in Series /\ AtWork' /\ Sealed'
  <1>1. shell' \in Shell /\ shell'.at = "prompt"
    BY SeriesAssumption DEF Idle, Shell, ShellAts, Version
  <1>2. AtWork'
    BY <1>1 DEF AtWork, Publishing
  <1> QED
    BY <1>1, <1>2, RestsSealed

\* Nothing is queued when no series runs.
LEMMA OffIsTyped == SeriesOff \in Series
  BY DEF SeriesOff, Series

\* A page fails, which ends the work on it.
LEMMA PageFailsRests ==
  ASSUME SeriesInv, PageFails,
         shell.at \in {"create", "wire"} \cup Publishing, shell.serves = "series"
  PROVE  shell' \in Shell /\ series' \in Series /\ AtWork' /\ Sealed'
  <1>1. /\ shell \in Shell /\ series \in Series /\ series.fail_streak < 2
        /\ shell' = [shell EXCEPT !.at = "next"]
        /\ series' = [series EXCEPT !.fail_streak = series.fail_streak + 1]
    BY DEF SeriesInv, ShellTyped, AtWork, Shell, Series, PageFails
  <1>2. /\ shell' \in Shell /\ shell'.at = "next" /\ shell'.serves = "series"
        /\ series' \in Series
    BY <1>1 DEF Shell, Series, ShellAts
  <1>3. AtWork'
    BY <1>2 DEF AtWork, Publishing
  <1> QED
    BY <1>2, <1>3, RestsSealed

\* A failed command is tried again from its start: nothing has changed but that.
LEMMA TriesOnceMoreRests ==
  ASSUME SeriesInv, Grows, NEW at \in {"create", "encode"}, TriesOnceMore(at),
         shell.at \in {"create"} \cup Publishing, shell.serves = "series",
         at = "encode" => shell.at \in Publishing
  PROVE  shell' \in Shell /\ series' \in Series /\ AtWork' /\ Sealed'
  <1>1. /\ shell \in Shell /\ series \in Series /\ series.fail_streak < 2 /\ shell.page \in Pages
        /\ shell' = [shell EXCEPT !.at = at] /\ series' = [series EXCEPT !.retried = TRUE]
    BY DEF SeriesInv, ShellTyped, AtWork, Shell, Series, TriesOnceMore
  <1>2. /\ shell' \in Shell /\ series' \in Series
        /\ shell'.at = at /\ shell'.page = shell.page /\ shell'.run = shell.run
        /\ shell'.serves = "series" /\ series'.fail_streak < 2
    BY <1>1 DEF Shell, Series, ShellAts, Publishing
  <1>3. AtWork'
    BY <1>1, <1>2 DEF AtWork
  <1>4. Sealed'
    <2>1. CASE at = "create"
      BY <1>2, <2>1, RestsSealed
    <2>2. CASE at = "encode"
      <3>1. Complete(shell.page, shell.run)
        BY <2>2 DEF SeriesInv, Sealed
      <3>2. ASSUME NEW p, NEW take, p = shell.page, take = shell.run PROVE Complete(p, take)'
        BY <1>1, <3>1, <3>2 DEF Grows
      <3>3. Complete(shell.page, shell.run)'
        BY <1>2, <3>2 DEF Complete
      <3> QED
        BY <1>2, <2>2, <3>3 DEF Sealed
    <2> QED
      BY <2>1, <2>2
  <1> QED
    BY <1>2, <1>3, <1>4

\* A start queues the pages that remain.
LEMMA StartsSeriesKeeps == ASSUME SeriesInv, StartsSeries PROVE SeriesInv'
  <1>1. /\ shell' = [Idle EXCEPT !.at = "next", !.serves = "series"]
        /\ series' = [SeriesOff EXCEPT !.queue = Queue]
        /\ UNCHANGED <<runs, holdings, wired>>
    BY DEF StartsSeries
  <1>2. Grows
    BY <1>1, AnythingGrows DEF SeriesInv
  <1>3. /\ shell' \in Shell /\ series' \in Series
        /\ shell'.at = "next" /\ shell'.serves = "series"
    <2>1. /\ shell' = [at |-> "next", page |-> 0, run |-> 0, serves |-> "series"]
          /\ series' = [queue |-> Queue, fail_streak |-> 0, retried |-> FALSE]
      BY <1>1 DEF Idle, SeriesOff
    <2>2. Queue \in SUBSET Pages /\ 0 \in 0..NumPages /\ 0 \in Version
      BY SeriesAssumption DEF Queue, Version
    <2> QED
      BY <2>1, <2>2 DEF Shell, Series, ShellAts
  <1>4. AtWork'
    BY <1>3 DEF AtWork, Publishing
  <1> QED
    BY <1>1, <1>2, <1>3, <1>4, RestsSealed, NoFileWritten

\* The smallest page of the queue is next, or the series exits.
LEMMA NextPageKeeps == ASSUME SeriesInv, NextPage PROVE SeriesInv'
  <1>1. /\ UNCHANGED <<runs, holdings, wired>> /\ shell.at = "next" /\ shell.serves = "series"
        /\ shell \in Shell /\ series \in Series
    BY DEF NextPage, SeriesInv, AtWork, ShellTyped, Shell, Series
  <1>2. Grows
    BY <1>1, AnythingGrows DEF SeriesInv
  <1>3. CASE SeriesExits
    BY <1>1, <1>2, <1>3, ExitsRests, OffIsTyped, NoFileWritten DEF SeriesExits
  <1>4. ASSUME NEW p \in series.queue, series.fail_streak < 2,
               shell' = [shell EXCEPT !.at = "create", !.page = p],
               series' = [series EXCEPT !.queue = series.queue \ {p}, !.retried = FALSE]
        PROVE  SeriesInv'
    <2>1. p \in Pages
      BY <1>1 DEF Series
    <2>2. /\ shell' \in Shell /\ series' \in Series
          /\ shell'.at = "create" /\ shell'.page = p /\ shell'.serves = "series"
          /\ series'.fail_streak < 2
      <3>1. series.queue \ {p} \in SUBSET Pages /\ p \in 0..NumPages
        BY <1>1, <2>1, SeriesAssumption DEF Series, Pages
      <3>2. shell' \in Shell /\ shell'.at = "create" /\ shell'.page = p /\ shell'.serves = "series"
        BY <1>1, <1>4, <3>1 DEF Shell, ShellAts
      <3>3. series' \in Series /\ series'.fail_streak < 2
        BY <1>1, <1>4, <3>1 DEF Series
      <3> QED
        BY <3>2, <3>3
    <2>3. AtWork'
      BY <2>1, <2>2 DEF AtWork, Publishing
    <2> QED
      BY <1>1, <1>2, <2>2, <2>3, RestsSealed, NoFileWritten
  <1> QED
    BY <1>3, <1>4 DEF NextPage

\* The pipeline leaves a complete run, or fails and is run again or given up.
LEMMA SeriesCreatesKeeps == ASSUME SeriesInv, SeriesCreates PROVE SeriesInv'
  <1>1. /\ UNCHANGED <<holdings, wired>> /\ shell.at = "create" /\ shell.serves = "series"
        /\ shell \in Shell /\ series \in Series /\ shell.page \in Pages
        /\ series.fail_streak < 2 /\ RunsTyped
    BY DEF SeriesCreates, SeriesInv, AtWork, ShellTyped, Shell, Series
  <1>2. CASE /\ LeavesRun(shell.page, "complete")
             /\ shell' = [shell EXCEPT !.at = "encode", !.run = Len(runs[shell.page]) + 1]
             /\ series' = [series EXCEPT !.retried = FALSE]
    <2>1. /\ Grows /\ Len(runs[shell.page]) + 1 \in Version
          /\ \A n : n = Len(runs[shell.page]) + 1 => \A p : p = shell.page => Complete(p, n)'
      <3>1. "complete" \in RunKinds
        BY DEF RunKinds
      <3>2. ASSUME NEW p, p = shell.page
            PROVE  /\ Grows /\ Len(runs[p]) + 1 \in Version
                   /\ \A n : n = Len(runs[p]) + 1 => Complete(p, n)'
        BY <1>1, <1>2, <3>1, <3>2, LeavingGrows
      <3> QED
        BY <3>2
    <2>2. /\ shell' \in Shell /\ series' \in Series
          /\ shell'.at = "encode" /\ shell'.page = shell.page
          /\ shell'.run = Len(runs[shell.page]) + 1
          /\ shell'.serves = "series" /\ series'.fail_streak < 2
      BY <1>1, <1>2, <2>1 DEF Shell, Series, ShellAts, Publishing
    <2>3. AtWork'
      BY <1>1, <2>2 DEF AtWork
    <2>4. Complete(shell.page, shell.run)'
      BY <2>1, <2>2 DEF Complete
    <2>5. Sealed'
      BY <2>2, <2>4 DEF Sealed
    <2> QED
      BY <1>1, <2>1, <2>2, <2>3, <2>5, NoFileWritten
  <1>3. CASE LeavesAnything(shell.page) /\ (TriesOnceMore("create") \/ PageFails)
    <2>1. Grows
      BY <1>1, <1>3, AnythingGrows
    <2> QED
      BY <1>1, <1>3, <2>1, TriesOnceMoreRests, PageFailsRests, NoFileWritten
  <1> QED
    BY <1>2, <1>3 DEF SeriesCreates
\* The site is built.
LEMMA BuildsKeeps == ASSUME SeriesInv, Builds PROVE SeriesInv'
  <1>1. /\ UNCHANGED <<runs, holdings, wired>> /\ shell.at = "build" /\ shell.serves = "series"
        /\ shell \in Shell /\ series \in Series
    BY DEF Builds, SeriesInv, AtWork, ShellTyped, Shell, Series
  <1>2. Grows
    BY <1>1, AnythingGrows DEF SeriesInv
  <1>3. CASE SeriesExits
    BY <1>1, <1>2, <1>3, ExitsRests, OffIsTyped, NoFileWritten DEF SeriesExits
  <1>4. CASE /\ shell' = [shell EXCEPT !.at = "next"]
             /\ series' = [series EXCEPT !.fail_streak = 0]
    <2>1. /\ shell' \in Shell /\ series' \in Series
          /\ shell'.at = "next" /\ shell'.serves = "series"
      BY <1>1, <1>4 DEF Shell, Series, ShellAts
    <2>2. AtWork'
      BY <2>1 DEF AtWork, Publishing
    <2> QED
      BY <1>1, <1>2, <2>1, <2>2, RestsSealed, NoFileWritten
  <1> QED
    BY <1>3, <1>4 DEF Builds

\* The operator makes an episode
LEMMA CreatesByHandKeeps ==
  ASSUME SeriesInv, NEW p \in HandPages, CreatesByHand(p) PROVE SeriesInv'
  <1>1. /\ UNCHANGED <<holdings, shell, series, wired>> /\ shell = Idle /\ p \in Pages
        /\ RunsTyped /\ series \in Series
        /\ \E kind \in RunKinds : LeavesRun(p, kind)
    BY SeriesAssumption DEF CreatesByHand, ByHand, SeriesInv, ShellTyped, Series, Pages
  <1>2. Grows
    BY <1>1, LeavingGrows
  <1> QED
    BY <1>1, <1>2, ExitsRests, NoFileWritten

\* and publishes a complete run.
LEMMA PublishesByHandKeeps ==
  ASSUME SeriesInv, NEW p \in HandPages, NEW n \in DOMAIN runs[p], PublishesByHand(p, n)
  PROVE  SeriesInv'
  <1>1. /\ UNCHANGED <<runs, holdings, series, wired>> /\ p \in Pages /\ series \in Series
        /\ RunsTyped /\ runs[p][n] = "complete"
        /\ shell' = [at |-> "encode", page |-> p, run |-> n, serves |-> "operator"]
    BY SeriesAssumption DEF PublishesByHand, SeriesInv, ShellTyped, Series, Pages
  <1>2. Grows
    BY <1>1, AnythingGrows
  <1>3. Complete(p, n) /\ n \in Version /\ p \in 0..NumPages
    BY <1>1, SeriesAssumption DEF RunsTyped, Complete, Version, Pages
  <1>4. shell' \in Shell
    BY <1>1, <1>3 DEF Shell, ShellAts, Publishing
  <1>6. AtWork'
    BY <1>1 DEF AtWork, Publishing
  <1>7. Sealed'
    BY <1>1, <1>3 DEF Sealed, Complete
  <1> QED
    BY <1>1, <1>2, <1>4, <1>6, <1>7, NoFileWritten

-------------------------------------------------------------------------------
(* Steps that write one *)

\* With one file written, that page must be playable still.
LEMMA OneFileWritten ==
  ASSUME SeriesInv, UNCHANGED <<runs, wired>>, NEW p \in Pages, NEW f \in Files, CanPlay(p, f),
         holdings' = [holdings EXCEPT ![p] = f], shell' \in Shell, series' \in Series,
         AtWork', Sealed'
  PROVE  SeriesInv'
  <1>1. /\ holdings \in [Pages -> Files] /\ holdings' \in [Pages -> Files] /\ holdings'[p] = f
        /\ \A q \in Pages : q # p => holdings'[q] = holdings[q]
    BY DEF SeriesInv
  <1>2. ASSUME NEW q \in Pages PROVE Playable(q)'
    <2>1. Playable(q)
      BY DEF SeriesInv
    <2>2. CASE q = p
      BY <1>1, <2>2 DEF Playable, CanPlay, Complete
    <2>3. CASE q # p
      BY <1>1, <2>1, <2>3 DEF Playable, CanPlay, Complete
    <2> QED
      BY <2>2, <2>3
  <1> QED
    BY <1>1, <1>2 DEF SeriesInv, RunsTyped, ShellTyped, Shell, Series

\* A file is whole, or torn.
LEMMA WholeFile == \A n \in Version : n \in FileVersion /\ -n \in FileVersion
  BY SeriesAssumption DEF Version, FileVersion

\* A publication has a page and a run that is not 0, and goes on to its next file.
LEMMA Published ==
  ASSUME SeriesInv, shell.at \in Publishing
  PROVE  /\ shell \in Shell /\ series \in Series /\ shell.page \in Pages
         /\ shell.run \in Version /\ shell.run # 0 /\ Complete(shell.page, shell.run)
         /\ holdings \in [Pages -> Files] /\ holdings[shell.page] \in Files
         /\ CanPlay(shell.page, holdings[shell.page])
  <1>1. /\ shell \in Shell /\ series \in Series /\ shell.page \in Pages
        /\ Complete(shell.page, shell.run) /\ holdings \in [Pages -> Files]
        /\ runs \in [Pages -> Seq(RunKinds)]
    BY DEF SeriesInv, ShellTyped, Shell, Series, AtWork, Sealed, RunsTyped
  <1>2. shell.run \in 1..Len(runs[shell.page])
    BY <1>1 DEF Complete
  <1>3. shell.run \in Version /\ shell.run # 0
    BY <1>1, <1>2 DEF Shell
  <1>4. Playable(shell.page)
    BY <1>1 DEF SeriesInv
  <1> QED
    BY <1>1, <1>3, <1>4 DEF Playable

\* The next place in a publication.
LEMMA GoesOn ==
  ASSUME SeriesInv, shell.at \in Publishing, NEW next \in Publishing,
         shell' = [shell EXCEPT !.at = next], UNCHANGED series
  PROVE  /\ shell' \in Shell /\ series' \in Series /\ AtWork'
         /\ shell'.at = next /\ shell'.page = shell.page /\ shell'.run = shell.run
  <1>1. /\ shell \in Shell /\ series \in Series /\ shell.page \in Pages
    BY Published
  <1>2. /\ shell' \in Shell /\ shell'.at = next /\ shell'.page = shell.page
        /\ shell'.run = shell.run /\ shell'.serves = shell.serves
    BY <1>1 DEF Shell, ShellAts
  <1>3. AtWork'
    BY <1>1, <1>2 DEF AtWork, SeriesInv, Publishing
  <1> QED
    BY <1>1, <1>2, <1>3

\* The audio is encoded,
LEMMA EncodesKeeps == ASSUME SeriesInv, Encodes PROVE SeriesInv'
  <1> DEFINE p == shell.page
             f == [holdings[p] EXCEPT !.encoded = shell.run]
  <1>1. /\ shell.at = "encode" /\ shell.at \in Publishing /\ "page" \in Publishing
        /\ holdings' = [holdings EXCEPT ![p]["encoded"] = shell.run]
        /\ shell' = [shell EXCEPT !.at = "page"] /\ UNCHANGED <<runs, series, wired>>
    BY DEF Encodes, Places, Publishing
  <1>2. /\ p \in Pages /\ holdings \in [Pages -> Files] /\ holdings[p] \in Files
        /\ shell.run \in Version /\ Complete(p, shell.run) /\ CanPlay(p, holdings[p])
    BY <1>1, Published
  <1>3. holdings' = [holdings EXCEPT ![p] = f]
    BY <1>1, <1>2
  <1>4. f \in Files /\ CanPlay(p, f) /\ f.encoded = shell.run
    BY <1>2, WholeFile DEF Files, CanPlay
  <1>5. /\ shell' \in Shell /\ series' \in Series /\ AtWork'
        /\ shell'.at = "page" /\ shell'.page = p /\ shell'.run = shell.run
    BY <1>1, GoesOn
  <1>6. holdings'[p] = f
    BY <1>2, <1>3
  <1> HIDE DEF p, f
  <1>7. Sealed'
    BY <1>1, <1>2, <1>4, <1>5, <1>6 DEF Sealed, Complete
  <1> QED
    BY <1>1, <1>2, <1>3, <1>4, <1>5, <1>7, OneFileWritten
\* the transcript goes on the page,
LEMMA PlacesTranscriptKeeps == ASSUME SeriesInv, PlacesTranscript PROVE SeriesInv'
  <1> DEFINE p == shell.page
             f == [holdings[p] EXCEPT !.page = shell.run]
  <1>1. /\ shell.at = "page" /\ shell.at \in Publishing /\ "archive" \in Publishing
        /\ holdings' = [holdings EXCEPT ![p]["page"] = shell.run]
        /\ shell' = [shell EXCEPT !.at = "archive"] /\ UNCHANGED <<runs, series, wired>>
    BY DEF PlacesTranscript, Places, Publishing
  <1>2. /\ p \in Pages /\ holdings \in [Pages -> Files] /\ holdings[p] \in Files /\ shell.run # 0
        /\ shell.run \in Version /\ Complete(p, shell.run) /\ CanPlay(p, holdings[p])
    BY <1>1, Published
  <1>3. holdings' = [holdings EXCEPT ![p] = f]
    BY <1>1, <1>2
  <1>4. f \in Files /\ CanPlay(p, f) /\ f.page = shell.run
    BY <1>2, WholeFile DEF Files, CanPlay
  <1>5. f.encoded = shell.run
    BY <1>1, <1>2 DEF SeriesInv, Sealed, Publishing, Files
  <1>6. /\ shell' \in Shell /\ series' \in Series /\ AtWork'
        /\ shell'.at = "archive" /\ shell'.page = p /\ shell'.run = shell.run
    BY <1>1, GoesOn
  <1>7. holdings'[p] = f
    BY <1>2, <1>3
  <1> HIDE DEF p, f
  <1>8. Sealed'
    BY <1>1, <1>2, <1>4, <1>5, <1>6, <1>7 DEF Sealed, Complete
  <1> QED
    BY <1>1, <1>2, <1>3, <1>4, <1>6, <1>8, OneFileWritten

\* the run is archived
LEMMA ArchivesKeeps == ASSUME SeriesInv, Archives PROVE SeriesInv'
  <1> DEFINE p == shell.page
             f == [holdings[p] EXCEPT !.archive = shell.run]
  <1>1. /\ shell.at = "archive" /\ shell.at \in Publishing /\ "beside" \in Publishing
        /\ holdings' = [holdings EXCEPT ![p]["archive"] = shell.run]
        /\ shell' = [shell EXCEPT !.at = "beside"] /\ UNCHANGED <<runs, series, wired>>
    BY DEF Archives, Places, Publishing
  <1>2. /\ p \in Pages /\ holdings \in [Pages -> Files] /\ holdings[p] \in Files /\ shell.run # 0
        /\ shell.run \in Version /\ Complete(p, shell.run) /\ CanPlay(p, holdings[p])
    BY <1>1, Published
  <1>3. holdings' = [holdings EXCEPT ![p] = f]
    BY <1>1, <1>2
  <1>4. f \in Files /\ CanPlay(p, f) /\ f.archive = shell.run
    BY <1>2, WholeFile DEF Files, CanPlay
  <1>5. f.encoded = shell.run /\ f.page = shell.run
    BY <1>1, <1>2 DEF SeriesInv, Sealed, Publishing, Files
  <1>6. /\ shell' \in Shell /\ series' \in Series /\ AtWork'
        /\ shell'.at = "beside" /\ shell'.page = p /\ shell'.run = shell.run
    BY <1>1, GoesOn
  <1>7. holdings'[p] = f
    BY <1>2, <1>3
  <1> HIDE DEF p, f
  <1>8. Sealed'
    BY <1>1, <1>2, <1>4, <1>5, <1>6, <1>7 DEF Sealed, Complete
  <1> QED
    BY <1>1, <1>2, <1>3, <1>4, <1>6, <1>8, OneFileWritten

\* and its rendering put beside the archive.
LEMMA CopiesBesideKeeps == ASSUME SeriesInv, CopiesBeside PROVE SeriesInv'
  <1> DEFINE p == shell.page
             f == [holdings[p] EXCEPT !.beside = shell.run]
  <1>1. /\ shell.at = "beside" /\ shell.at \in Publishing /\ "upload" \in Publishing
        /\ holdings' = [holdings EXCEPT ![p]["beside"] = shell.run]
        /\ shell' = [shell EXCEPT !.at = "upload"] /\ UNCHANGED <<runs, series, wired>>
    BY DEF CopiesBeside, Places, Publishing
  <1>2. /\ p \in Pages /\ holdings \in [Pages -> Files] /\ holdings[p] \in Files /\ shell.run # 0
        /\ shell.run \in Version /\ Complete(p, shell.run) /\ CanPlay(p, holdings[p])
    BY <1>1, Published
  <1>3. holdings' = [holdings EXCEPT ![p] = f]
    BY <1>1, <1>2
  <1>4. f \in Files /\ CanPlay(p, f) /\ f.beside = shell.run
    BY <1>2, WholeFile DEF Files, CanPlay
  <1>5. f.encoded = shell.run /\ f.page = shell.run /\ f.archive = shell.run
    BY <1>1, <1>2 DEF SeriesInv, Sealed, Publishing, Files
  <1>6. /\ shell' \in Shell /\ series' \in Series /\ AtWork'
        /\ shell'.at = "upload" /\ shell'.page = p /\ shell'.run = shell.run
    BY <1>1, GoesOn
  <1>7. holdings'[p] = f
    BY <1>2, <1>3
  <1> HIDE DEF p, f
  <1>8. Sealed'
    BY <1>1, <1>2, <1>4, <1>5, <1>6, <1>7 DEF Sealed, Complete
  <1> QED
    BY <1>1, <1>2, <1>3, <1>4, <1>6, <1>8, OneFileWritten

\* Everything that was placed before the upload is of the run that is uploaded.
LEMMA UploadIsSealed ==
  ASSUME SeriesInv, shell.at = "upload"
  PROVE  LET f == holdings[shell.page]
         IN  /\ f.encoded = shell.run /\ f.page = shell.run
             /\ f.archive = shell.run /\ f.beside = shell.run
  BY DEF SeriesInv, Sealed, Publishing

\* Audio in the store: what is there then may be played, and is of this run.
LEMMA StoredAudio ==
  ASSUME SeriesInv, shell.at = "upload", StoresAudio
  PROVE  \E f \in Files :
           /\ holdings' = [holdings EXCEPT ![shell.page] = f]
           /\ holdings'[shell.page] = f
           /\ CanPlay(shell.page, f) /\ f.stored = shell.run /\ shell.run # 0
           /\ f.page = shell.run /\ f.archive = shell.run /\ f.beside = shell.run
  <1> DEFINE p == shell.page
             f == [holdings[p] EXCEPT !.stored = holdings[p].encoded]
  <1>1. shell.at \in Publishing
    BY DEF Publishing
  <1>2. /\ p \in Pages /\ holdings \in [Pages -> Files] /\ holdings[p] \in Files /\ shell.run # 0
        /\ shell.run \in Version /\ Complete(p, shell.run) /\ CanPlay(p, holdings[p])
    BY <1>1, Published
  <1>3. /\ holdings[p].encoded = shell.run /\ holdings[p].page = shell.run
        /\ holdings[p].archive = shell.run /\ holdings[p].beside = shell.run
    BY UploadIsSealed
  <1>4. holdings' = [holdings EXCEPT ![p] = f] /\ holdings'[p] = f
    BY <1>2 DEF StoresAudio
  <1>5. /\ f \in Files /\ f.stored = shell.run /\ f.page = shell.run
        /\ f.archive = shell.run /\ f.beside = shell.run
    BY <1>2, <1>3 DEF Files
  <1>6. CanPlay(p, f)
    BY <1>2, <1>5 DEF CanPlay
  <1> QED
    BY <1>2, <1>4, <1>5, <1>6
\* The audio is uploaded, by the operator perhaps not.
LEMMA UploadsKeeps == ASSUME SeriesInv, Uploads PROVE SeriesInv'
  <1>1. /\ shell.at = "upload" /\ shell.at \in Publishing /\ UNCHANGED <<runs, series, wired>>
        /\ shell' = IF shell.serves = "series" THEN [shell EXCEPT !.at = "wire"] ELSE Idle
    BY DEF Uploads, Publishing
  <1>2. Grows
    BY <1>1, AnythingGrows DEF SeriesInv
  <1>3. shell \in Shell /\ series \in Series /\ shell.page \in Pages
    BY <1>1, Published
  <1>4. CASE shell.serves # "series"
    <2>1. shell' \in Shell /\ series' \in Series /\ AtWork' /\ Sealed'
      BY <1>1, <1>3, <1>4, ExitsRests
    <2>2. CASE UNCHANGED holdings
      BY <1>1, <1>2, <2>1, <2>2, NoFileWritten
    <2>3. CASE StoresAudio
      BY <1>1, <1>3, <2>1, <2>3, StoredAudio, OneFileWritten
    <2> QED
      BY <2>2, <2>3 DEF Uploads
  <1>5. CASE shell.serves = "series"
    <2>1. StoresAudio
      BY <1>5 DEF Uploads
    <2>2. PICK f \in Files :
            /\ holdings' = [holdings EXCEPT ![shell.page] = f] /\ holdings'[shell.page] = f
            /\ CanPlay(shell.page, f) /\ f.stored = shell.run /\ shell.run # 0
      BY <1>1, <2>1, StoredAudio
    <2>3. /\ shell' \in Shell /\ shell'.at = "wire" /\ shell'.page = shell.page
          /\ shell'.run = shell.run /\ shell'.serves = "series" /\ series' \in Series
      BY <1>1, <1>3, <1>5 DEF Shell, ShellAts
    <2>4. AtWork'
      BY <1>1, <1>3, <1>5, <2>3 DEF AtWork, SeriesInv
    <2>5. Sealed'
      BY <2>2, <2>3 DEF Sealed, Publishing
    <2> QED
      BY <1>1, <1>3, <2>2, <2>3, <2>4, <2>5, OneFileWritten
  <1> QED
    BY <1>4, <1>5

\* What is cut short leaves a file torn, or the audio uploaded all the same.
LEMMA CutShortKeeps ==
  ASSUME SeriesInv, Grows, CutShort, shell.at \in Publishing => UNCHANGED runs, UNCHANGED wired,
         shell' \in Shell, series' \in Series, AtWork', Sealed'
  PROVE  SeriesInv'
  <1>1. CASE UNCHANGED holdings
    BY <1>1, NoFileWritten
  <1>2. ASSUME shell.at \in DOMAIN Writing,
               holdings' = [holdings EXCEPT ![shell.page][Writing[shell.at]] = -shell.run]
        PROVE  SeriesInv'
    <2> DEFINE p == shell.page
               torn(file) == [holdings[p] EXCEPT ![file] = -shell.run]
    <2>1. shell.at \in {"encode", "page", "archive", "beside"}
      BY <1>2 DEF Writing
    <2>2. shell.at \in Publishing /\ Writing[shell.at] \in {"encoded", "page", "archive", "beside"}
      BY <2>1 DEF Writing, Publishing
    <2>3. /\ p \in Pages /\ holdings \in [Pages -> Files] /\ holdings[p] \in Files
          /\ shell.run \in Version /\ shell.run # 0 /\ CanPlay(p, holdings[p])
      BY <2>2, Published
    <2>4. -shell.run \in FileVersion /\ -shell.run # 0
      BY <2>3, WholeFile, SeriesAssumption DEF Version
    <2>5. holdings' = [holdings EXCEPT ![p] = torn(Writing[shell.at])]
      BY <1>2, <2>3
    <2>6. ASSUME NEW file \in {"encoded", "page", "archive", "beside"}
          PROVE  torn(file) \in Files /\ CanPlay(p, torn(file))
      <3>1. CASE file = "encoded"
        BY <2>3, <2>4, <3>1 DEF Files, CanPlay
      <3>2. CASE file = "page"
        BY <2>3, <2>4, <3>2 DEF Files, CanPlay
      <3>3. CASE file = "archive"
        BY <2>3, <2>4, <3>3 DEF Files, CanPlay
      <3>4. CASE file = "beside"
        BY <2>3, <2>4, <3>4 DEF Files, CanPlay
      <3> QED
        BY <2>6, <3>1, <3>2, <3>3, <3>4
    <2> HIDE DEF p, torn
    <2> QED
      BY <2>2, <2>3, <2>5, <2>6, OneFileWritten
  <1>3. CASE shell.at = "upload" /\ StoresAudio
    <2>1. shell.at \in Publishing
      BY <1>3 DEF Publishing
    <2> QED
      BY <1>3, <2>1, Published, StoredAudio, OneFileWritten
  <1> QED
    BY <1>1, <1>2, <1>3 DEF CutShort

\* A publication fails at any of its files, the upload with or without effect.
LEMMA PublishFailsKeeps == ASSUME SeriesInv, PublishFails PROVE SeriesInv'
  <1>1. shell.at \in Publishing /\ UNCHANGED <<runs, wired>> /\ PublishFailed /\ CutShort
    BY DEF PublishFails, Publishing
  <1>2. Grows
    BY <1>1, AnythingGrows DEF SeriesInv
  <1>3. shell \in Shell /\ series \in Series /\ shell.page \in Pages
    BY <1>1, Published
  <1>4. shell' \in Shell /\ series' \in Series /\ AtWork' /\ Sealed'
    <2>1. CASE shell.serves = "series" /\ TriesOnceMore("encode")
      BY <1>1, <1>2, <2>1, TriesOnceMoreRests
    <2>2. CASE shell.serves = "series" /\ PageFails
      BY <1>1, <2>2, PageFailsRests
    <2>3. CASE shell' = Idle /\ UNCHANGED series
      BY <1>3, <2>3, ExitsRests
    <2> QED
      BY <1>1, <2>1, <2>2, <2>3 DEF PublishFailed
  <1> QED
    BY <1>1, <1>2, <1>4, CutShortKeeps

\* The operator interrupts what is running.
LEMMA InterruptedKeeps == ASSUME SeriesInv, Interrupted PROVE SeriesInv'
  <1>1. /\ CutShort /\ UNCHANGED wired /\ SeriesExits /\ RunsTyped
        /\ \/ UNCHANGED runs
           \/ shell.at = "create" /\ shell.page \in Pages /\ LeavesAnything(shell.page)
    BY DEF Interrupted, SeriesInv, AtWork
  <1>2. Grows
    BY <1>1, AnythingGrows
  <1>3. shell.at \in Publishing => UNCHANGED runs
    BY <1>1 DEF Publishing
  <1> QED
    BY <1>1, <1>2, <1>3, ExitsRests, OffIsTyped, CutShortKeeps DEF SeriesExits

\* A player goes on a page: with the series' hand, the page has audio.
LEMMA WiredKeeps ==
  ASSUME SeriesInv, UNCHANGED runs, NEW p \in Pages, NEW n \in Version, Wired(p, n),
         \/ wired' = wired
         \/ wired' = wired \cup {p} /\ n # 0 /\ holdings[p].stored # 0,
         shell' \in Shell, series' \in Series, AtWork',
         shell'.at \in {"prompt", "build"}
  PROVE  SeriesInv'
  <1> DEFINE f == [holdings[p] EXCEPT !.player = IF holdings[p].player = 0 THEN n ELSE holdings[p].player]
  <1>1. holdings \in [Pages -> Files] /\ holdings[p] \in Files /\ Playable(p)
    BY DEF SeriesInv
  <1>2. holdings' = [holdings EXCEPT ![p] = f]
    BY <1>1 DEF Wired
  <1>3. /\ f.stored = holdings[p].stored /\ f.page = holdings[p].page
        /\ f.archive = holdings[p].archive
        /\ holdings[p].player # 0 => f.player # 0
        /\ n # 0 => f.player # 0
    BY <1>1 DEF Files
  <1>4. holdings'[p] = f /\ \A q \in Pages : q # p => holdings'[q] = holdings[q]
    BY <1>1, <1>2
  <1>5. f \in Files /\ holdings' \in [Pages -> Files]
    BY <1>1, <1>2 DEF Files
  <1> HIDE DEF f
  <1>6. ASSUME NEW q \in Pages PROVE Playable(q)'
    <2>1. Playable(q)
      BY DEF SeriesInv
    <2>2. CASE q = p
      BY <1>1, <1>3, <1>4, <2>2 DEF Playable, CanPlay, Complete
    <2>3. CASE q # p
      BY <1>4, <2>1, <2>3 DEF Playable, CanPlay, Complete
    <2> QED
      BY <2>2, <2>3
  <1>7. RunsTyped' /\ wired' \subseteq Pages /\ Sealed'
    BY RestsSealed DEF SeriesInv, RunsTyped
  <1> QED
    BY <1>5, <1>6, <1>7 DEF SeriesInv, ShellTyped, Shell, Series

\* The series puts the player on the page.
LEMMA WiresKeeps == ASSUME SeriesInv, Wires PROVE SeriesInv'
  <1>1. /\ shell.at = "wire" /\ shell.serves = "series" /\ UNCHANGED runs
        /\ shell \in Shell /\ series \in Series /\ shell.page \in Pages
        /\ holdings[shell.page].stored # 0 /\ shell.run \in Version /\ shell.run # 0
    BY DEF Wires, SeriesInv, AtWork, Sealed, ShellTyped, Shell, Series
  <1>2. CASE /\ Wired(shell.page, shell.run) /\ wired' = wired \cup {shell.page}
             /\ shell' = [shell EXCEPT !.at = "build"] /\ UNCHANGED series
    <2>1. /\ shell' \in Shell /\ series' \in Series /\ shell'.at = "build"
          /\ shell'.page = shell.page /\ shell'.serves = "series"
      BY <1>1, <1>2 DEF Shell, ShellAts
    <2>2. AtWork'
      BY <1>1, <2>1 DEF AtWork, Publishing
    <2> QED
      BY <1>1, <1>2, <2>1, <2>2, WiredKeeps
  <1>3. CASE PageFails /\ UNCHANGED <<holdings, wired>>
    <2>1. Grows
      BY <1>1, AnythingGrows DEF SeriesInv
    <2> QED
      BY <1>1, <1>3, <2>1, PageFailsRests, NoFileWritten
  <1> QED
    BY <1>2, <1>3 DEF Wires

\* The prompt is left as it is.
LEMMA AtThePrompt ==
  ASSUME SeriesInv, NEW p \in HandPages, ByHand, UNCHANGED <<shell, series>>
  PROVE  /\ p \in Pages /\ shell' \in Shell /\ series' \in Series /\ AtWork' /\ Sealed'
         /\ shell'.at = "prompt"
  <1>1. shell' = Idle /\ series' \in Series
    BY DEF ByHand, SeriesInv, ShellTyped, Series
  <1> QED
    BY <1>1, ExitsRests, SeriesAssumption DEF Pages, Idle

\* So does the operator.
LEMMA WiresByHandKeeps ==
  ASSUME SeriesInv, NEW p \in HandPages, NEW n \in DOMAIN runs[p], WiresByHand(p, n)
  PROVE  SeriesInv'
  <1>1. UNCHANGED <<runs, shell, series, wired>> /\ Wired(p, n) /\ ByHand
    BY DEF WiresByHand
  <1>2. /\ p \in Pages /\ shell' \in Shell /\ series' \in Series /\ AtWork'
        /\ shell'.at = "prompt"
    BY <1>1, AtThePrompt
  <1>3. n \in Version
    BY <1>2, SeriesAssumption DEF SeriesInv, RunsTyped, Version
  <1> QED
    BY <1>1, <1>2, <1>3, WiredKeeps

\* The newest run is one: a page with audio has one.
LEMMA ArchivesNewestKeeps ==
  ASSUME SeriesInv, NEW p \in HandPages, ArchivesNewest(p) PROVE SeriesInv'
  <1>1. UNCHANGED <<runs, shell, series, wired>> /\ ByHand
    BY DEF ArchivesNewest
  <1>2. /\ p \in Pages /\ shell' \in Shell /\ series' \in Series /\ AtWork' /\ Sealed'
    BY <1>1, AtThePrompt
  <1>3. /\ holdings \in [Pages -> Files] /\ holdings[p] \in Files /\ Playable(p)
        /\ runs[p] \in Seq(RunKinds) /\ Len(runs[p]) <= MaxRuns
    BY <1>2 DEF SeriesInv, RunsTyped
  <1>4. PICK n \in {Len(runs[p]), -Len(runs[p])} : holdings' = [holdings EXCEPT ![p].archive = n]
    BY DEF ArchivesNewest
  <1> DEFINE f == [holdings[p] EXCEPT !.archive = n]
  <1>5. n \in FileVersion /\ (Len(runs[p]) # 0 => n # 0)
    BY <1>3, SeriesAssumption, WholeFile DEF Version
  <1>6. f \in Files
    BY <1>3, <1>5 DEF Files
  <1>7. holdings[p].stored # 0 => Len(runs[p]) # 0
    <2>1. holdings[p].stored # 0 => holdings[p].stored \in 1..Len(runs[p])
      BY <1>3 DEF Playable, CanPlay, Complete
    <2> QED
      BY <1>3, <2>1
  <1>8. CanPlay(p, f)
    BY <1>3, <1>5, <1>7 DEF CanPlay, Playable, Files
  <1>9. holdings' = [holdings EXCEPT ![p] = f]
    BY <1>3, <1>4
  <1> HIDE DEF f
  <1> QED
    BY <1>1, <1>2, <1>6, <1>8, <1>9, OneFileWritten

\* A transcript is rendered anew from its archive, beside it and on the page.
LEMMA RerendersKeeps ==
  ASSUME SeriesInv, NEW p \in HandPages, Rerenders(p) PROVE SeriesInv'
  <1> DEFINE words == holdings[p].archive
  <1>1. UNCHANGED <<runs, shell, series, wired>> /\ ByHand /\ holdings[p].page # 0 /\ words > 0
    BY DEF Rerenders
  <1>2. /\ p \in Pages /\ shell' \in Shell /\ series' \in Series /\ AtWork' /\ Sealed'
    BY <1>1, AtThePrompt
  <1>3. holdings \in [Pages -> Files] /\ holdings[p] \in Files /\ Playable(p)
    BY <1>2 DEF SeriesInv
  <1>4. PICK w \in {<<-words, holdings[p].page>>, <<words, holdings[p].page>>,
                    <<words, -words>>, <<words, words>>} :
               holdings' = [holdings EXCEPT ![p].beside = w[1], ![p].page = w[2]]
    BY DEF Rerenders
  <1>5. /\ words \in FileVersion /\ -words \in FileVersion /\ words # 0 /\ -words # 0
        /\ holdings[p].page \in FileVersion
    BY <1>1, <1>3, SeriesAssumption DEF Files, FileVersion
  <1>6. w[1] \in FileVersion /\ w[2] \in FileVersion /\ w[2] # 0
    BY <1>1, <1>4, <1>5
  <1> DEFINE f == [holdings[p] EXCEPT !.beside = w[1], !.page = w[2]]
  <1>7. holdings' = [holdings EXCEPT ![p] = f]
    BY <1>3, <1>4
  <1>8. f \in Files /\ CanPlay(p, f)
    BY <1>3, <1>6 DEF Files, CanPlay, Playable
  <1> HIDE DEF f
  <1> QED
    BY <1>1, <1>2, <1>7, <1>8, OneFileWritten

-------------------------------------------------------------------------------
(* The theorems *)

\* Nothing is published at first.
LEMMA SeriesBegins == ASSUME SeriesInit PROVE SeriesInv
  <1>1. /\ runs = [p \in Pages |-> <<>>] /\ holdings = [p \in Pages |-> NoFiles] /\ wired = {}
        /\ shell = Idle /\ series = SeriesOff
    BY DEF SeriesInit
  <1>2. RunsTyped
    BY <1>1, SeriesAssumption DEF RunsTyped
  <1>3. NoFiles \in Files /\ NoFiles.player = 0 /\ NoFiles.stored = 0
    BY SeriesAssumption DEF NoFiles, Files, Version, FileVersion
  <1>4. holdings \in [Pages -> Files] /\ \A p \in Pages : Playable(p)
    BY <1>1, <1>3 DEF Playable, CanPlay
  <1>5. shell \in Shell /\ series \in Series /\ shell.at = "prompt"
    BY <1>1, OffIsTyped, SeriesAssumption DEF Idle, Shell, ShellAts, Version
  <1>6. AtWork /\ Sealed
    BY <1>5 DEF AtWork, Sealed, Publishing
  <1> QED
    BY <1>1, <1>2, <1>4, <1>5, <1>6 DEF SeriesInv, ShellTyped, Shell, Series

\* The invariant is inductive.
LEMMA SeriesKeeps == ASSUME SeriesInv, [SeriesNext]_seriesVars PROVE SeriesInv'
  <1>1. CASE UNCHANGED seriesVars
    BY <1>1 DEF seriesVars, SeriesInv, RunsTyped, ShellTyped, AtWork, Sealed, Playable, CanPlay, Complete
  <1>2. CASE SeriesStep
    BY <1>2, NextPageKeeps, SeriesCreatesKeeps, EncodesKeeps, PlacesTranscriptKeeps,
       ArchivesKeeps, CopiesBesideKeeps, UploadsKeeps, PublishFailsKeeps, WiresKeeps,
       BuildsKeeps DEF SeriesStep
  <1>3. CASE OperatorStep
    BY <1>3, StartsSeriesKeeps, InterruptedKeeps, CreatesByHandKeeps, WiresByHandKeeps,
       ArchivesNewestKeeps, RerendersKeeps, PublishesByHandKeeps DEF OperatorStep
  <1> QED
    BY <1>1, <1>2, <1>3 DEF SeriesNext

\* It says that players play.
LEMMA InvPlays == SeriesInv => PlayersPlay
  <1> SUFFICES ASSUME SeriesInv PROVE PlayersPlay
    OBVIOUS
  <1>1. runs \in [Pages -> UNION {[1..n -> RunKinds] : n \in Version}]
    <2>1. ASSUME NEW p \in Pages
          PROVE  runs[p] \in UNION {[1..n -> RunKinds] : n \in Version}
      <3>1. /\ runs[p] \in Seq(RunKinds) /\ Len(runs[p]) \in Nat /\ Len(runs[p]) <= MaxRuns
        BY DEF SeriesInv, RunsTyped
      <3>2. Len(runs[p]) \in Version /\ runs[p] \in [1..Len(runs[p]) -> RunKinds]
        BY <3>1, SeriesAssumption DEF Version
      <3> QED
        BY <3>2
    <2> QED
      BY <2>1 DEF SeriesInv, RunsTyped
  <1>2. SeriesTypeOK
    BY <1>1 DEF SeriesTypeOK, SeriesInv, ShellTyped
  <1> QED
    BY <1>2 DEF PlayersPlay, SeriesInv, Playable, CanPlay, Complete

\* A page the series has been through with has a player and audio to play, and audio
\* in the store its words, wherever a command was cut off and whatever is done by hand.
THEOREM PlayersCorrect == SeriesSpec => []PlayersPlay
  <1>1. SeriesInit => SeriesInv
    BY SeriesBegins
  <1>2. SeriesInv /\ [SeriesNext]_seriesVars => SeriesInv'
    BY SeriesKeeps
  <1> QED
    BY <1>1, <1>2, InvPlays, PTL DEF SeriesSpec

\* Only an upload changes the audio in the store, and what it finds beside it is of
\* the same run.
LEMMA OnlyUploadsStore ==
  ASSUME SeriesInv, [SeriesNext]_seriesVars, NEW p \in Pages, holdings'[p].stored # holdings[p].stored
  PROVE  /\ holdings'[p].page = holdings'[p].stored
         /\ holdings'[p].archive = holdings'[p].stored
         /\ holdings'[p].beside = holdings'[p].stored
  <1>1. holdings \in [Pages -> Files] /\ holdings[p] \in Files
    BY DEF SeriesInv
  <1>2. CASE shell.at = "upload" /\ StoresAudio
    <2>1. shell.page \in Pages
      BY <1>2, Published DEF Publishing
    <2>2. p = shell.page
      BY <1>1, <1>2, <2>1 DEF StoresAudio
    <2> QED
      BY <1>2, <2>2, StoredAudio
  <1>3. CASE UNCHANGED holdings
    BY <1>3
  <1>4. ASSUME NEW q \in Pages, NEW n,
               \/ holdings' = [holdings EXCEPT ![q]["encoded"] = n]
               \/ holdings' = [holdings EXCEPT ![q]["page"] = n]
               \/ holdings' = [holdings EXCEPT ![q]["archive"] = n]
               \/ holdings' = [holdings EXCEPT ![q]["beside"] = n]
               \/ Wired(q, n)
        PROVE  holdings'[p].stored = holdings[p].stored
    BY <1>1, <1>4 DEF Wired, Files
  <1>5. ASSUME Encodes \/ PlacesTranscript \/ Archives \/ CopiesBeside
        PROVE  holdings'[p].stored = holdings[p].stored
    <2>1. shell.at \in Publishing
      BY <1>5 DEF Encodes, PlacesTranscript, Archives, CopiesBeside, Places, Publishing
    <2>2. shell.page \in Pages
      BY <2>1, Published
    <2> QED
      BY <1>4, <1>5, <2>2 DEF Encodes, PlacesTranscript, Archives, CopiesBeside, Places
  <1>6. ASSUME Wires PROVE holdings'[p].stored = holdings[p].stored
    <2>1. shell.page \in Pages
      BY <1>6 DEF Wires, SeriesInv, AtWork
    <2> QED
      BY <1>4, <1>6, <2>1 DEF Wires
  <1>7. ASSUME NEW q \in HandPages,
               (\E n : WiresByHand(q, n)) \/ ArchivesNewest(q) \/ Rerenders(q)
        PROVE  holdings'[p].stored = holdings[p].stored
    <2>1. q \in Pages
      BY SeriesAssumption DEF Pages
    <2>2. CASE \E n : WiresByHand(q, n)
      BY <1>4, <2>1, <2>2 DEF WiresByHand
    <2>3. CASE ArchivesNewest(q)
      BY <1>4, <2>1, <2>3 DEF ArchivesNewest
    <2>4. CASE Rerenders(q)
      <3>1. PICK w : holdings' = [holdings EXCEPT ![q].beside = w[1], ![q].page = w[2]]
        BY <2>4 DEF Rerenders
      <3> QED
        BY <1>1, <2>1, <3>1 DEF Files
    <2> QED
      BY <1>7, <2>2, <2>3, <2>4
  <1>8. ASSUME CutShort, ~(shell.at = "upload" /\ StoresAudio)
        PROVE  holdings'[p].stored = holdings[p].stored
    <2>1. CASE UNCHANGED holdings
      BY <2>1
    <2>2. CASE /\ shell.at \in DOMAIN Writing
               /\ holdings' = [holdings EXCEPT ![shell.page][Writing[shell.at]] = -shell.run]
      <3>1. shell.at \in {"encode", "page", "archive", "beside"}
        BY <2>2 DEF Writing
      <3>2. Writing[shell.at] \in {"encoded", "page", "archive", "beside"} /\ shell.at \in Publishing
        BY <3>1 DEF Writing, Publishing
      <3>3. shell.page \in Pages
        BY <3>2, Published
      <3> QED
        BY <1>4, <2>2, <3>2, <3>3
    <2> QED
      BY <1>8, <2>1, <2>2 DEF CutShort
  <1>9. CASE SeriesStep
    BY <1>2, <1>3, <1>5, <1>6, <1>8, <1>9
       DEF SeriesStep, NextPage, SeriesCreates, Uploads, PublishFails, Builds
  <1>10. CASE OperatorStep
    BY <1>2, <1>3, <1>7, <1>8, <1>10
       DEF OperatorStep, StartsSeries, Interrupted, CreatesByHand, PublishesByHand
  <1> QED
    BY <1>3, <1>9, <1>10 DEF SeriesNext, seriesVars

\* New audio goes into the store beside the words of its own run: an action property.
THEOREM UploadCorrect == SeriesSpec => UploadSealsTheWords
  <1> DEFINE Seals == \A p \in Pages : holdings'[p].stored # holdings[p].stored =>
                        /\ holdings'[p].page = holdings'[p].stored
                        /\ holdings'[p].archive = holdings'[p].stored
                        /\ holdings'[p].beside = holdings'[p].stored
  <1>1. SeriesInit => SeriesInv
    BY SeriesBegins
  <1>2. SeriesInv /\ [SeriesNext]_seriesVars => SeriesInv'
    BY SeriesKeeps
  <1>3. SeriesInv /\ [SeriesNext]_seriesVars => [Seals]_seriesVars
    BY OnlyUploadsStore
  <1> QED
    BY <1>1, <1>2, <1>3, PTL DEF SeriesSpec, UploadSealsTheWords
================================================================================
