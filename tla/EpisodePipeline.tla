---------------------------- MODULE EpisodePipeline ----------------------------
(****************************************************************************)
(* The podcast engine's `plan --run` and `create --run`                      *)
(* (src/packages/podcast-engine/src/cli.ts, create.ts, dialogue.ts,          *)
(* review.ts, episode.ts, run.ts, manifest.ts): a run reserves a directory,  *)
(* asks a model for a plan, for the dialogue of each beat, for a review and  *)
(* perhaps a revision of it, has every turn spoken, writes each artifact as  *)
(* it comes, and a manifest at the end - of success or of failure.           *)
(*                                                                           *)
(* One action per await.  Each can fail, and the process can be killed at    *)
(* each.  A write that fails may leave a truncated file.  Tokens are counted *)
(* in calls: usage is the number of model calls and of turns it accounts     *)
(* for.                                                                      *)
(****************************************************************************)
EXTENDS Naturals, Sequences, FiniteSets

CONSTANTS
  CreateRuns, PlanRuns,  \* the processes, by their command
  SkipReview,            \* those started with --skip-review
  RunIds,                \* what makeRunId may return
  MaxBeats               \* bound: beats in a plan; each is one turn long

NoDir == "no directory"

ASSUME PipelineAssumption ==
  /\ MaxBeats \in Nat \ {0} /\ NoDir \notin RunIds
  /\ CreateRuns \cap PlanRuns = {} /\ SkipReview \subseteq CreateRuns

Runs == CreateRuns \cup PlanRuns
NoManifest == [status |-> "none"]
Names == {"plan.json", "script.json", "transcript.md", "episode.wav",
          "failure.json", "manifest.json"}

VARIABLES
  run,        \* the local variables of each process
  files,      \* what each run directory holds of each file
  manifest,   \* what manifest.json says, if it is whole
  billed      \* what the calls of each run cost: those answered, those failed

vars == <<run, files, manifest, billed>>

Usage == [model : Nat, speech : Nat]
ZeroUsage == [model |-> 0, speech |-> 0]
AddUsage(a, b) == [model |-> a.model + b.model, speech |-> a.speech + b.speech]
ModelCall == [model |-> 1, speech |-> 0]
SpokenTurn == [model |-> 0, speech |-> 1]

Review == [beat : 1..MaxBeats, findings : BOOLEAN, revised : BOOLEAN,
           failed : BOOLEAN, dropped : BOOLEAN]

Init ==
  /\ run = [r \in Runs |->
       [at |-> "start", dir |-> NoDir, stage |-> "plan", beats |-> 0, beat |-> 1,
        pending |-> ZeroUsage, usage |-> ZeroUsage, known |-> FALSE,
        carried |-> FALSE, artifacts |-> <<>>, reviews |-> <<>>]]
  /\ files = [d \in RunIds |-> [f \in Names |-> "absent"]]
  /\ manifest = [d \in RunIds |-> NoManifest]
  /\ billed = [r \in Runs |-> [answered |-> ZeroUsage, failed |-> ZeroUsage]]

Reviews(r) == r \in CreateRuns \ SkipReview
Answers(r, u) == billed' = [billed EXCEPT ![r].answered = AddUsage(@, u)]
\* A call that fails may cost what it would have cost.
MayCost(r, u) == \E c \in {ZeroUsage, u} :
  billed' = [billed EXCEPT ![r].failed = AddUsage(@, c)]

\* An exception reaches the catch block.  Only a ModelResponseError gets its
\* text kept; "carried" says that it knows what its call cost.
Fails(r) == run' = [run EXCEPT ![r].at = "report"]
FailsDiagnosably(r, carried) ==
  run' = [run EXCEPT ![r].at = "diagnose", ![r].carried = carried]

\* writeFile() succeeds, or leaves what was there, or a truncated file.
Writes(r, f) == files' = [files EXCEPT ![run[r].dir][f] = "whole"]
Tears(r, f) ==
  \E left \in {files[run[r].dir][f], "partial"} :
    files' = [files EXCEPT ![run[r].dir][f] = left]

-----------------------------------------------------------------------------
(* Before the model is called *)

\* An estimate without --run, or a refusal: nothing is written.
Declines(r) ==
  /\ run[r].at = "start"
  /\ \E code \in {"exit 0 early", "exit 2"} :
       run' = [run EXCEPT ![r].at = code]
  /\ UNCHANGED <<files, manifest, billed>>

\* Slip: mkdir() with recursive: true succeeds on a directory that exists.
AnyDir(d) == TRUE

Free(d) == \A r \in Runs : run[r].dir # d

\* mkdir() with recursive: false fails on a directory that exists, or for
\* reasons of its own.
Reserves(r) ==
  /\ run[r].at = "start"
  /\ \E d \in RunIds :
       \/ Free(d) /\ run' = [run EXCEPT ![r].dir = d, ![r].at = "plan"]
       \/ run' = [run EXCEPT ![r].at = "refused"]
  /\ UNCHANGED <<files, manifest, billed>>

-----------------------------------------------------------------------------
(* The plan *)

PlanAnswered(r) ==
  /\ run[r].at = "plan"
  /\ \E n \in 1..MaxBeats :
       run' = [run EXCEPT ![r].at = "write plan", ![r].beats = n,
                          ![r].pending = ModelCall]
  /\ Answers(r, ModelCall)
  /\ UNCHANGED <<files, manifest>>

\* The pack or the budget is refused, or the transport fails, and there is no
\* answer; or the answer cites what is not in the pack, or has no support, or
\* cannot be rendered in time, and its usage is dropped with it.
PlanFails(r) ==
  /\ run[r].at = "plan"
  /\ MayCost(r, ModelCall) \/ Answers(r, ModelCall)
  /\ Fails(r)
  /\ UNCHANGED <<files, manifest>>

PlanUnusable(r) ==
  /\ run[r].at = "plan"
  /\ \E carried \in BOOLEAN :
       /\ FailsDiagnosably(r, carried)
       /\ billed' = [billed EXCEPT ![r].failed = ModelCall]
  /\ UNCHANGED <<files, manifest>>

\* onStageDone("plan"), and the dialogue starts.
PlanReported(r) ==
  run' = [run EXCEPT ![r].at = "beat", ![r].stage = "dialogue",
                     ![r].artifacts = Append(@, "plan.json"),
                     ![r].usage = AddUsage(@, run[r].pending), ![r].known = TRUE,
                     ![r].pending = ZeroUsage]

\* The plan command sets its usage, but not usageKnown.
PlanCommandDone(r) ==
  run' = [run EXCEPT ![r].at = "complete", ![r].usage = run[r].pending,
                     ![r].pending = ZeroUsage]

WritesPlan(r) ==
  /\ run[r].at = "write plan"
  /\ \/ /\ Writes(r, "plan.json")
        /\ IF r \in CreateRuns THEN PlanReported(r) ELSE PlanCommandDone(r)
     \/ Tears(r, "plan.json") /\ Fails(r)
  /\ UNCHANGED <<manifest, billed>>

-----------------------------------------------------------------------------
(* The dialogue: one call per beat, reviewed in the loop *)

BeatDone(p) ==
  IF p.beat = p.beats THEN [p EXCEPT !.at = "write script"]
  ELSE [p EXCEPT !.at = "beat", !.beat = @ + 1]

BeatWritten(r) ==
  /\ run[r].at = "beat"
  /\ Answers(r, ModelCall)
  /\ LET p == [run[r] EXCEPT !.pending = AddUsage(@, ModelCall)]
     IN run' = [run EXCEPT ![r] = IF Reviews(r) THEN [p EXCEPT !.at = "review"]
                                  ELSE BeatDone(p)]
  /\ UNCHANGED <<files, manifest>>

\* Wrapped in an Error that names the beat: a ModelResponseError is no longer
\* one, and what the beats before it spent is not reported.
BeatFails(r) ==
  /\ run[r].at = "beat"
  /\ MayCost(r, ModelCall)
  /\ Fails(r)
  /\ UNCHANGED <<files, manifest>>

\* onReview() and the end of the beat, with what the review call, and the
\* revision if it answered, spent.
Reviewed(r, u, entry) ==
  LET p == run[r]
      e == [entry EXCEPT !.beat = p.beat]
  IN run' = [run EXCEPT ![r] =
       BeatDone([p EXCEPT !.pending = AddUsage(p.pending, u),
                          !.reviews = Append(p.reviews, e)])]

CleanEntry == [beat |-> 1, findings |-> FALSE, revised |-> FALSE,
               failed |-> FALSE, dropped |-> FALSE]

\* Findings that name a turn the beat does not have are dropped.
ReviewAnswers(r) ==
  /\ run[r].at = "review"
  /\ Answers(r, ModelCall)
  /\ \E dropped \in BOOLEAN :
       \/ Reviewed(r, ModelCall, [CleanEntry EXCEPT !.dropped = dropped])
       \/ run' = [run EXCEPT ![r].at = IF dropped THEN "revise, some dropped"
                                       ELSE "revise"]
  /\ UNCHANGED <<files, manifest>>

\* Slip: a failed review looks like one that found nothing.
FailedEntryAsClean == CleanEntry

FailedEntry == [CleanEntry EXCEPT !.failed = TRUE]

\* A review that fails costs the run nothing but the check.
ReviewFails(r) ==
  /\ run[r].at = "review"
  /\ MayCost(r, ModelCall)
  /\ Reviewed(r, ZeroUsage, FailedEntry)
  /\ UNCHANGED <<files, manifest>>

Revising(r) == run[r].at \in {"revise", "revise, some dropped"}
RevisionEntry(r, revised) ==
  [CleanEntry EXCEPT !.findings = TRUE, !.revised = revised,
                     !.dropped = run[r].at = "revise, some dropped"]

TwoCalls == AddUsage(ModelCall, ModelCall)

\* A revision with another number of turns is refused, and paid for.
RevisionAnswers(r) ==
  /\ Revising(r)
  /\ Answers(r, ModelCall)
  /\ \E kept \in BOOLEAN : Reviewed(r, TwoCalls, RevisionEntry(r, kept))
  /\ UNCHANGED <<files, manifest>>

RevisionFails(r) ==
  /\ Revising(r)
  /\ MayCost(r, ModelCall)
  /\ Reviewed(r, ModelCall, RevisionEntry(r, FALSE))
  /\ UNCHANGED <<files, manifest>>

\* Only one voice speaks.
ScriptRefused(r) ==
  /\ run[r].at = "write script"
  /\ Fails(r)
  /\ UNCHANGED <<files, manifest, billed>>

\* Slip: the write is not awaited, and its failure not noticed.
WritesScriptUnawaited(r) ==
  /\ run[r].at = "write script"
  /\ run' = [run EXCEPT ![r].at = "write transcript"]
  /\ Writes(r, "script.json") \/ Tears(r, "script.json")
  /\ UNCHANGED <<manifest, billed>>

WritesScript(r) ==
  /\ run[r].at = "write script"
  /\ \/ Writes(r, "script.json") /\ run' = [run EXCEPT ![r].at = "write transcript"]
     \/ Tears(r, "script.json") /\ Fails(r)
  /\ UNCHANGED <<manifest, billed>>

\* onStageDone("dialogue") for both files, and synthesis starts.
WritesTranscript(r) ==
  /\ run[r].at = "write transcript"
  /\ \/ /\ Writes(r, "transcript.md")
        /\ run' = [run EXCEPT ![r].at = "speak", ![r].stage = "synthesis",
                     ![r].beat = 1, ![r].known = TRUE,
                     ![r].artifacts = @ \o <<"script.json", "transcript.md">>,
                     ![r].usage = AddUsage(@, run[r].pending),
                     ![r].pending = ZeroUsage]
     \/ Tears(r, "transcript.md") /\ Fails(r)
  /\ UNCHANGED <<manifest, billed>>

-----------------------------------------------------------------------------
(* The voice: one call per turn, of which there is one per beat here *)

TurnSpoken(r) ==
  /\ run[r].at = "speak"
  /\ Answers(r, SpokenTurn)
  /\ LET p == [run[r] EXCEPT !.pending = AddUsage(@, SpokenTurn)]
     IN run' = [run EXCEPT ![r] =
          IF p.beat = p.beats THEN [p EXCEPT !.at = "write audio"]
          ELSE [p EXCEPT !.beat = @ + 1]]
  /\ UNCHANGED <<files, manifest>>

\* The runner fails, writes nothing, or changes format.
TurnFails(r) ==
  /\ run[r].at = "speak"
  /\ MayCost(r, SpokenTurn)
  /\ Fails(r)
  /\ UNCHANGED <<files, manifest>>

\* Slip: the timer is cleared before the runner has ended.
TimerCleared(r) == FALSE

\* A runner that neither ends nor fails is killed when the timer fires.
TurnTimesOut(r) ==
  /\ run[r].at = "speak"
  /\ Fails(r)
  /\ UNCHANGED <<files, manifest, billed>>

\* The parts are not WAV of one format.
JoinFails(r) ==
  /\ run[r].at = "write audio"
  /\ Fails(r)
  /\ UNCHANGED <<files, manifest, billed>>

WritesAudio(r) ==
  /\ run[r].at = "write audio"
  /\ \/ Writes(r, "episode.wav") /\ run' = [run EXCEPT ![r].at = "rewrite transcript"]
     \/ Tears(r, "episode.wav") /\ Fails(r)
  /\ UNCHANGED <<manifest, billed>>

\* onStageDone("synthesis"); the manifest counts itself among the artifacts.
RewritesTranscript(r) ==
  /\ run[r].at = "rewrite transcript"
  /\ \/ /\ Writes(r, "transcript.md")
        /\ run' = [run EXCEPT ![r].at = "complete",
                     ![r].artifacts = @ \o <<"episode.wav", "manifest.json">>,
                     ![r].usage = AddUsage(@, run[r].pending),
                     ![r].pending = ZeroUsage]
     \/ Tears(r, "transcript.md") /\ Fails(r)
  /\ UNCHANGED <<manifest, billed>>

-----------------------------------------------------------------------------
(* The manifest *)

Count(which) == Cardinality({i \in DOMAIN which : which[i]})

ReviewSummary(reviews) ==
  LET B == DOMAIN reviews IN
  [reviewed  |-> Count([i \in B |-> ~reviews[i].failed]),
   revised   |-> Count([i \in B |-> reviews[i].revised]),
   unfixed   |-> Count([i \in B |-> reviews[i].findings /\ ~reviews[i].revised]),
   unchecked |-> Count([i \in B |-> reviews[i].failed])]

\* "measured" says that the manifest states a cost.
Manifest(r, status, artifacts, measured) ==
  [status |-> status, stage |-> run[r].stage, artifacts |-> artifacts,
   measured |-> measured, usage |-> IF measured THEN run[r].usage ELSE ZeroUsage,
   review |-> ReviewSummary(run[r].reviews)]

WritesManifest(r, m) ==
  /\ Writes(r, "manifest.json")
  /\ manifest' = [manifest EXCEPT ![run[r].dir] = m]

TearsManifest(r) ==
  \E left \in {files[run[r].dir]["manifest.json"], "partial"} :
    /\ files' = [files EXCEPT ![run[r].dir]["manifest.json"] = left]
    /\ manifest' = IF left = "partial"
                   THEN [manifest EXCEPT ![run[r].dir] = NoManifest] ELSE manifest

Completes(r) ==
  /\ run[r].at = "complete"
  /\ \/ /\ WritesManifest(r, Manifest(r, "complete",
             IF r \in CreateRuns THEN run[r].artifacts
             ELSE <<"plan.json", "manifest.json">>, TRUE))
        /\ run' = [run EXCEPT ![r].at = "exit 0"]
     \/ TearsManifest(r) /\ Fails(r)
  /\ UNCHANGED billed

\* failure.json; if it cannot be written, the exception leaves runCli.
Diagnoses(r) ==
  /\ run[r].at = "diagnose"
  /\ \/ /\ Writes(r, "failure.json")
        /\ run' = [run EXCEPT ![r].at = "report",
                     ![r].artifacts = <<"failure.json">> \o @,
                     ![r].usage = IF run[r].carried THEN AddUsage(@, ModelCall) ELSE @,
                     ![r].known = @ \/ run[r].carried]
     \/ Tears(r, "failure.json") /\ run' = [run EXCEPT ![r].at = "unreported"]
  /\ UNCHANGED <<manifest, billed>>

Reports(r) ==
  /\ run[r].at = "report"
  /\ \/ /\ WritesManifest(r, Manifest(r, "failed",
             Append(run[r].artifacts, "manifest.json"), run[r].known))
        /\ run' = [run EXCEPT ![r].at = "exit 1"]
     \/ TearsManifest(r) /\ run' = [run EXCEPT ![r].at = "unreported"]
  /\ UNCHANGED billed

-----------------------------------------------------------------------------
Endings == {"exit 0 early", "exit 2", "refused", "exit 0", "exit 1",
            "unreported", "killed"}
Ended(r) == run[r].at \in Endings

FileInHand(r) ==
  CASE run[r].at = "write plan" -> {"plan.json"}
    [] run[r].at = "write script" -> {"script.json"}
    [] run[r].at \in {"write transcript", "rewrite transcript"} -> {"transcript.md"}
    [] run[r].at = "write audio" -> {"episode.wav"}
    [] run[r].at = "diagnose" -> {"failure.json"}
    [] OTHER -> {}

\* Killed from outside, perhaps in the middle of a write.
Killed(r) ==
  /\ run[r].dir # NoDir /\ ~Ended(r)
  /\ run' = [run EXCEPT ![r].at = "killed"]
  /\ IF run[r].at \in {"complete", "report"} THEN TearsManifest(r)
     ELSE /\ \/ UNCHANGED files
             \/ \E f \in FileInHand(r) : Tears(r, f)
          /\ UNCHANGED manifest
  /\ UNCHANGED billed

\* The steps the process takes by itself or a timeout of its own bounds.
OwnStep(r) ==
  \/ Declines(r) \/ Reserves(r)
  \/ PlanAnswered(r) \/ PlanFails(r) \/ PlanUnusable(r) \/ WritesPlan(r)
  \/ BeatWritten(r) \/ BeatFails(r) \/ ReviewAnswers(r) \/ ReviewFails(r)
  \/ RevisionAnswers(r) \/ RevisionFails(r)
  \/ ScriptRefused(r) \/ WritesScript(r) \/ WritesTranscript(r)
  \/ TurnTimesOut(r) \/ JoinFails(r) \/ WritesAudio(r) \/ RewritesTranscript(r)
  \/ Completes(r) \/ Diagnoses(r) \/ Reports(r)

Next == \E r \in Runs : OwnStep(r) \/ TurnSpoken(r) \/ TurnFails(r) \/ Killed(r)

Spec == Init /\ [][Next]_vars
FairSpec == Spec /\ \A r \in Runs : WF_vars(OwnStep(r))

-----------------------------------------------------------------------------
Listed(d) == {manifest[d].artifacts[i] : i \in DOMAIN manifest[d].artifacts}
Deliverables(r) ==
  IF r \in PlanRuns THEN {"plan.json", "manifest.json"}
  ELSE Names \ {"failure.json"}

TypeOK ==
  /\ \A r \in Runs :
       /\ run[r].dir \in RunIds \cup {NoDir}
       /\ run[r].stage \in {"plan", "dialogue", "synthesis"}
       /\ run[r].beat \in 1..MaxBeats /\ run[r].beats \in 0..MaxBeats
       /\ run[r].usage \in Usage /\ run[r].pending \in Usage
       /\ run[r].known \in BOOLEAN /\ run[r].carried \in BOOLEAN
       /\ run[r].artifacts \in Seq(Names) /\ run[r].reviews \in Seq(Review)
       /\ billed[r].answered \in Usage /\ billed[r].failed \in Usage
  /\ files \in [RunIds -> [Names -> {"absent", "partial", "whole"}]]

\* What a run's directory holds when the run has ended tells how it ended: a
\* complete manifest after success and only then, listing the artifacts that
\* are there; a failed one, naming the stage, after a failure; none only if the
\* process was killed or could not write its diagnostics.  Whatever a manifest
\* lists is on disk and whole - but for a transcript torn by its own rewriting,
\* with the audio already there (manifest.ts: "a run with no manifest is a run
\* whose status is unknown").
ManifestTells ==
  /\ TypeOK
  /\ \A r \in Runs : LET d == run[r].dir IN d # NoDir =>
       /\ run[r].at = "exit 0" <=> manifest[d].status = "complete"
       /\ run[r].at = "exit 0" => Listed(d) = Deliverables(r)
       /\ run[r].at = "exit 1" => /\ manifest[d].status = "failed"
                                  /\ manifest[d].stage = run[r].stage
       /\ manifest[d] # NoManifest =>
            \A f \in Listed(d) :
              \/ files[d][f] = "whole"
              \/ f = "transcript.md" /\ manifest[d].status = "failed"
                 /\ files[d]["episode.wav"] = "whole"

\* Before the first turn is sent to the voice, and whatever happens then, the
\* plan and the script are on disk, and so is the transcript until the audio is
\* (create.ts: a synthesis failure must not lose the expensive half).
WordsBeforeVoice ==
  \A r \in Runs : LET d == run[r].dir IN
    (d # NoDir /\ run[r].stage = "synthesis") =>
      /\ files[d]["plan.json"] = "whole" /\ files[d]["script.json"] = "whole"
      /\ files[d]["transcript.md"] = "whole" \/ files[d]["episode.wav"] = "whole"

\* A manifest never charges for more than was spent.  A complete one charges
\* for every answered call, once; so does one of a run that died in synthesis,
\* for the model's calls.  And the reviews it counts are those it charges for:
\* a beat nobody managed to check is not counted as checked.
BillHonest ==
  \A r \in Runs : LET d == run[r].dir
                      m == manifest[d]
                      b == billed[r]
  IN (d # NoDir /\ run[r].at \in {"exit 0", "exit 1"}) =>
       /\ m.usage.model <= b.answered.model + b.failed.model
       /\ m.usage.speech <= b.answered.speech + b.failed.speech
       /\ m.status = "complete" => m.usage = b.answered
       /\ m.stage = "synthesis" =>
            /\ m.measured /\ m.usage.model = b.answered.model
            /\ m.review.reviewed + m.review.unchecked =
                 IF Reviews(r) THEN run[r].beats ELSE 0
            /\ m.usage.model - 1 - run[r].beats - m.review.reviewed
                 \in m.review.revised..m.review.revised + m.review.unfixed

\* A run that has begun ends, even if the voice never answers.
RunEnds == \A r \in Runs : run[r].at # "start" ~> Ended(r)

=============================================================================
