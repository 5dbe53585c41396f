----------------------------- MODULE EpisodeSeries -----------------------------
(****************************************************************************)
(* Publishing the series (src/scripts): generate-series.sh works through the *)
(* pages without a transcript, one at a time: it has an episode made by      *)
(* `cli.ts create` (see EpisodePipeline), published by publish-episode.sh,   *)
(* its player put on the page by wire-episode.ts, and builds the site.  All  *)
(* state is files and the audio store, so a run that was interrupted is      *)
(* resumed by starting again.  Beside it the operator makes and publishes    *)
(* episodes by hand, and uses archive-episode.ts --all and                   *)
(* rerender-transcripts.ts.  There is one shell: one command at a time.      *)
(*                                                                           *)
(* A run of the pipeline is known by its number among its page's runs; a     *)
(* file by the number of the run it comes from, 0 if there is none, and by   *)
(* the negative number if its writing was cut off: every script opens its    *)
(* target for writing and leaves what it got to.                             *)
(****************************************************************************)
EXTENDS Integers, Sequences, FiniteSets

CONSTANTS
  NumPages,   \* pages in the order of episode-plan.ts
  MaxRuns,    \* bound: runs of each page that leave something behind
  MaxStarts,  \* bound: how often the series is started
  MaxByHand,  \* bound: commands the operator gives beside it
  HandPages   \* bound: the pages they are about

ASSUME SeriesAssumption ==
  /\ NumPages \in Nat \ {0} /\ MaxRuns \in Nat /\ MaxStarts \in Nat
  /\ MaxByHand \in Nat /\ HandPages \subseteq 1..NumPages

Pages == 1..NumPages

VARIABLES
  runs,     \* .podcast/<slug>: what each run left, in order
  holdings, \* what the repository and the audio store hold of each page
  shell,    \* the command that is being run
  series,   \* variables of generate-series.sh
  starts, byHand,
  wired     \* auxiliary: the pages that the series has been through with

seriesVars == <<runs, holdings, shell, series, starts, byHand, wired>>

\* A run that died in synthesis left its words; a complete one its audio too.
RunKinds == {"words", "complete"}
Version == 0..MaxRuns
FileVersion == -MaxRuns..MaxRuns

\* encoded: public/podcast/<slug>.m4a; page: src/transcripts/<slug>.md;
\* archive and beside: episodes/<slug>.json and .md; stored: the audio in R2;
\* player: the run whose duration and date the page's EpisodePlayer states.
Files == [encoded : FileVersion, page : FileVersion, archive : FileVersion,
          beside : FileVersion, stored : Version, player : Version]
NoFiles == [encoded |-> 0, page |-> 0, archive |-> 0, beside |-> 0,
            stored |-> 0, player |-> 0]

Idle == [at |-> "prompt", page |-> 0, run |-> 0, serves |-> "nobody"]
SeriesOff == [queue |-> {}, fail_streak |-> 0, retried |-> FALSE]

SeriesInit ==
  /\ runs = [p \in Pages |-> <<>>]
  /\ holdings = [p \in Pages |-> NoFiles]
  /\ shell = Idle
  /\ series = SeriesOff
  /\ starts = 0 /\ byHand = 0 /\ wired = {}

-----------------------------------------------------------------------------
(* The series *)

\* episode-plan.ts --ids: a page is done when its transcript exists.
Remaining(p) == holdings[p].page = 0

Queue == {p \in Pages : Remaining(p)}

StartsSeries ==
  /\ shell = Idle /\ starts < MaxStarts
  /\ Queue # {}
  /\ series' = [SeriesOff EXCEPT !.queue = Queue]
  /\ shell' = [Idle EXCEPT !.at = "next", !.serves = "series"]
  /\ starts' = starts + 1
  /\ UNCHANGED <<runs, holdings, byHand, wired>>

SeriesExits == shell' = Idle /\ series' = SeriesOff

\* The loop takes the pages in order; it ends at --limit, with the last of them,
\* or after two failures in a row.
NextPage ==
  /\ shell.at = "next"
  /\ \/ SeriesExits
     \/ /\ series.fail_streak < 2
        /\ \E p \in series.queue :
             /\ \A q \in series.queue : p <= q
             /\ shell' = [shell EXCEPT !.at = "create", !.page = p]
             /\ series' = [series EXCEPT !.queue = @ \ {p}, !.retried = FALSE]
  /\ UNCHANGED <<runs, holdings, starts, byHand, wired>>

PageFails ==
  /\ shell' = [shell EXCEPT !.at = "next"]
  /\ series' = [series EXCEPT !.fail_streak = @ + 1]

\* Slip: the page is tried again for as long as the network is down.
TriesAgain(at) ==
  /\ shell' = [shell EXCEPT !.at = at]
  /\ UNCHANGED series

\* The network dropped: after a pause, once more.
TriesOnceMore(at) ==
  /\ ~series.retried
  /\ shell' = [shell EXCEPT !.at = at]
  /\ series' = [series EXCEPT !.retried = TRUE]

LeavesRun(p, kind) ==
  /\ Len(runs[p]) < MaxRuns
  /\ runs' = [runs EXCEPT ![p] = Append(@, kind)]

\* A command that fails or is interrupted may have got anywhere.
LeavesAnything(p) ==
  \/ UNCHANGED runs
  \/ \E kind \in RunKinds : LeavesRun(p, kind)

SeriesCreates ==
  /\ shell.at = "create"
  /\ \/ /\ LeavesRun(shell.page, "complete")
        /\ shell' = [shell EXCEPT !.at = "encode", !.run = Len(runs[shell.page]) + 1]
        /\ series' = [series EXCEPT !.retried = FALSE]
     \/ /\ LeavesAnything(shell.page)
        /\ TriesOnceMore("create") \/ PageFails
  /\ UNCHANGED <<holdings, starts, byHand, wired>>

-----------------------------------------------------------------------------
(* publish-episode.sh: set -e, so a step that fails is the last *)

Places(at, file, next) ==
  /\ shell.at = at
  /\ holdings' = [holdings EXCEPT ![shell.page][file] = shell.run]
  /\ shell' = [shell EXCEPT !.at = next]
  /\ UNCHANGED <<runs, series, starts, byHand, wired>>

Encodes == Places("encode", "encoded", "page")
PlacesTranscript == Places("page", "page", "archive")

\* Slip: an archive that exists is left alone.
ArchivesOnce ==
  /\ shell.at = "archive"
  /\ \/ /\ holdings[shell.page].archive = 0
        /\ Places("archive", "archive", "beside")
     \/ /\ holdings[shell.page].archive # 0
        /\ shell' = [shell EXCEPT !.at = "beside"]
        /\ UNCHANGED <<runs, holdings, series, starts, byHand, wired>>

Archives == Places("archive", "archive", "beside")
CopiesBeside == Places("beside", "beside", "upload")

\* wrangler puts what was encoded into the store.
StoresAudio ==
  holdings' = [holdings EXCEPT ![shell.page].stored = holdings[shell.page].encoded]

Uploads ==
  /\ shell.at = "upload"
  /\ \/ StoresAudio
     \/ shell.serves = "operator" /\ UNCHANGED holdings   \* --no-upload
  /\ shell' = IF shell.serves = "series" THEN [shell EXCEPT !.at = "wire"] ELSE Idle
  /\ UNCHANGED <<runs, series, starts, byHand, wired>>

\* Slip: a publication that fails is taken for one that worked.
FailureIgnored ==
  /\ shell' = IF shell.serves = "series" THEN [shell EXCEPT !.at = "wire"] ELSE Idle
  /\ UNCHANGED series

PublishFailed ==
  IF shell.serves = "series" THEN TriesOnceMore("encode") \/ PageFails
  ELSE shell' = Idle /\ UNCHANGED series

\* The file that is being written at each place.
Writing == [encode |-> "encoded", page |-> "page", archive |-> "archive", beside |-> "beside"]

\* A step that is cut short has not begun, leaves its file torn, or its upload
\* has gone through.
CutShort ==
  \/ UNCHANGED holdings
  \/ /\ shell.at \in DOMAIN Writing
     /\ holdings' = [holdings EXCEPT ![shell.page][Writing[shell.at]] = -shell.run]
  \/ shell.at = "upload" /\ StoresAudio

PublishFails ==
  /\ shell.at \in {"encode", "page", "archive", "beside", "upload"}
  /\ PublishFailed
  /\ CutShort
  /\ UNCHANGED <<runs, starts, byHand, wired>>

-----------------------------------------------------------------------------
(* The page *)

\* wire-episode.ts stops at a page that has a player, and asks for nothing else.
Wired(p, take) ==
  holdings' = [holdings EXCEPT ![p].player = IF @ = 0 THEN take ELSE @]

Wires ==
  /\ shell.at = "wire"
  /\ \/ /\ Wired(shell.page, shell.run)
        /\ wired' = wired \cup {shell.page}
        /\ shell' = [shell EXCEPT !.at = "build"]
        /\ UNCHANGED series
     \/ PageFails /\ UNCHANGED <<holdings, wired>>
  /\ UNCHANGED <<runs, starts, byHand>>

Builds ==
  /\ shell.at = "build"
  /\ \/ /\ shell' = [shell EXCEPT !.at = "next"]
        /\ series' = [series EXCEPT !.fail_streak = 0]
     \/ SeriesExits
  /\ UNCHANGED <<runs, holdings, starts, byHand, wired>>

Interrupted ==
  /\ shell # Idle
  /\ SeriesExits
  /\ \/ UNCHANGED runs
     \/ shell.at = "create" /\ LeavesAnything(shell.page)
  /\ CutShort
  /\ UNCHANGED <<starts, byHand, wired>>

-----------------------------------------------------------------------------
(* By hand *)

ByHand == shell = Idle /\ byHand < MaxByHand /\ byHand' = byHand + 1

CreatesByHand(p) ==
  /\ ByHand
  /\ \E kind \in RunKinds : LeavesRun(p, kind)
  /\ UNCHANGED <<holdings, shell, series, starts, wired>>

\* The script asks for episode.wav and transcript.md in the run directory.
PublishesByHand(p, take) ==
  /\ ByHand
  /\ runs[p][take] = "complete"
  /\ shell' = [at |-> "encode", page |-> p, run |-> take, serves |-> "operator"]
  /\ UNCHANGED <<runs, holdings, series, starts, wired>>

\* With the line publish-episode.sh prints at its end, with --no-upload too; or
\* with none: nothing asks whether there is audio.
WiresByHand(p, take) ==
  /\ ByHand
  /\ Wired(p, take)
  /\ UNCHANGED <<runs, shell, series, starts, wired>>

\* archive-episode.ts --all: of every page with a transcript, the newest run
\* that has plan, script and transcript - audio or not.
ArchivesNewest(p) ==
  /\ ByHand
  /\ holdings[p].page # 0 /\ holdings[p].archive # Len(runs[p])
  /\ \E n \in {Len(runs[p]), -Len(runs[p])} :
       holdings' = [holdings EXCEPT ![p].archive = n]
  /\ UNCHANGED <<runs, shell, series, starts, wired>>

\* rerender-transcripts.ts: a page without an archive is left alone, and a torn
\* one is not JSON.  Beside the archive first, then on the page.
Rerenders(p) ==
  /\ ByHand
  /\ holdings[p].page # 0 /\ holdings[p].archive > 0
  /\ LET words == holdings[p].archive
     IN  \E written \in {<<-words, holdings[p].page>>, <<words, holdings[p].page>>,
                          <<words, -words>>, <<words, words>>} :
           holdings' = [holdings EXCEPT ![p].beside = written[1], ![p].page = written[2]]
  /\ UNCHANGED <<runs, shell, series, starts, wired>>

-----------------------------------------------------------------------------
SeriesStep ==
  \/ NextPage \/ SeriesCreates \/ Encodes \/ PlacesTranscript \/ Archives
  \/ CopiesBeside \/ Uploads \/ PublishFails \/ Wires \/ Builds

OperatorStep ==
  \/ StartsSeries \/ Interrupted
  \/ \E p \in HandPages :
       \/ CreatesByHand(p) \/ ArchivesNewest(p) \/ Rerenders(p)
       \/ \E take \in DOMAIN runs[p] : PublishesByHand(p, take) \/ WiresByHand(p, take)

SeriesNext == SeriesStep \/ OperatorStep

\* Every command ends: the pipeline by RunEnds, the others of themselves.
SeriesSpec == SeriesInit /\ [][SeriesNext]_seriesVars
FairSeriesSpec == SeriesSpec /\ WF_seriesVars(SeriesStep)

-----------------------------------------------------------------------------
SeriesTypeOK ==
  /\ runs \in [Pages -> UNION {[1..n -> RunKinds] : n \in Version}]
  /\ holdings \in [Pages -> Files]
  /\ shell.page \in 0..NumPages /\ shell.run \in Version
  /\ shell.serves \in {"nobody", "series", "operator"}
  /\ series.queue \subseteq Pages /\ series.fail_streak \in 0..2
  /\ series.retried \in BOOLEAN
  /\ wired \subseteq Pages

\* A page the series has been through with has a player and audio to play, also
\* after failures, retries and whatever is done by hand; a player that is wired
\* by hand promises nothing.  Audio in the store is of a run that has some, and
\* there is a transcript on its page and an archive beside it
\* (publish-episode.sh: archive before the upload, not after), though a later
\* command that was cut short may have left one of them torn.
PlayersPlay ==
  /\ SeriesTypeOK
  /\ \A p \in wired : holdings[p].player # 0 /\ holdings[p].stored # 0
  /\ \A p \in Pages : holdings[p].stored # 0 =>
       /\ runs[p][holdings[p].stored] = "complete"
       /\ holdings[p].page # 0 /\ holdings[p].archive # 0

\* When new audio reaches the store, the transcript on the page, the archive
\* and its rendering are those of the same run, whatever was interrupted,
\* retried or made by hand before.
UploadSealsTheWords ==
  [][\A p \in Pages : holdings'[p].stored # holdings[p].stored =>
       /\ holdings'[p].page = holdings'[p].stored
       /\ holdings'[p].archive = holdings'[p].stored
       /\ holdings'[p].beside = holdings'[p].stored]_seriesVars

\* The series ends: failures are tried again once, and two in a row stop it.
SeriesEnds == shell.serves = "series" ~> shell = Idle

\* generate-series.sh: "an interrupted run picks up where it stopped": what a
\* new start passes over is published and on its page.
ResumesWhereItStopped ==
  [][StartsSeries => \A p \in Pages :
       ~Remaining(p) => holdings[p].stored # 0 /\ holdings[p].player # 0]_seriesVars
=============================================================================
