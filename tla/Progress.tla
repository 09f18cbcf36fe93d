------------------------------ MODULE Progress ------------------------------
(***************************************************************************)
(* The progress stream, from the scan to the button it disables: the       *)
(* scanner and Submit build payloads and publish them, the broadcaster     *)
(* copies them into one bounded channel per viewer, the handler of         *)
(* /scan/progress/stream writes them to the browser, and RootLayout turns  *)
(* them into "scanning" and into the signal that reloads the lists.        *)
(*                                                                         *)
(* A payload is the newest row of scan_runs as its builder read it; the    *)
(* rows of screenshots are skipped.  The tallies it carries are left out.  *)
(***************************************************************************)
EXTENDS Naturals, Sequences

CONSTANTS
  Viewers,      (* Browser tabs that are logged in.                        *)
  BufferSize,   (* The room of a subscriber's channel: 8 in the code.      *)
  MaxRuns       (* Bound: rows of scan_runs in a behaviour.                *)

VARIABLES
  run,        (* The newest row of a scan; number 0 when there is none.    *)
  phase,      (* Where the scan goroutine is; "idle": not running.         *)
  job,        (* What it is to close: the row of a "scan" or "screenshot". *)
  submit,     (* "none", "arrived" (a Submit to be answered) or "built".   *)
  built,      (* The payload each builder has built and not published.     *)
  stream,     (* "off", "snapshot" (sent, not subscribed yet) or "open".   *)
  buffer,     (* The subscriber channel of each viewer.                    *)
  line,       (* Payloads written to a viewer that it has not handled.     *)
  call,       (* A viewer's POST /scan: "none", "sent" or its answer.      *)
  scanning,   (* RootLayout: disables the scan buttons.                    *)
  was,        (* RootLayout: wasScanningRef.                               *)
  lists,      (* The last finished run a viewer's lists were loaded after. *)
  behind,     (* History: why a connected viewer may be out of date.       *)
  missed      (* History: the viewer may not know that this run was open.  *)

server == <<run, phase, job, submit, built>>
transport == <<stream, buffer, line>>
client == <<call, scanning, was, lists>>
history == <<behind, missed>>
vars == <<server, transport, client, history>>

Row == [number : 0..MaxRuns, open : BOOLEAN]
Nothing == [number |-> 0, open |-> FALSE]
Builders == {"scanner", "submit"}
Causes == {"unbuilt", "gap", "full", "late", "answer"}

ProgressTypeOK ==
  /\ run \in Row
  /\ phase \in {"idle", "starting", "fresh", "sweep", "closed"}
  /\ job \in {"scan", "screenshot"}
  /\ submit \in {"none", "arrived", "built"}
  /\ built \in [Builders -> Row]
  /\ stream \in [Viewers -> {"off", "snapshot", "open"}]
  /\ buffer \in [Viewers -> Seq(Row)] /\ line \in [Viewers -> Seq(Row)]
  /\ \A v \in Viewers : Len(buffer[v]) <= BufferSize /\ Len(line[v]) <= 1
  /\ call \in [Viewers -> {"none", "sent", "accepted", "refused"}]
  /\ scanning \in [Viewers -> BOOLEAN]
  /\ was \in [Viewers -> BOOLEAN]
  /\ lists \in [Viewers -> 0..MaxRuns]
  /\ behind \in [Viewers -> SUBSET Causes]
  /\ missed \in [Viewers -> BOOLEAN]

Init ==
  /\ run = Nothing
  /\ phase = "idle"
  /\ job = "scan"
  /\ submit = "none"
  /\ built = [b \in Builders |-> Nothing]
  /\ stream = [v \in Viewers |-> "off"]
  /\ buffer = [v \in Viewers |-> <<>>]
  /\ line = [v \in Viewers |-> <<>>]
  /\ call = [v \in Viewers |-> "none"]
  /\ scanning = [v \in Viewers |-> FALSE]
  /\ was = [v \in Viewers |-> FALSE]
  /\ lists = [v \in Viewers |-> 0]
  /\ behind = [v \in Viewers |-> {}]
  /\ missed = [v \in Viewers |-> FALSE]
-----------------------------------------------------------------------------
(* The scan goroutine. *)

(* A scan nobody here asked for: a scheduler, a screenshot, another user.  *)
Scheduled ==
  /\ phase = "idle"
  /\ phase' = "starting"
  /\ job' \in {"scan", "screenshot"}
  /\ UNCHANGED <<run, submit, built, transport, client, history>>

(* run and runScreenshot return before they have a row, and publish        *)
(* nothing: no valid URL in the request, no server, a failed read.         *)
ReturnEarly ==
  /\ phase = "starting"
  /\ phase' = "idle"
  /\ job' = "scan"
  /\ UNCHANGED <<run, submit, built, transport, client, history>>

CreateScanRun ==
  /\ phase = "starting" /\ job = "scan"
  /\ run.number < MaxRuns
  /\ phase' = "fresh"
  /\ run' = [number |-> run.number + 1, open |-> TRUE]
  /\ behind' = [v \in Viewers |-> {}]
  /\ missed' = [v \in Viewers |-> FALSE]
  /\ UNCHANGED <<job, submit, built, transport, client>>

(* A row that LastScanRun does not see.                                    *)
CreateScreenshotRun ==
  /\ phase = "starting" /\ job = "screenshot"
  /\ phase' = "fresh"
  /\ UNCHANGED <<run, job, submit, built, transport, client, history>>

(* StartSweep returns: the sweep is over, was cancelled or cannot be       *)
(* reached.  An error of CompleteScanRun is dropped, and the row stays open. *)
CompleteScanRun ==
  /\ phase = "sweep"
  /\ phase' = "closed"
  /\ \/ job = "scan" /\ \E open \in BOOLEAN : run' = [run EXCEPT !.open = open]
     \/ job = "screenshot" /\ UNCHANGED run
  /\ job' = "scan"
  /\ UNCHANGED <<submit, built, transport, client, history>>

(* What follows the publish of runCrawler: the sweep, or setRunning(false). *)
GoOn ==
  /\ phase' = IF phase = "fresh" THEN "sweep" ELSE "idle"
  /\ UNCHANGED job

(* buildProgressPayload reads the newest row, its results and the list of  *)
(* URLs.  Nothing is published when there is no row, or when one of the    *)
(* three reads fails: then nobody hears of what the row has become.        *)
BuildByScanner ==
  /\ phase \in {"fresh", "closed"}
  /\ built["scanner"] = Nothing
  /\ \/ /\ run # Nothing
        /\ built' = [built EXCEPT !["scanner"] = run]
        /\ UNCHANGED <<phase, job, history>>
     \/ run = Nothing /\ GoOn /\ UNCHANGED <<built, history>>
     \/ /\ run # Nothing /\ GoOn
        /\ behind' = [v \in Viewers |-> IF stream[v] = "off" THEN behind[v]
                                        ELSE behind[v] \cup {"unbuilt"}]
        /\ missed' = [v \in Viewers |-> TRUE]
        /\ UNCHANGED built
  /\ UNCHANGED <<run, submit, transport, client>>

(* The crawler sends a batch.  Submit may still be at it when StartSweep   *)
(* has returned, if the scan was cancelled.                                *)
SubmitArrives ==
  /\ phase = "sweep"
  /\ submit = "none"
  /\ submit' = "arrived"
  /\ UNCHANGED <<run, phase, job, built, transport, client, history>>

(* A payload that Submit fails to build is news to nobody: the row is what *)
(* it was.                                                                 *)
BuildBySubmit ==
  /\ submit = "arrived"
  /\ \/ /\ run # Nothing
        /\ submit' = "built"
        /\ built' = [built EXCEPT !["submit"] = run]
     \/ submit' = "none" /\ UNCHANGED built
  /\ UNCHANGED <<run, phase, job, transport, client, history>>
-----------------------------------------------------------------------------
(* The broadcaster. *)

AlwaysRoom(v) == TRUE

Room(v) == Len(buffer[v]) < BufferSize

Told(v) == stream[v] = "open" /\ Room(v)

(* Why a publish does not reach v; with no connection it will have a       *)
(* snapshot.                                                               *)
Gap(v) ==
  CASE stream[v] = "snapshot" -> {"gap"}
    [] stream[v] = "open" -> {"full"}
    [] stream[v] = "off" -> {}

Deliver(payload) ==
  buffer' = [v \in Viewers |-> IF Told(v) THEN Append(buffer[v], payload) ELSE buffer[v]]

SilentEnd(payload, news) ==
  IF payload.open
  THEN Deliver(payload) /\ UNCHANGED history
  ELSE UNCHANGED <<buffer, history>>

(* One copy for every subscriber whose channel has room.  Whoever is told  *)
(* the row as it is has caught up.  Whoever is told what it no longer is,  *)
(* or is not told the news that it has changed, is behind.                  *)
Publish(payload, news) ==
  /\ Deliver(payload)
  /\ behind' = [v \in Viewers |->
       IF Told(v)
       THEN IF payload = run THEN behind[v] \cap {"answer"} ELSE behind[v] \cup {"late"}
       ELSE IF news THEN behind[v] \cup Gap(v) ELSE behind[v]]
  /\ missed' = [v \in Viewers |->
       IF Told(v) THEN payload # run \/ (missed[v] /\ ~run.open)
       ELSE missed[v] \/ news]

PublishByScanner ==
  /\ built["scanner"] # Nothing
  /\ Publish(built["scanner"], TRUE)
  /\ built' = [built EXCEPT !["scanner"] = Nothing]
  /\ GoOn
  /\ UNCHANGED <<run, submit, stream, line, client>>

PublishBySubmit ==
  /\ submit = "built"
  /\ Publish(built["submit"], FALSE)
  /\ built' = [built EXCEPT !["submit"] = Nothing]
  /\ submit' = "none"
  /\ UNCHANGED <<run, phase, job, stream, line, client>>
-----------------------------------------------------------------------------
(* ScanProgressStream. *)

NoSnapshot(v) ==
  /\ stream[v] = "off"
  /\ stream' = [stream EXCEPT ![v] = "snapshot"]
  /\ behind' = [behind EXCEPT ![v] = @ \cap {"answer"}]
  /\ UNCHANGED <<server, buffer, line, client, missed>>

(* The handler writes the present row, if there is one and the payload can *)
(* be built, and subscribes only then, or all the same.                    *)
SendSnapshot(v) ==
  /\ stream[v] = "off"
  /\ stream' = [stream EXCEPT ![v] = "snapshot"]
  /\ \/ /\ run # Nothing
        /\ line' = [line EXCEPT ![v] = <<run>>]
        /\ behind' = [behind EXCEPT ![v] = @ \cap {"answer"}]
        /\ missed' = [missed EXCEPT ![v] = @ /\ ~run.open]
     \/ run = Nothing /\ UNCHANGED <<line, history>>
     \/ /\ run # Nothing
        /\ behind' = [behind EXCEPT ![v] = @ \cup {"unbuilt"}]
        /\ UNCHANGED <<line, missed>>
  /\ UNCHANGED <<server, buffer, client>>

Subscribe(v) ==
  /\ stream[v] = "snapshot"
  /\ stream' = [stream EXCEPT ![v] = "open"]
  /\ UNCHANGED <<server, buffer, line, client, history>>

(* A write blocks while the browser has not taken the one before.          *)
Forward(v) ==
  /\ stream[v] = "open"
  /\ buffer[v] # <<>>
  /\ line[v] = <<>>
  /\ line' = [line EXCEPT ![v] = <<Head(buffer[v])>>]
  /\ buffer' = [buffer EXCEPT ![v] = Tail(@)]
  /\ UNCHANGED <<server, stream, client, history>>

(* The connection breaks, or the tab closes it; what is under way is lost. *)
Disconnect(v) ==
  /\ stream[v] # "off"
  /\ stream' = [stream EXCEPT ![v] = "off"]
  /\ buffer' = [buffer EXCEPT ![v] = <<>>]
  /\ line' = [line EXCEPT ![v] = <<>>]
  /\ behind' = [behind EXCEPT ![v] = @ \cap {"answer"}]
  /\ missed' = [missed EXCEPT ![v] = @ \/ buffer[v] # <<>> \/ line[v] # <<>>]
  /\ UNCHANGED <<server, client>>
-----------------------------------------------------------------------------
(* RootLayout. *)

LastFinished == IF run.open THEN run.number - 1 ELSE run.number

StaleClosure(v, running) == FALSE

(* The signal is sent when a payload ends what the one before said runs.   *)
Ends(v, running) == was[v] /\ ~running

(* source.onmessage.  The signal makes the pages load their lists again.   *)
OnMessage(v) ==
  /\ line[v] # <<>>
  /\ LET running == Head(line[v]).open
     IN /\ scanning' = [scanning EXCEPT ![v] = running]
        /\ was' = [was EXCEPT ![v] = running]
        /\ lists' = [lists EXCEPT ![v] = IF Ends(v, running) THEN LastFinished ELSE @]
  /\ line' = [line EXCEPT ![v] = <<>>]
  /\ behind' = [behind EXCEPT ![v] = @ \ {"answer"}]
  /\ UNCHANGED <<server, stream, buffer, call, missed>>

(* handleScanClick and handleScanSelected.                                 *)
ScanClick(v) ==
  /\ ~scanning[v]
  /\ call[v] = "none"
  /\ call' = [call EXCEPT ![v] = "sent"]
  /\ UNCHANGED <<server, transport, scanning, was, lists, history>>

(* TriggerScan answers 202, or 409 when a scan is running, which           *)
(* triggerScan takes for success, or an error.                             *)
TriggerScan(v) ==
  /\ call[v] = "sent"
  /\ \/ /\ phase = "idle"
        /\ phase' = "starting"
        /\ call' = [call EXCEPT ![v] = "accepted"]
     \/ /\ phase # "idle"
        /\ call' = [call EXCEPT ![v] = "accepted"]
        /\ UNCHANGED phase
     \/ /\ phase = "idle"
        /\ call' = [call EXCEPT ![v] = "refused"]
        /\ UNCHANGED phase
  /\ UNCHANGED <<run, job, submit, built, transport, scanning, was, lists, history>>

(* setScanning(true), whatever the stream has said in the meantime.        *)
ScanAccepted(v) ==
  /\ call[v] = "accepted"
  /\ call' = [call EXCEPT ![v] = "none"]
  /\ scanning' = [scanning EXCEPT ![v] = TRUE]
  /\ behind' = [behind EXCEPT ![v] = @ \cup {"answer"}]
  /\ UNCHANGED <<server, transport, was, lists, missed>>

ScanRefused(v) ==
  /\ call[v] = "refused"
  /\ call' = [call EXCEPT ![v] = "none"]
  /\ UNCHANGED <<server, transport, scanning, was, lists, history>>
-----------------------------------------------------------------------------
ServerStep ==
  \/ ReturnEarly \/ CreateScanRun \/ CreateScreenshotRun \/ CompleteScanRun
  \/ BuildByScanner \/ BuildBySubmit
  \/ PublishByScanner \/ PublishBySubmit

ViewerStep(v) ==
  \/ Subscribe(v) \/ Forward(v) \/ OnMessage(v)
  \/ TriggerScan(v) \/ ScanAccepted(v) \/ ScanRefused(v)

Next ==
  \/ Scheduled \/ SubmitArrives
  \/ ServerStep
  \/ \E v \in Viewers :
       ViewerStep(v) \/ SendSnapshot(v) \/ Disconnect(v) \/ ScanClick(v)

(* Goroutines are scheduled, connections deliver what they were given, and *)
(* a browser handles its events.  Whoever presses a button may not.        *)
Fairness ==
  /\ WF_vars(ServerStep)
  /\ \A v \in Viewers : WF_vars(ViewerStep(v))

Spec == Init /\ [][Next]_vars
FairSpec == Spec /\ Fairness
-----------------------------------------------------------------------------
Quiet(v) ==
  /\ phase = "idle" /\ submit = "none"
  /\ stream[v] = "open" /\ buffer[v] = <<>> /\ line[v] = <<>>
  /\ call[v] = "none"

(* Once all is quiet, a viewer shows a scan exactly if the ledger has one  *)
(* open, but for five causes: a payload that could not be built, a publish *)
(* between snapshot and subscription, a full channel, a payload older than *)
(* the row, and the answer to its own request coming after the last        *)
(* payload.  The first payload it is told that is as the row is ends the   *)
(* first four, and any payload the last.                                   *)
ShownIsTrue ==
  \A v \in Viewers : Quiet(v) /\ behind[v] = {} => scanning[v] = run.open

(* Nor are its lists older than the newest run once that is finished, if   *)
(* it was told, by a publish or a snapshot, that the run was open, and     *)
(* after the last time it was, each publish of the scanner was built and   *)
(* reached it, and none of Submit's told it otherwise.                     *)
ListsAreFresh ==
  \A v \in Viewers :
    Quiet(v) /\ ~run.open /\ ~missed[v] => lists[v] = run.number

(* A viewer that stays connected to a dashboard where no scan is open, and *)
(* that none of the five causes has left behind, comes to show none.       *)
EndIsShown ==
  \A v \in Viewers :
    ~ <>[](/\ stream[v] = "open" /\ ~run.open /\ behind[v] = {}
           /\ scanning[v])

(* What the comment in runCrawler says of the final publish: without it    *)
(* "subscribers would be stuck on the last running payload forever", so    *)
(* with it they are not.  A viewer that stays connected to a dashboard     *)
(* where no scan is open comes to have a payload that says so, if the      *)
(* payloads could be built.                                                *)
NobodyIsStuck ==
  \A v \in Viewers :
    ~ <>[](/\ stream[v] = "open" /\ phase = "idle" /\ ~run.open /\ was[v]
           /\ "unbuilt" \notin behind[v])
-----------------------------------------------------------------------------
(* Why ShownIsTrue holds, for the proofs.                                  *)

(* The scanner publishes the row that is there, and holds it until then.   *)
ScannerFacts ==
  /\ run.number = 0 => run = Nothing
  /\ phase \in {"fresh", "sweep"} /\ job = "scan" => run # Nothing
  /\ built["scanner"] # Nothing =>
       phase \in {"fresh", "closed"} /\ built["scanner"] = run

ClosedStreams ==
  \A v \in Viewers : /\ stream[v] # "open" => buffer[v] = <<>>
                     /\ stream[v] = "off" => line[v] = <<>>

(* Before the first run nobody is told of one.                             *)
NothingToTell ==
  run = Nothing =>
    /\ submit # "built"
    /\ \A v \in Viewers : /\ buffer[v] = <<>> /\ line[v] = <<>>
                          /\ "answer" \in behind[v] \/ ~scanning[v]

(* The last thing a viewer has been told, or is being told, is the row.    *)
LastWord(v) ==
  /\ buffer[v] # <<>> => buffer[v][Len(buffer[v])] = run
  /\ buffer[v] = <<>> /\ line[v] # <<>> => Head(line[v]) = run
  /\ buffer[v] = <<>> /\ line[v] = <<>> =>
       "answer" \in behind[v] \/ scanning[v] = run.open

(* It is, unless the row has changed and its publish is still to come, or  *)
(* v is behind.                                                            *)
Published == run = Nothing \/ phase \notin {"fresh", "closed"}

ToldTheRow ==
  \A v \in Viewers :
    Published /\ stream[v] # "off" /\ behind[v] \subseteq {"answer"} => LastWord(v)

(* The inductive invariant.                                                *)
StreamInvariant ==
  ProgressTypeOK /\ ScannerFacts /\ ClosedStreams /\ NothingToTell /\ ToldTheRow

(* Why ListsAreFresh holds, for the proofs.                                *)

(* A scan's own row is open until its sweep has ended.                     *)
ScanHasOpenRow == phase \in {"fresh", "sweep"} /\ job = "scan" => run.open

(* The first publish of the row is over, or came to nothing: a viewer that *)
(* missed nothing has been told that the run is open.                      *)
Announced == run # Nothing /\ ~(phase = "fresh" /\ job = "scan")

(* What a viewer takes to be so once it has handled all it was sent.       *)
LastTold(v) ==
  IF buffer[v] # <<>> THEN buffer[v][Len(buffer[v])].open
  ELSE IF line[v] # <<>> THEN Head(line[v]).open ELSE was[v]

(* It knows, or is going to hear, of a run that is open.                   *)
KnowsOfOne(v) ==
  \/ was[v]
  \/ line[v] # <<>> /\ Head(line[v]).open
  \/ \E i \in 1..Len(buffer[v]) : buffer[v][i].open

(* So it reloads when it hears of the end, unless it already has.          *)
EndReaches(v) ==
  Announced /\ ~missed[v] =>
    /\ run.open \/ Published => LastTold(v) = run.open
    /\ ~run.open => lists[v] = run.number \/ KnowsOfOne(v)

(* The inductive invariant, beside StreamInvariant.                        *)
EndsAreHeard ==
  /\ ScanHasOpenRow
  /\ run = Nothing => \A v \in Viewers : lists[v] = 0
  /\ \A v \in Viewers : EndReaches(v)
=============================================================================
