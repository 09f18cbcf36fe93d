---------------------------- MODULE ConsoleProofs ----------------------------
(***************************************************************************)
(* The console for any number of viewers, dialogs, notifications, rows and *)
(* levels and every bound: Progress, the bell, and what the parts promise, *)
(* kept by the whole.  The other parts are proved in PageProofs,           *)
(* FilterQueryProofs and CaseProofs.                                       *)
(***************************************************************************)
EXTENDS MCConsole, PageProofs, FilterQueryProofs, CaseProofs

(* Progress. *)

StreamConstants == MaxRuns \in Nat /\ BufferSize \in Nat

Phases == {"idle", "starting", "fresh", "sweep", "closed"}

ServerTypes ==
  /\ run \in Row /\ phase \in Phases /\ job \in {"scan", "screenshot"}
  /\ submit \in {"none", "arrived", "built"}
  /\ built \in [Builders -> Row]

TransportTypes ==
  /\ stream \in [Viewers -> {"off", "snapshot", "open"}]
  /\ buffer \in [Viewers -> Seq(Row)] /\ line \in [Viewers -> Seq(Row)]
  /\ \A v \in Viewers : Len(buffer[v]) <= BufferSize /\ Len(line[v]) <= 1

ClientTypes ==
  /\ call \in [Viewers -> {"none", "sent", "accepted", "refused"}]
  /\ scanning \in [Viewers -> BOOLEAN]
  /\ was \in [Viewers -> BOOLEAN]
  /\ lists \in [Viewers -> 0..MaxRuns]

HistoryTypes ==
  /\ behind \in [Viewers -> SUBSET Causes]
  /\ missed \in [Viewers -> BOOLEAN]

(* The type invariant, part by part.                                       *)
LEMMA TypesByPart ==
  ProgressTypeOK <=> ServerTypes /\ TransportTypes /\ ClientTypes /\ HistoryTypes
BY DEF ProgressTypeOK, ServerTypes, TransportTypes, ClientTypes, HistoryTypes, Phases

(* And in the state that follows.                                          *)
LEMMA TypesByPartNext ==
  ProgressTypeOK' <=> ServerTypes' /\ TransportTypes' /\ ClientTypes' /\ HistoryTypes'
BY DEF ProgressTypeOK, ServerTypes, TransportTypes, ClientTypes, HistoryTypes, Phases

(* A stand-in for no row at all.                                           *)
LEMMA NothingIsARow == ASSUME StreamConstants PROVE Nothing \in Row
BY DEF StreamConstants, Nothing, Row
-----------------------------------------------------------------------------
(* At first nothing has been scanned, and nobody is connected.             *)
LEMMA StreamInitially ==
  ASSUME StreamConstants, Init
  PROVE  StreamInvariant
<1>1. ServerTypes
  BY NothingIsARow DEF Init, ServerTypes, Phases
<1>2. TransportTypes
  BY EmptySeq DEF Init, TransportTypes, StreamConstants
<1>3. ClientTypes /\ HistoryTypes
  BY DEF Init, ClientTypes, HistoryTypes, StreamConstants
<1>4. ScannerFacts
  BY DEF Init, ScannerFacts, Builders
<1>5. ClosedStreams /\ NothingToTell /\ ToldTheRow
  BY DEF Init, ClosedStreams, NothingToTell, ToldTheRow
<1>6. QED
  BY <1>1, <1>2, <1>3, <1>4, <1>5, TypesByPart DEF StreamInvariant

(* Steps that neither change the row nor touch a viewer, and that do not   *)
(* pass over a publish.                                                    *)
LEMMA ViewersRest ==
  ASSUME StreamInvariant, UNCHANGED <<run, transport, client, history>>,
         ServerTypes', ScannerFacts', Published' => Published,
         run = Nothing => submit' # "built"
  PROVE  StreamInvariant'
<1>1. /\ TransportTypes /\ ClientTypes /\ HistoryTypes
      /\ ClosedStreams /\ NothingToTell /\ ToldTheRow
  BY TypesByPart DEF StreamInvariant
<1>2. UNCHANGED <<stream, buffer, line, call, scanning, was, lists, behind, missed>>
  BY DEF transport, client, history
<1>3. TransportTypes' /\ ClientTypes' /\ HistoryTypes'
  BY <1>1, <1>2 DEF TransportTypes, ClientTypes, HistoryTypes
<1>4. ClosedStreams'
  BY <1>1, <1>2 DEF ClosedStreams
<1>5. NothingToTell'
  BY <1>1, <1>2 DEF NothingToTell
<1>6. ToldTheRow'
  <2>1. ASSUME NEW v \in Viewers, LastWord(v) PROVE LastWord(v)'
    BY <1>2, <2>1 DEF LastWord
  <2>. QED  BY <1>1, <1>2, <2>1 DEF ToldTheRow
<1>7. QED
  BY <1>3, <1>4, <1>5, <1>6, TypesByPartNext DEF StreamInvariant

(* The scan goroutine and Submit up to their publishes.                    *)
LEMMA ServerRests ==
  ASSUME StreamConstants, StreamInvariant,
         Scheduled \/ ReturnEarly \/ CreateScreenshotRun \/ SubmitArrives \/ BuildBySubmit
  PROVE  StreamInvariant'
<1>1. ServerTypes /\ ScannerFacts
  BY TypesByPart DEF StreamInvariant
<1>2. UNCHANGED <<run, transport, client, history>>
  BY DEF Scheduled, ReturnEarly, CreateScreenshotRun, SubmitArrives, BuildBySubmit
<1>3. built'["scanner"] = built["scanner"]
  BY <1>1 DEF Scheduled, ReturnEarly, CreateScreenshotRun, SubmitArrives, BuildBySubmit,
              ServerTypes, Builders
<1>4. ServerTypes'
  <2>1. built' = built \/ built' = [built EXCEPT !["submit"] = run]
    BY DEF Scheduled, ReturnEarly, CreateScreenshotRun, SubmitArrives, BuildBySubmit
  <2>2. built' \in [Builders -> Row]
    BY <1>1, <2>1 DEF ServerTypes
  <2>. QED  BY <1>1, <2>2 DEF ServerTypes, Phases, Scheduled, ReturnEarly,
                              CreateScreenshotRun, SubmitArrives, BuildBySubmit
<1>5. ScannerFacts'
  BY <1>1, <1>2, <1>3 DEF ScannerFacts, Scheduled, ReturnEarly, CreateScreenshotRun,
                          SubmitArrives, BuildBySubmit
<1>6. Published' => Published
  BY <1>2 DEF Published, Scheduled, ReturnEarly, CreateScreenshotRun, SubmitArrives,
              BuildBySubmit
<1>7. run = Nothing => submit' # "built"
  BY DEF StreamInvariant, NothingToTell, Scheduled, ReturnEarly, CreateScreenshotRun,
         SubmitArrives, BuildBySubmit
<1>8. QED
  BY <1>2, <1>4, <1>5, <1>6, <1>7, ViewersRest

(* The scanner reads the row; with none it goes on at once.  When a read   *)
(* fails it goes on too, and everybody is behind.                          *)
LEMMA BuildRests ==
  ASSUME StreamConstants, StreamInvariant, BuildByScanner
  PROVE  StreamInvariant'
<1>1. /\ ServerTypes /\ TransportTypes /\ ClientTypes /\ HistoryTypes
      /\ ScannerFacts /\ ClosedStreams /\ NothingToTell
  BY TypesByPart DEF StreamInvariant
<1>2. /\ UNCHANGED <<run, submit, transport, client>>
      /\ phase \in {"fresh", "closed"}
      /\ built["scanner"] = Nothing
  BY DEF BuildByScanner
<1>3. run = Nothing => submit' # "built"
  BY <1>2 DEF StreamInvariant, NothingToTell
<1>4. CASE /\ run # Nothing /\ built' = [built EXCEPT !["scanner"] = run]
           /\ UNCHANGED <<phase, job, history>>
  <2>1. ServerTypes'
    BY <1>1, <1>2, <1>4 DEF ServerTypes, Phases
  <2>2. built'["scanner"] = run
    BY <1>1, <1>4 DEF ServerTypes, Builders
  <2>3. ScannerFacts'
    BY <1>1, <1>2, <1>4, <2>2 DEF ScannerFacts
  <2>4. Published' => Published
    BY <1>2, <1>4 DEF Published
  <2>. QED  BY <1>2, <1>3, <1>4, <2>1, <2>3, <2>4, ViewersRest
<1>5. ASSUME GoOn, UNCHANGED built PROVE ServerTypes' /\ ScannerFacts'
  <2>1. job' = job /\ phase' = IF phase = "fresh" THEN "sweep" ELSE "idle"
    BY <1>5 DEF GoOn
  <2>2. ServerTypes'
    BY <1>1, <1>2, <1>5, <2>1 DEF ServerTypes, Phases
  <2>3. ScannerFacts'
    BY <1>1, <1>2, <1>5, <2>1 DEF ScannerFacts
  <2>. QED  BY <2>2, <2>3
<1>6. CASE run = Nothing /\ GoOn /\ UNCHANGED <<built, history>>
  <2>1. Published
    BY <1>6 DEF Published
  <2>. QED  BY <1>2, <1>3, <1>5, <1>6, <2>1, ViewersRest
<1>7. CASE /\ run # Nothing /\ GoOn
           /\ behind' = [v \in Viewers |-> IF stream[v] = "off" THEN behind[v]
                                           ELSE behind[v] \cup {"unbuilt"}]
           /\ missed' = [v \in Viewers |-> TRUE]
           /\ UNCHANGED built
  <2>1. UNCHANGED <<stream, buffer, line, call, scanning, was, lists>>
    BY <1>2 DEF transport, client
  <2>2. TransportTypes' /\ ClientTypes' /\ ClosedStreams'
    BY <1>1, <2>1 DEF TransportTypes, ClientTypes, ClosedStreams
  <2>3. HistoryTypes'
    BY <1>1, <1>7 DEF HistoryTypes, Causes
  <2>4. NothingToTell'
    BY <1>2, <1>7 DEF NothingToTell
  <2>5. \A v \in Viewers : stream'[v] # "off" => "unbuilt" \in behind'[v]
    BY <1>7, <2>1
  <2>6. ToldTheRow'
    BY <2>5 DEF ToldTheRow
  <2>. QED  BY <1>5, <1>7, <2>2, <2>3, <2>4, <2>6, TypesByPartNext DEF StreamInvariant
<1>8. QED
  BY <1>4, <1>6, <1>7 DEF BuildByScanner

(* A row of a scan is created or closed: the publish has still to come.    *)
LEMMA RowChanges ==
  ASSUME StreamConstants, StreamInvariant, CreateScanRun \/ CompleteScanRun
  PROVE  StreamInvariant'
<1>1. /\ ServerTypes /\ TransportTypes /\ ClientTypes /\ HistoryTypes
      /\ ScannerFacts /\ ClosedStreams
  BY TypesByPart DEF StreamInvariant
<1>2. run.number \in 0..MaxRuns /\ run.open \in BOOLEAN
  BY <1>1 DEF ServerTypes, Row
<1>3. CASE CompleteScanRun /\ job = "screenshot"
  <2>1. ServerTypes'
    BY <1>1, <1>3 DEF CompleteScanRun, ServerTypes, Phases
  <2>2. ScannerFacts'
    BY <1>1, <1>3 DEF CompleteScanRun, ScannerFacts
  <2>3. Published' => Published
    BY <1>3 DEF CompleteScanRun, Published
  <2>4. run = Nothing => submit' # "built"
    BY <1>3 DEF CompleteScanRun, StreamInvariant, NothingToTell
  <2>5. UNCHANGED <<run, transport, client, history>>
    BY <1>3 DEF CompleteScanRun
  <2>. QED  BY <2>1, <2>2, <2>3, <2>4, <2>5, ViewersRest
<1>4. CASE CreateScanRun \/ (CompleteScanRun /\ job # "screenshot")
  <2>1. /\ run' \in Row /\ run'.number # 0 /\ run' # Nothing
        /\ phase' \in {"fresh", "closed"}
    <3>1. CASE CreateScanRun
      BY <1>2, <3>1 DEF CreateScanRun, Row, Nothing, StreamConstants
    <3>2. CASE CompleteScanRun /\ job # "screenshot"
      <4>1. job = "scan" /\ phase = "sweep" /\ phase' = "closed"
        BY <1>1, <3>2 DEF CompleteScanRun, ServerTypes
      <4>2. PICK open \in BOOLEAN : run' = [run EXCEPT !.open = open]
        BY <3>2 DEF CompleteScanRun
      <4>3. run.number # 0
        BY <1>1, <4>1 DEF ScannerFacts
      <4>4. run' \in Row /\ run'.number = run.number
        BY <1>1, <4>2 DEF ServerTypes, Row
      <4>. QED  BY <4>1, <4>3, <4>4 DEF Nothing
    <3>. QED  BY <1>4, <3>1, <3>2
  <2>2. built' = built /\ submit' = submit /\ built["scanner"] = Nothing
    BY <1>1, <1>4 DEF CreateScanRun, CompleteScanRun, ScannerFacts
  <2>3. ServerTypes'
    BY <1>1, <1>4, <2>1, <2>2 DEF ServerTypes, Phases, CreateScanRun, CompleteScanRun
  <2>4. ScannerFacts'
    BY <2>1, <2>2 DEF ScannerFacts
  <2>5. UNCHANGED <<stream, buffer, line, call, scanning, was, lists>>
    BY <1>4 DEF CreateScanRun, CompleteScanRun, transport, client
  <2>6. TransportTypes' /\ ClientTypes' /\ ClosedStreams'
    BY <1>1, <2>5 DEF TransportTypes, ClientTypes, ClosedStreams
  <2>7. HistoryTypes'
    BY <1>1, <1>4 DEF HistoryTypes, CreateScanRun, CompleteScanRun, history
  <2>8. NothingToTell' /\ ToldTheRow'
    BY <2>1 DEF NothingToTell, ToldTheRow, Published
  <2>. QED  BY <2>3, <2>4, <2>6, <2>7, <2>8, TypesByPartNext DEF StreamInvariant
<1>5. QED
  BY <1>3, <1>4
-----------------------------------------------------------------------------
(* Whoever is not behind after a publish got the row as it is, or there    *)
(* was no news and it was not behind before.                               *)
LEMMA NotLost ==
  ASSUME TransportTypes, HistoryTypes, NEW payload \in Row, NEW news \in BOOLEAN,
         Publish(payload, news),
         NEW v \in Viewers, stream[v] # "off", behind'[v] \subseteq {"answer"}
  PROVE  \/ payload = run /\ buffer'[v] = Append(buffer[v], payload)
         \/ ~news /\ buffer'[v] = buffer[v] /\ behind'[v] = behind[v]
<1>1. behind'[v] =
        IF Told(v)
        THEN IF payload = run THEN behind[v] \cap {"answer"} ELSE behind[v] \cup {"late"}
        ELSE IF news THEN behind[v] \cup Gap(v) ELSE behind[v]
  BY DEF Publish
<1>2. buffer'[v] = IF Told(v) THEN Append(buffer[v], payload) ELSE buffer[v]
  BY DEF Publish, Deliver
<1>3. CASE Told(v)
  <2>1. payload = run
    BY <1>1, <1>3
  <2>. QED  BY <1>2, <1>3, <2>1
<1>4. CASE ~Told(v)
  <2>1. Gap(v) = {"gap"} \/ Gap(v) = {"full"}
    BY DEF Gap, TransportTypes
  <2>2. ~news
    BY <1>1, <1>4, <2>1
  <2>. QED  BY <1>1, <1>2, <1>4, <2>2
<1>5. QED
  BY <1>3, <1>4

(* A publish, by either of the two.                                        *)
LEMMA PublishKeeps ==
  ASSUME StreamConstants, StreamInvariant, NEW payload \in Row, NEW news \in BOOLEAN,
         Publish(payload, news),
         run # Nothing, UNCHANGED <<run, stream, line, client>>,
         ServerTypes', ScannerFacts', news \/ (Published' => Published)
  PROVE  StreamInvariant'
<1>1. /\ TransportTypes /\ ClientTypes /\ HistoryTypes /\ ClosedStreams
  BY TypesByPart DEF StreamInvariant
<1>2. ASSUME NEW v \in Viewers
      PROVE  /\ Append(buffer[v], payload) \in Seq(Row)
             /\ Len(Append(buffer[v], payload)) = Len(buffer[v]) + 1
             /\ Append(buffer[v], payload)[Len(buffer[v]) + 1] = payload
             /\ Len(buffer[v]) \in Nat
  BY <1>1, AppendProperties, LenProperties DEF TransportTypes
<1>3. \A v \in Viewers :
        buffer'[v] = IF Told(v) THEN Append(buffer[v], payload) ELSE buffer[v]
  BY DEF Publish, Deliver
<1>4. TransportTypes'
  <2>1. buffer' \in [Viewers -> Seq(Row)]
    <3>1. \A v \in Viewers : buffer'[v] \in Seq(Row)
      BY <1>1, <1>2, <1>3 DEF TransportTypes
    <3>2. buffer' = [v \in Viewers |-> buffer'[v]]
      BY DEF Publish, Deliver
    <3>. QED  BY <3>1, <3>2
  <2>2. ASSUME NEW v \in Viewers PROVE Len(buffer'[v]) <= BufferSize
    <3>1. Len(buffer[v]) \in Nat /\ Len(buffer[v]) <= BufferSize /\ BufferSize \in Nat
      BY <1>1, <1>2 DEF TransportTypes, StreamConstants
    <3>2. CASE Told(v)
      <4>1. Len(buffer'[v]) = Len(buffer[v]) + 1
        BY <1>2, <1>3, <3>2
      <4>. QED  BY <3>1, <3>2, <4>1 DEF Told, Room
    <3>3. CASE ~Told(v)
      <4>1. buffer'[v] = buffer[v]
        BY <1>3, <3>3
      <4>. QED  BY <3>1, <4>1
    <3>. QED  BY <3>2, <3>3
  <2>. QED  BY <1>1, <2>1, <2>2 DEF TransportTypes
<1>5. ClientTypes'
  BY <1>1 DEF ClientTypes, client
<1>6. HistoryTypes'
  <2>1. ASSUME NEW v \in Viewers PROVE behind'[v] \in SUBSET Causes
    <3>1. behind[v] \in SUBSET Causes
      BY <1>1 DEF HistoryTypes
    <3>2. Gap(v) \in SUBSET Causes
      BY <1>1 DEF Gap, Causes, TransportTypes
    <3>. QED  BY <3>1, <3>2 DEF Publish, Causes
  <2>2. behind' \in [Viewers -> SUBSET Causes]
    <3>1. behind' = [v \in Viewers |-> behind'[v]]
      BY DEF Publish
    <3>. QED  BY <2>1, <3>1
  <2>3. missed' \in [Viewers -> BOOLEAN]
    BY <1>1 DEF Publish, HistoryTypes
  <2>. QED  BY <2>2, <2>3 DEF HistoryTypes
<1>7. ClosedStreams'
  BY <1>1, <1>3 DEF ClosedStreams, Told
<1>8. NothingToTell'
  BY DEF NothingToTell
<1>9. ToldTheRow'
  <2>. SUFFICES ASSUME NEW v \in Viewers, Published', stream'[v] # "off",
                       behind'[v] \subseteq {"answer"}
                PROVE  LastWord(v)'
    BY DEF ToldTheRow
  <2>1. CASE payload = run /\ buffer'[v] = Append(buffer[v], payload)
    <3>1. buffer'[v] # <<>> /\ buffer'[v][Len(buffer'[v])] = run
      BY <1>2, <2>1, EmptySeq
    <3>. QED  BY <3>1 DEF LastWord
  <2>2. CASE ~news /\ buffer'[v] = buffer[v] /\ behind'[v] = behind[v]
    <3>1. LastWord(v)
      BY <2>2 DEF StreamInvariant, ToldTheRow
    <3>. QED  BY <2>2, <3>1 DEF LastWord, client
  <2>. QED  BY <1>1, <2>1, <2>2, NotLost
<1>10. QED
  BY <1>4, <1>5, <1>6, <1>7, <1>8, <1>9, TypesByPartNext DEF StreamInvariant

(* The scanner publishes the row as it is, Submit perhaps an older one.    *)
LEMMA PublishSteps ==
  ASSUME StreamConstants, StreamInvariant, PublishByScanner \/ PublishBySubmit
  PROVE  StreamInvariant'
<1>1. ServerTypes /\ ScannerFacts /\ NothingToTell
  BY TypesByPart DEF StreamInvariant
<1>2. built \in [Builders -> Row] /\ Nothing \in Row
  BY <1>1, NothingIsARow DEF ServerTypes
<1>3. CASE PublishByScanner
  <2>1. /\ built["scanner"] # Nothing /\ Publish(built["scanner"], TRUE)
        /\ built' = [built EXCEPT !["scanner"] = Nothing]
        /\ phase' = (IF phase = "fresh" THEN "sweep" ELSE "idle") /\ job' = job
        /\ UNCHANGED <<run, submit, stream, line, client>>
    BY <1>3 DEF PublishByScanner, GoOn
  <2>2. run # Nothing /\ built["scanner"] \in Row /\ built'["scanner"] = Nothing
    BY <1>1, <1>2, <2>1 DEF ScannerFacts, Builders
  <2>3. ServerTypes'
    BY <1>1, <1>2, <2>1 DEF ServerTypes, Phases
  <2>4. ScannerFacts'
    BY <1>1, <2>1, <2>2 DEF ScannerFacts
  <2>. QED  BY <2>1, <2>2, <2>3, <2>4, PublishKeeps
<1>4. CASE PublishBySubmit
  <2>1. /\ submit = "built" /\ Publish(built["submit"], FALSE)
        /\ built' = [built EXCEPT !["submit"] = Nothing]
        /\ submit' = "none"
        /\ UNCHANGED <<run, phase, job, stream, line, client>>
    BY <1>4 DEF PublishBySubmit
  <2>2. run # Nothing /\ built["submit"] \in Row /\ built'["scanner"] = built["scanner"]
    BY <1>1, <1>2, <2>1 DEF NothingToTell, Builders
  <2>3. ServerTypes'
    BY <1>1, <1>2, <2>1 DEF ServerTypes
  <2>4. ScannerFacts'
    BY <1>1, <2>1, <2>2 DEF ScannerFacts
  <2>5. Published' => Published
    BY <2>1 DEF Published
  <2>. QED  BY <2>1, <2>2, <2>3, <2>4, <2>5, PublishKeeps
<1>5. QED
  BY <1>3, <1>4
-----------------------------------------------------------------------------
(* A step of viewer v: the others keep what they have been told.           *)
LEMMA OneViewer ==
  ASSUME StreamInvariant, NEW v \in Viewers,
         UNCHANGED run, ServerTypes', ScannerFacts', Published' = Published,
         TransportTypes', ClientTypes', HistoryTypes', NothingToTell',
         \A u \in Viewers \ {v} :
           /\ stream'[u] = stream[u] /\ buffer'[u] = buffer[u] /\ line'[u] = line[u]
           /\ behind'[u] = behind[u] /\ scanning'[u] = scanning[u],
         stream'[v] # "open" => buffer'[v] = <<>>,
         stream'[v] = "off" => line'[v] = <<>>,
         Published /\ stream'[v] # "off" /\ behind'[v] \subseteq {"answer"} => LastWord(v)'
  PROVE  StreamInvariant'
<1>1. ClosedStreams /\ ToldTheRow
  BY DEF StreamInvariant
<1>2. ClosedStreams'
  BY <1>1 DEF ClosedStreams
<1>3. ToldTheRow'
  <2>1. ASSUME NEW u \in Viewers \ {v}, LastWord(u) PROVE LastWord(u)'
    BY <2>1 DEF LastWord
  <2>. QED  BY <1>1, <2>1 DEF ToldTheRow
<1>4. QED
  BY <1>2, <1>3, TypesByPartNext DEF StreamInvariant

(* The server rests.                                                       *)
LEMMA ServerUnchanged ==
  ASSUME StreamInvariant, UNCHANGED server
  PROVE  /\ UNCHANGED <<run, submit>> /\ ServerTypes' /\ ScannerFacts'
         /\ Published' = Published
<1>1. ServerTypes /\ ScannerFacts
  BY TypesByPart DEF StreamInvariant
<1>2. UNCHANGED <<run, phase, job, submit, built>>
  BY DEF server
<1>3. Published' = Published
  BY <1>2 DEF Published
<1>4. QED
  BY <1>1, <1>2, <1>3 DEF ServerTypes, ScannerFacts

(* The handler of the stream: it starts with the row as it is, with        *)
(* nothing as there is no row, or with nothing although there is one.      *)
LEMMA SnapshotSteps ==
  ASSUME StreamConstants, StreamInvariant, NEW v \in Viewers, SendSnapshot(v)
  PROVE  StreamInvariant'
<1>1. /\ TransportTypes /\ ClientTypes /\ HistoryTypes /\ ServerTypes
      /\ ClosedStreams /\ NothingToTell
  BY TypesByPart DEF StreamInvariant
<1>2. /\ UNCHANGED <<run, submit>> /\ ServerTypes' /\ ScannerFacts'
      /\ Published' = Published
  BY ServerUnchanged DEF SendSnapshot
<1>3. /\ stream' = [stream EXCEPT ![v] = "snapshot"] /\ stream[v] = "off"
      /\ UNCHANGED <<buffer, call, scanning, was, lists>>
  BY DEF SendSnapshot, client
<1>4. \/ /\ run # Nothing
         /\ line' = [line EXCEPT ![v] = <<run>>]
         /\ behind' = [behind EXCEPT ![v] = behind[v] \cap {"answer"}]
         /\ missed' = [missed EXCEPT ![v] = missed[v] /\ ~run.open]
      \/ run = Nothing /\ UNCHANGED <<line, behind, missed>>
      \/ /\ run # Nothing
         /\ behind' = [behind EXCEPT ![v] = behind[v] \cup {"unbuilt"}]
         /\ UNCHANGED <<line, missed>>
  BY DEF SendSnapshot, history
<1>5. run \in Row /\ run.open \in BOOLEAN
  BY <1>1 DEF ServerTypes, Row
<1>6. <<run>> \in Seq(Row) /\ Len(<<run>>) = 1 /\ Head(<<run>>) = run /\ <<run>> # <<>>
  BY <1>5
<1>7. TransportTypes'
  <2>1. stream' \in [Viewers -> {"off", "snapshot", "open"}]
    BY <1>1, <1>3 DEF TransportTypes
  <2>2. line' = line \/ line' = [line EXCEPT ![v] = <<run>>]
    BY <1>4
  <2>3. line' \in [Viewers -> Seq(Row)]
    BY <1>1, <1>6, <2>2 DEF TransportTypes
  <2>4. ASSUME NEW u \in Viewers PROVE Len(line'[u]) <= 1
    <3>1. line'[u] = line[u] \/ line'[u] = <<run>>
      BY <1>1, <2>2 DEF TransportTypes
    <3>2. Len(line[u]) <= 1 /\ Len(<<run>>) <= 1
      BY <1>1, <1>6 DEF TransportTypes
    <3>. QED  BY <3>1, <3>2
  <2>5. buffer' \in [Viewers -> Seq(Row)] /\ \A u \in Viewers : Len(buffer'[u]) <= BufferSize
    BY <1>1, <1>3 DEF TransportTypes
  <2>. QED  BY <2>1, <2>3, <2>4, <2>5 DEF TransportTypes
<1>8. ClientTypes'
  BY <1>1, <1>3 DEF ClientTypes
<1>9. HistoryTypes'
  <2>1. behind' \in [Viewers -> SUBSET Causes]
    BY <1>1, <1>4 DEF HistoryTypes, Causes
  <2>2. missed' \in [Viewers -> BOOLEAN]
    BY <1>1, <1>4, <1>5 DEF HistoryTypes
  <2>. QED  BY <2>1, <2>2 DEF HistoryTypes
<1>10. /\ stream'[v] = "snapshot" /\ buffer'[v] = <<>> /\ line[v] = <<>>
       /\ \A u \in Viewers \ {v} : stream'[u] = stream[u]
  BY <1>1, <1>3 DEF ClosedStreams, TransportTypes
<1>11. \A u \in Viewers \ {v} :
         /\ stream'[u] = stream[u] /\ buffer'[u] = buffer[u] /\ line'[u] = line[u]
         /\ behind'[u] = behind[u] /\ scanning'[u] = scanning[u]
  BY <1>1, <1>3, <1>4, <1>10 DEF TransportTypes, HistoryTypes
<1>12. NothingToTell'
  <2>1. CASE run = Nothing
    BY <1>1, <1>2, <1>3, <1>4, <2>1 DEF NothingToTell
  <2>2. CASE run # Nothing
    BY <1>2, <2>2 DEF NothingToTell
  <2>. QED  BY <2>1, <2>2
<1>13. behind'[v] \subseteq {"answer"} => LastWord(v)'
  <2>1. CASE run = Nothing
    <3>1. line' = line /\ behind' = behind
      BY <1>4, <2>1
    <3>2. "answer" \in behind'[v] \/ ~scanning[v]
      BY <1>1, <2>1, <3>1 DEF NothingToTell
    <3>3. scanning[v] \in BOOLEAN /\ run.open = FALSE
      BY <1>1, <2>1 DEF ClientTypes, Nothing
    <3>4. "answer" \in behind'[v] \/ scanning[v] = run.open
      BY <3>2, <3>3
    <3>. QED  BY <1>2, <1>3, <1>10, <3>1, <3>4 DEF LastWord
  <2>2. CASE line' = [line EXCEPT ![v] = <<run>>]
    <3>1. line'[v] = <<run>>
      BY <1>1, <2>2 DEF TransportTypes
    <3>. QED  BY <1>2, <1>6, <1>10, <3>1 DEF LastWord
  <2>3. CASE behind' = [behind EXCEPT ![v] = behind[v] \cup {"unbuilt"}]
    <3>1. "unbuilt" \in behind'[v]
      BY <1>1, <2>3 DEF HistoryTypes
    <3>. QED  BY <3>1
  <2>. QED  BY <1>4, <2>1, <2>2, <2>3
<1>14. stream'[v] = "off" => line'[v] = <<>>
  BY <1>10
<1>15. QED
  BY <1>2, <1>7, <1>8, <1>9, <1>10, <1>11, <1>12, <1>13, <1>14, OneViewer

(* The subscription: what was published before it has been missed.        *)
LEMMA SubscribeSteps ==
  ASSUME StreamConstants, StreamInvariant, NEW v \in Viewers, Subscribe(v)
  PROVE  StreamInvariant'
<1>1. /\ TransportTypes /\ ClientTypes /\ HistoryTypes /\ NothingToTell /\ ToldTheRow
  BY TypesByPart DEF StreamInvariant
<1>2. /\ UNCHANGED <<run, submit>> /\ ServerTypes' /\ ScannerFacts'
      /\ Published' = Published
  BY ServerUnchanged DEF Subscribe
<1>3. /\ stream' = [stream EXCEPT ![v] = "open"] /\ stream[v] = "snapshot"
      /\ UNCHANGED <<buffer, line, call, scanning, was, lists, behind, missed>>
  BY DEF Subscribe, client, history
<1>4. TransportTypes' /\ ClientTypes' /\ HistoryTypes'
  BY <1>1, <1>3 DEF TransportTypes, ClientTypes, HistoryTypes
<1>5. NothingToTell'
  BY <1>1, <1>2, <1>3 DEF NothingToTell
<1>6. stream'[v] = "open" /\ \A u \in Viewers \ {v} : stream'[u] = stream[u]
  BY <1>1, <1>3 DEF TransportTypes
<1>7. Published /\ behind'[v] \subseteq {"answer"} => LastWord(v)'
  BY <1>1, <1>2, <1>3 DEF ToldTheRow, LastWord
<1>8. QED
  BY <1>2, <1>3, <1>4, <1>5, <1>6, <1>7, OneViewer

(* The place of the last element of a tail.                                *)
LEMMA OneLess ==
  ASSUME NEW n \in Nat, n >= 1, n # 1
  PROVE  n - 1 \in 1..(n - 1) /\ (n - 1) + 1 = n
<1>1. n >= 2
  OBVIOUS
<1>2. QED
  BY <1>1

(* The handler writes what is oldest in the channel.                       *)
LEMMA ForwardSteps ==
  ASSUME StreamConstants, StreamInvariant, NEW v \in Viewers, Forward(v)
  PROVE  StreamInvariant'
<1>1. /\ TransportTypes /\ ClientTypes /\ HistoryTypes /\ NothingToTell /\ ToldTheRow
  BY TypesByPart DEF StreamInvariant
<1>2. /\ UNCHANGED <<run, submit>> /\ ServerTypes' /\ ScannerFacts'
      /\ Published' = Published
  BY ServerUnchanged DEF Forward
<1>3. /\ stream[v] = "open" /\ buffer[v] # <<>> /\ line[v] = <<>>
      /\ line' = [line EXCEPT ![v] = <<Head(buffer[v])>>]
      /\ buffer' = [buffer EXCEPT ![v] = Tail(buffer[v])]
      /\ UNCHANGED <<stream, call, scanning, was, lists, behind, missed>>
  BY DEF Forward, client, history
<1>4. /\ buffer[v] \in Seq(Row) /\ Len(buffer[v]) \in Nat /\ Len(buffer[v]) >= 1
      /\ Head(buffer[v]) \in Row /\ Head(buffer[v]) = buffer[v][1]
      /\ Tail(buffer[v]) \in Seq(Row) /\ Len(Tail(buffer[v])) = Len(buffer[v]) - 1
      /\ \A i \in 1..(Len(buffer[v]) - 1) : Tail(buffer[v])[i] = buffer[v][i + 1]
  <2>1. buffer[v] \in Seq(Row)
    BY <1>1 DEF TransportTypes
  <2>2. /\ Len(buffer[v]) \in Nat /\ Len(buffer[v]) >= 1
    BY <1>3, <2>1, LenProperties, EmptySeq
  <2>. QED  BY <1>3, <2>1, <2>2, HeadTailProperties
<1>5. /\ buffer'[v] = Tail(buffer[v]) /\ line'[v] = <<Head(buffer[v])>>
      /\ \A u \in Viewers \ {v} : buffer'[u] = buffer[u] /\ line'[u] = line[u]
  BY <1>1, <1>3 DEF TransportTypes
<1>6. /\ line'[v] \in Seq(Row) /\ Len(line'[v]) = 1 /\ line'[v] # <<>>
      /\ Head(line'[v]) = Head(buffer[v])
  BY <1>4, <1>5
<1>7. TransportTypes'
  <2>1. buffer' \in [Viewers -> Seq(Row)] /\ line' \in [Viewers -> Seq(Row)]
    BY <1>1, <1>3, <1>4, <1>5, <1>6 DEF TransportTypes
  <2>2. Len(buffer'[v]) <= BufferSize
    BY <1>1, <1>4, <1>5 DEF TransportTypes, StreamConstants
  <2>. QED  BY <1>1, <1>3, <1>5, <1>6, <2>1, <2>2 DEF TransportTypes
<1>8. ClientTypes' /\ HistoryTypes'
  BY <1>1, <1>3 DEF ClientTypes, HistoryTypes
<1>9. NothingToTell'
  BY <1>1, <1>2, <1>3 DEF NothingToTell
<1>10. ASSUME LastWord(v) PROVE LastWord(v)'
  <2>1. buffer[v][Len(buffer[v])] = run
    BY <1>3, <1>10 DEF LastWord
  <2>2. CASE Len(buffer[v]) = 1
    <3>1. Head(line'[v]) = run
      BY <1>4, <1>6, <2>1, <2>2
    <3>2. Len(buffer'[v]) = 0 /\ buffer'[v] \in Seq(Row)
      BY <1>4, <1>5, <2>2
    <3>3. buffer'[v] = <<>>
      BY <3>2, EmptySeq
    <3>. QED  BY <1>2, <1>6, <3>1, <3>3 DEF LastWord
  <2>3. CASE Len(buffer[v]) # 1
    <3>1. /\ Len(buffer[v]) - 1 \in 1..(Len(buffer[v]) - 1)
          /\ (Len(buffer[v]) - 1) + 1 = Len(buffer[v])
      <4>1. Len(buffer[v]) \in Nat /\ Len(buffer[v]) >= 1 /\ Len(buffer[v]) # 1
        BY <1>4, <2>3
      <4>. QED  BY <4>1, OneLess
    <3>2. Tail(buffer[v])[Len(buffer[v]) - 1] = run
      BY <1>4, <2>1, <3>1
    <3>3. buffer'[v][Len(buffer'[v])] = run
      BY <1>4, <1>5, <3>2
    <3>4. Len(buffer'[v]) # 0
      BY <1>4, <1>5, <2>3
    <3>5. buffer'[v] # <<>>
      BY <3>4, EmptySeq
    <3>. QED  BY <1>2, <3>3, <3>5 DEF LastWord
  <2>. QED  BY <2>2, <2>3
<1>11. Published /\ behind'[v] \subseteq {"answer"} => LastWord(v)'
  BY <1>1, <1>3, <1>10 DEF ToldTheRow
<1>12. QED
  BY <1>2, <1>3, <1>5, <1>7, <1>8, <1>9, <1>11, OneViewer

(* A connection breaks: what was under way is gone.                        *)
LEMMA DisconnectSteps ==
  ASSUME StreamConstants, StreamInvariant, NEW v \in Viewers, Disconnect(v)
  PROVE  StreamInvariant'
<1>1. /\ TransportTypes /\ ClientTypes /\ HistoryTypes /\ NothingToTell
  BY TypesByPart DEF StreamInvariant
<1>2. /\ UNCHANGED <<run, submit>> /\ ServerTypes' /\ ScannerFacts'
      /\ Published' = Published
  BY ServerUnchanged DEF Disconnect
<1>3. /\ stream' = [stream EXCEPT ![v] = "off"]
      /\ buffer' = [buffer EXCEPT ![v] = <<>>]
      /\ line' = [line EXCEPT ![v] = <<>>]
      /\ behind' = [behind EXCEPT ![v] = behind[v] \cap {"answer"}]
      /\ UNCHANGED <<call, scanning, was, lists>>
  BY DEF Disconnect, client
<1>4. /\ stream'[v] = "off" /\ buffer'[v] = <<>> /\ line'[v] = <<>>
      /\ \A u \in Viewers \ {v} :
           stream'[u] = stream[u] /\ buffer'[u] = buffer[u] /\ line'[u] = line[u]
      /\ \A u \in Viewers : /\ u # v => behind'[u] = behind[u]
                           /\ "answer" \in behind[u] => "answer" \in behind'[u]
  BY <1>1, <1>3 DEF TransportTypes, HistoryTypes
<1>5. TransportTypes'
  <2>1. /\ stream' \in [Viewers -> {"off", "snapshot", "open"}]
        /\ buffer' \in [Viewers -> Seq(Row)] /\ line' \in [Viewers -> Seq(Row)]
    BY <1>1, <1>3, EmptySeq DEF TransportTypes
  <2>2. Len(<<>>) <= BufferSize /\ Len(<<>>) <= 1
    BY EmptySeq DEF StreamConstants
  <2>. QED  BY <1>1, <1>4, <2>1, <2>2 DEF TransportTypes
<1>6. ClientTypes' /\ HistoryTypes'
  <2>1. missed' \in [Viewers -> BOOLEAN]
    BY <1>1 DEF HistoryTypes, Disconnect
  <2>2. behind' \in [Viewers -> SUBSET Causes]
    BY <1>1, <1>3 DEF HistoryTypes
  <2>. QED  BY <1>1, <1>3, <2>1, <2>2 DEF ClientTypes, HistoryTypes
<1>7. NothingToTell'
  BY <1>1, <1>2, <1>3, <1>4 DEF NothingToTell
<1>8. QED
  BY <1>2, <1>3, <1>4, <1>5, <1>6, <1>7, OneViewer
-----------------------------------------------------------------------------
(* RootLayout: it shows what the last payload says.                        *)
LEMMA MessageSteps ==
  ASSUME StreamConstants, StreamInvariant, NEW v \in Viewers, OnMessage(v)
  PROVE  StreamInvariant'
<1>1. /\ TransportTypes /\ ClientTypes /\ HistoryTypes /\ ServerTypes /\ ScannerFacts
      /\ ClosedStreams /\ NothingToTell /\ ToldTheRow
  BY TypesByPart DEF StreamInvariant
<1>2. /\ UNCHANGED <<run, submit>> /\ ServerTypes' /\ ScannerFacts'
      /\ Published' = Published
  BY ServerUnchanged DEF OnMessage
<1> DEFINE running == Head(line[v]).open
<1>3. /\ line[v] # <<>>
      /\ scanning' = [scanning EXCEPT ![v] = running]
      /\ was' = [was EXCEPT ![v] = running]
      /\ lists' = [lists EXCEPT ![v] = IF Ends(v, running) THEN LastFinished ELSE lists[v]]
      /\ line' = [line EXCEPT ![v] = <<>>]
      /\ behind' = [behind EXCEPT ![v] = behind[v] \ {"answer"}]
      /\ UNCHANGED <<stream, buffer, call, missed>>
  BY DEF OnMessage
<1>4. Head(line[v]) \in Row /\ running \in BOOLEAN
  <2>1. line[v] \in Seq(Row)
    BY <1>1 DEF TransportTypes
  <2>2. Head(line[v]) \in Row
    BY <1>3, <2>1, HeadTailProperties
  <2>. QED  BY <2>2 DEF Row
<1>5. /\ line'[v] = <<>> /\ scanning'[v] = running /\ behind'[v] = behind[v] \ {"answer"}
      /\ \A u \in Viewers \ {v} : /\ line'[u] = line[u] /\ scanning'[u] = scanning[u]
                                  /\ behind'[u] = behind[u]
  BY <1>1, <1>3 DEF TransportTypes, ClientTypes, HistoryTypes
<1>6. TransportTypes'
  <2>1. line' \in [Viewers -> Seq(Row)] /\ Len(<<>>) <= 1
    BY <1>1, <1>3, EmptySeq DEF TransportTypes
  <2>. QED  BY <1>1, <1>3, <1>5, <2>1 DEF TransportTypes
<1>7. LastFinished \in 0..MaxRuns
  <2>1. run.number \in 0..MaxRuns /\ (run.number = 0 => run.open = FALSE)
    BY <1>1 DEF ServerTypes, ScannerFacts, Row, Nothing
  <2>. QED  BY <2>1 DEF LastFinished, StreamConstants
<1>8. ClientTypes'
  <2>1. scanning' \in [Viewers -> BOOLEAN] /\ was' \in [Viewers -> BOOLEAN]
    BY <1>1, <1>3, <1>4 DEF ClientTypes
  <2>2. lists' \in [Viewers -> 0..MaxRuns]
    <3>1. PICK n \in 0..MaxRuns : lists' = [lists EXCEPT ![v] = n]
      <4>1. lists[v] \in 0..MaxRuns
        BY <1>1 DEF ClientTypes
      <4>. QED  BY <1>3, <1>7, <4>1, Zenon
    <3>. QED  BY <1>1, <3>1 DEF ClientTypes
  <2>. QED  BY <1>1, <1>3, <2>1, <2>2 DEF ClientTypes
<1>9. HistoryTypes'
  BY <1>1, <1>3 DEF HistoryTypes
<1> HIDE DEF running
<1>10. NothingToTell'
  BY <1>1, <1>2, <1>3 DEF NothingToTell
<1>11. ASSUME LastWord(v) PROVE LastWord(v)'
  <2>1. CASE buffer[v] # <<>>
    BY <1>2, <1>3, <1>11, <2>1 DEF LastWord
  <2>2. CASE buffer[v] = <<>>
    <3>1. Head(line[v]) = run
      BY <1>3, <1>11, <2>2 DEF LastWord
    <3>2. scanning'[v] = run.open
      BY <1>5, <3>1 DEF running
    <3>. QED  BY <1>2, <1>3, <1>5, <2>2, <3>2 DEF LastWord
  <2>. QED  BY <2>1, <2>2
<1>12. Published /\ stream'[v] # "off" /\ behind'[v] \subseteq {"answer"} => LastWord(v)'
  BY <1>1, <1>3, <1>5, <1>11 DEF ToldTheRow
<1>13. stream'[v] # "open" => buffer'[v] = <<>>
  BY <1>1, <1>3 DEF ClosedStreams
<1>14. QED
  BY <1>2, <1>3, <1>5, <1>6, <1>8, <1>9, <1>10, <1>12, <1>13, OneViewer

(* The viewer's own request, and its answer.                               *)
LEMMA CallSteps ==
  ASSUME StreamConstants, StreamInvariant, NEW v \in Viewers,
         ScanClick(v) \/ ScanAccepted(v) \/ ScanRefused(v)
  PROVE  StreamInvariant'
<1>1. /\ TransportTypes /\ ClientTypes /\ HistoryTypes
      /\ ClosedStreams /\ NothingToTell /\ ToldTheRow
  BY TypesByPart DEF StreamInvariant
<1>2. /\ UNCHANGED <<run, submit>> /\ ServerTypes' /\ ScannerFacts'
      /\ Published' = Published
  BY ServerUnchanged DEF ScanClick, ScanAccepted, ScanRefused
<1>3. UNCHANGED <<stream, buffer, line, was, lists, missed>>
  BY DEF ScanClick, ScanAccepted, ScanRefused, transport, history
<1>4. \/ UNCHANGED <<scanning, behind>>
      \/ /\ scanning' = [scanning EXCEPT ![v] = TRUE]
         /\ behind' = [behind EXCEPT ![v] = behind[v] \cup {"answer"}]
  BY DEF ScanClick, ScanAccepted, ScanRefused, history
<1>5. call' \in [Viewers -> {"none", "sent", "accepted", "refused"}]
  BY <1>1 DEF ScanClick, ScanAccepted, ScanRefused, ClientTypes
<1>6. /\ scanning' \in [Viewers -> BOOLEAN] /\ behind' \in [Viewers -> SUBSET Causes]
      /\ \A u \in Viewers \ {v} : scanning'[u] = scanning[u] /\ behind'[u] = behind[u]
      /\ \/ scanning'[v] = scanning[v] /\ behind'[v] = behind[v]
         \/ behind'[v] = behind[v] \cup {"answer"}
  <2>1. CASE UNCHANGED <<scanning, behind>>
    BY <1>1, <2>1 DEF ClientTypes, HistoryTypes
  <2>2. CASE /\ scanning' = [scanning EXCEPT ![v] = TRUE]
             /\ behind' = [behind EXCEPT ![v] = behind[v] \cup {"answer"}]
    <3>1. scanning' \in [Viewers -> BOOLEAN] /\ behind' \in [Viewers -> SUBSET Causes]
      BY <1>1, <2>2 DEF ClientTypes, HistoryTypes, Causes
    <3>. QED  BY <1>1, <2>2, <3>1 DEF ClientTypes, HistoryTypes
  <2>. QED  BY <1>4, <2>1, <2>2
<1>7. TransportTypes' /\ ClientTypes' /\ HistoryTypes'
  BY <1>1, <1>3, <1>5, <1>6 DEF TransportTypes, ClientTypes, HistoryTypes
<1>8. NothingToTell'
  BY <1>1, <1>2, <1>3, <1>6 DEF NothingToTell
<1>9. ASSUME LastWord(v) PROVE LastWord(v)'
  BY <1>2, <1>3, <1>6, <1>9 DEF LastWord
<1>10. Published /\ stream'[v] # "off" /\ behind'[v] \subseteq {"answer"} => LastWord(v)'
  BY <1>1, <1>3, <1>6, <1>9 DEF ToldTheRow
<1>11. /\ stream'[v] # "open" => buffer'[v] = <<>>
       /\ stream'[v] = "off" => line'[v] = <<>>
  BY <1>1, <1>3 DEF ClosedStreams
<1>12. QED
  BY <1>2, <1>3, <1>6, <1>7, <1>8, <1>10, <1>11, OneViewer

(* TriggerScan, which may start a scan.                                    *)
LEMMA TriggerSteps ==
  ASSUME StreamConstants, StreamInvariant, NEW v \in Viewers, TriggerScan(v)
  PROVE  StreamInvariant'
<1>1. /\ TransportTypes /\ ClientTypes /\ HistoryTypes /\ ServerTypes /\ ScannerFacts
      /\ ClosedStreams /\ NothingToTell /\ ToldTheRow
  BY TypesByPart DEF StreamInvariant
<1>2. /\ UNCHANGED <<run, job, submit, built>>
      /\ UNCHANGED <<stream, buffer, line, scanning, was, lists, behind, missed>>
      /\ \/ phase = "idle" /\ phase' = "starting"
         \/ phase' = phase
  BY DEF TriggerScan, transport, history
<1>3. call' \in [Viewers -> {"none", "sent", "accepted", "refused"}]
  BY <1>1 DEF TriggerScan, ClientTypes
<1>4. ServerTypes' /\ TransportTypes' /\ ClientTypes' /\ HistoryTypes'
  BY <1>1, <1>2, <1>3 DEF ServerTypes, Phases, TransportTypes, ClientTypes, HistoryTypes
<1>5. ScannerFacts' /\ ClosedStreams' /\ NothingToTell'
  BY <1>1, <1>2 DEF ScannerFacts, ClosedStreams, NothingToTell
<1>6. Published' => Published
  BY <1>2 DEF Published
<1>7. ToldTheRow'
  <2>1. ASSUME NEW u \in Viewers, LastWord(u) PROVE LastWord(u)'
    BY <1>2, <2>1 DEF LastWord
  <2>. QED  BY <1>1, <1>2, <1>6, <2>1 DEF ToldTheRow
<1>8. QED
  BY <1>4, <1>5, <1>7, TypesByPartNext DEF StreamInvariant
-----------------------------------------------------------------------------
(* The invariant is inductive.                                             *)
LEMMA StreamSteps ==
  ASSUME StreamConstants, StreamInvariant, [Next]_vars
  PROVE  StreamInvariant'
<1>1. CASE Scheduled \/ SubmitArrives \/ ReturnEarly \/ CreateScreenshotRun \/ BuildBySubmit
  BY <1>1, ServerRests
<1>2. CASE CreateScanRun \/ CompleteScanRun
  BY <1>2, RowChanges
<1>3. CASE BuildByScanner
  BY <1>3, BuildRests
<1>4. CASE PublishByScanner \/ PublishBySubmit
  BY <1>4, PublishSteps
<1>5. CASE \E v \in Viewers : SendSnapshot(v) \/ Subscribe(v) \/ Forward(v) \/ Disconnect(v)
  BY <1>5, SnapshotSteps, SubscribeSteps, ForwardSteps, DisconnectSteps
<1>6. CASE \E v \in Viewers : OnMessage(v) \/ TriggerScan(v)
  BY <1>6, MessageSteps, TriggerSteps
<1>7. CASE \E v \in Viewers : ScanClick(v) \/ ScanAccepted(v) \/ ScanRefused(v)
  BY <1>7, CallSteps
<1>8. CASE UNCHANGED vars
  <2>1. UNCHANGED <<server, run, submit, transport, client, history>>
    BY <1>8 DEF vars, server
  <2>2. /\ ServerTypes' /\ ScannerFacts' /\ Published' = Published
    BY <2>1, ServerUnchanged
  <2>3. run = Nothing => submit' # "built"
    BY <2>1 DEF StreamInvariant, NothingToTell
  <2>. QED  BY <2>1, <2>2, <2>3, ViewersRest
<1>9. QED
  BY <1>1, <1>2, <1>3, <1>4, <1>5, <1>6, <1>7, <1>8 DEF Next, ServerStep, ViewerStep

(* So it holds throughout.                                                 *)
LEMMA StreamIsInvariant ==
  ASSUME StreamConstants
  PROVE  Spec => []StreamInvariant
<1>1. Init => StreamInvariant
  BY StreamInitially
<1>2. StreamInvariant /\ [Next]_vars => StreamInvariant'
  BY StreamSteps
<1>3. QED
  BY <1>1, <1>2, PTL DEF Spec
-----------------------------------------------------------------------------
(* Payloads, rows and streams are what they are taken for.                 *)
THEOREM StreamTypes ==
  ASSUME StreamConstants
  PROVE  Spec => []ProgressTypeOK
<1>1. StreamInvariant => ProgressTypeOK
  BY DEF StreamInvariant
<1>2. QED
  BY <1>1, StreamIsInvariant, PTL

(* However payloads of the scanner and of Submit, connections and answers  *)
(* interleave, a viewer that none of the five causes has left behind shows *)
(* a scan exactly if the ledger has one open, once all is quiet.           *)
THEOREM ViewersSeeTheRow ==
  ASSUME StreamConstants
  PROVE  Spec => []ShownIsTrue
<1>1. StreamInvariant => ShownIsTrue
  <2>1. ASSUME StreamInvariant, NEW v \in Viewers, Quiet(v), behind[v] = {}
        PROVE  scanning[v] = run.open
    <3>1. LastWord(v)
      BY <2>1 DEF StreamInvariant, ToldTheRow, Published, Quiet
    <3>. QED  BY <2>1, <3>1 DEF LastWord, Quiet
  <2>. QED  BY <2>1 DEF ShownIsTrue
<1>2. QED
  BY <1>1, StreamIsInvariant, PTL
-----------------------------------------------------------------------------
(* The end of a run is heard by whoever missed nothing of it.              *)

(* What has not changed says what it said.                                 *)
LEMMA SameWords ==
  ASSUME NEW v \in Viewers, buffer'[v] = buffer[v], line'[v] = line[v], was'[v] = was[v]
  PROVE  LastTold(v)' = LastTold(v) /\ KnowsOfOne(v)' = KnowsOfOne(v)
BY DEF LastTold, KnowsOfOne

(* Whoever was told last that a run is open knows of one.                  *)
LEMMA ToldOfOne ==
  ASSUME TransportTypes, NEW v \in Viewers, LastTold(v) = TRUE
  PROVE  KnowsOfOne(v)
<1>1. buffer[v] \in Seq(Row)
  BY DEF TransportTypes
<1>2. CASE buffer[v] # <<>>
  <2>1. Len(buffer[v]) \in 1..Len(buffer[v])
    BY <1>1, <1>2, LenProperties, EmptySeq
  <2>. QED  BY <1>2, <2>1 DEF LastTold, KnowsOfOne
<1>3. CASE buffer[v] = <<>>
  BY <1>3 DEF LastTold, KnowsOfOne
<1>. QED  BY <1>2, <1>3

(* Steps that tell nobody anything.                                        *)
LEMMA NobodyHears ==
  ASSUME EndsAreHeard, UNCHANGED <<run, buffer, line, was, lists, missed>>,
         ScanHasOpenRow', Announced' => Announced, Published' => Published
  PROVE  EndsAreHeard'
<1>1. ASSUME NEW v \in Viewers PROVE EndReaches(v)'
  <2>1. LastTold(v)' = LastTold(v) /\ KnowsOfOne(v)' = KnowsOfOne(v)
    BY SameWords
  <2>. QED  BY <2>1 DEF EndsAreHeard, EndReaches
<1>. QED  BY <1>1 DEF EndsAreHeard

(* The scanner has built what there is to build.                           *)
NothingFails == run = Nothing \/ UNCHANGED <<phase, job, history>>

LEMMA QuietSteps ==
  ASSUME StreamInvariant, EndsAreHeard,
         \/ Scheduled \/ ReturnEarly \/ CreateScreenshotRun \/ SubmitArrives
         \/ BuildBySubmit \/ (BuildByScanner /\ NothingFails)
         \/ CompleteScanRun /\ job = "screenshot"
         \/ \E v \in Viewers : \/ Subscribe(v) \/ ScanClick(v) \/ TriggerScan(v)
                               \/ ScanAccepted(v) \/ ScanRefused(v)
         \/ UNCHANGED vars
  PROVE  EndsAreHeard'
<1>1. UNCHANGED <<run, buffer, line, was, lists, missed>>
  BY DEF Scheduled, ReturnEarly, CreateScreenshotRun, SubmitArrives, BuildBySubmit,
         BuildByScanner, NothingFails, CompleteScanRun, Subscribe, ScanClick, TriggerScan,
         ScanAccepted, ScanRefused, vars, server, transport, client, history
<1>2. \/ UNCHANGED <<phase, job>>
      \/ phase' \notin {"fresh", "sweep"} /\ phase # "fresh" /\ (phase' # "closed" => Published)
      \/ phase' = "fresh" /\ job' = "screenshot" /\ phase = "starting"
      \/ run = Nothing /\ phase' = "sweep" /\ phase = "fresh" /\ job' = job
      \/ run = Nothing /\ phase' = "idle"
  BY DEF Scheduled, ReturnEarly, CreateScreenshotRun, SubmitArrives, BuildBySubmit,
         BuildByScanner, NothingFails, GoOn, CompleteScanRun, Subscribe, ScanClick, TriggerScan,
         ScanAccepted, ScanRefused, vars, server, Published
<1>3. ScanHasOpenRow'
  BY <1>1, <1>2 DEF EndsAreHeard, ScanHasOpenRow
<1>4. (Announced' => Announced) /\ (Published' => Published)
  BY <1>1, <1>2 DEF Announced, Published
<1>. QED  BY <1>1, <1>3, <1>4, NobodyHears

(* A payload that could not be built is missed by everybody.               *)
LEMMA UnbuiltHeard ==
  ASSUME StreamInvariant, EndsAreHeard, BuildByScanner, ~NothingFails
  PROVE  EndsAreHeard'
<1>1. /\ run' = run /\ run # Nothing /\ job' = job /\ phase \in {"fresh", "closed"}
      /\ phase' = IF phase = "fresh" THEN "sweep" ELSE "idle"
      /\ missed' = [v \in Viewers |-> TRUE]
  BY DEF BuildByScanner, GoOn, NothingFails
<1>2. ScanHasOpenRow'
  BY <1>1 DEF EndsAreHeard, ScanHasOpenRow
<1>3. \A v \in Viewers : EndReaches(v)'
  BY <1>1 DEF EndReaches
<1>. QED  BY <1>1, <1>2, <1>3 DEF EndsAreHeard

(* A run begins, or its row is closed: everybody who missed nothing knows  *)
(* that there is a run.                                                    *)
LEMMA RowsHeard ==
  ASSUME StreamConstants, StreamInvariant, EndsAreHeard,
         CreateScanRun \/ (CompleteScanRun /\ job = "scan")
  PROVE  EndsAreHeard'
<1>1. /\ ServerTypes /\ TransportTypes /\ ScannerFacts
      /\ run.number \in 0..MaxRuns /\ run.open \in BOOLEAN
  BY TypesByPart DEF StreamInvariant, ServerTypes, Row
<1>2. UNCHANGED <<buffer, line, was, lists>>
  BY DEF CreateScanRun, CompleteScanRun, transport, client
<1>3. CASE CreateScanRun
  <2>1. phase' = "fresh" /\ job' = "scan" /\ run' = [number |-> run.number + 1, open |-> TRUE]
    BY <1>3 DEF CreateScanRun
  <2>2. run'.open /\ run' # Nothing /\ ~Announced'
    BY <2>1 DEF Announced, Nothing
  <2>. QED  BY <2>2 DEF EndsAreHeard, ScanHasOpenRow, EndReaches
<1>4. CASE CompleteScanRun /\ job = "scan"
  <2>1. /\ phase = "sweep" /\ phase' = "closed" /\ missed' = missed /\ run # Nothing
        /\ run.number # 0
    BY <1>1, <1>4 DEF CompleteScanRun, history, ScannerFacts
  <2>2. run.open /\ Announced
    BY <1>4, <2>1 DEF EndsAreHeard, ScanHasOpenRow, Announced
  <2>3. PICK open \in BOOLEAN : run' = [run EXCEPT !.open = open]
    BY <1>4 DEF CompleteScanRun
  <2>4. run'.open \in BOOLEAN /\ run' # Nothing
    <3>1. run'.number = run.number /\ run'.open = open
      BY <1>1, <2>3 DEF ServerTypes, Row
    <3>. QED  BY <2>1, <3>1 DEF Nothing
  <2>5. ASSUME NEW v \in Viewers PROVE EndReaches(v)'
    <3>1. LastTold(v)' = LastTold(v) /\ KnowsOfOne(v)' = KnowsOfOne(v)
      BY <1>2, SameWords
    <3>2. ~missed[v] => LastTold(v) = TRUE
      BY <1>1, <2>2 DEF EndsAreHeard, EndReaches
    <3>3. ~missed[v] => KnowsOfOne(v)
      BY <1>1, <3>2, ToldOfOne
    <3>4. ~Published'
      BY <2>1, <2>4 DEF Published
    <3>. QED  BY <2>1, <2>4, <3>1, <3>2, <3>3, <3>4 DEF EndReaches
  <2>. QED  BY <2>1, <2>4, <2>5 DEF EndsAreHeard, ScanHasOpenRow
<1>. QED  BY <1>3, <1>4

(* Whoever missed nothing, once a publish is over, was told the row and    *)
(* had missed nothing before, or was told that it is open, or was told     *)
(* nothing as there was no news.                                           *)
LEMMA PublishHeard ==
  ASSUME StreamInvariant, EndsAreHeard, NEW payload \in Row, NEW news \in BOOLEAN,
         Publish(payload, news),
         run # Nothing, UNCHANGED <<run, stream, line, client>>, ScanHasOpenRow',
         Announced' /\ ~run.open => Announced,
         news \/ (Announced' = Announced /\ Published' = Published)
  PROVE  EndsAreHeard'
<1>1. TransportTypes /\ ServerTypes /\ HistoryTypes
  BY TypesByPart DEF StreamInvariant
<1>2. UNCHANGED <<was, lists>>
  BY DEF client
<1>3. ASSUME NEW v \in Viewers, ~missed'[v], Told(v)
      PROVE  /\ run.open \/ ~missed[v]
             /\ LastTold(v)' = run.open
             /\ KnowsOfOne(v) => KnowsOfOne(v)'
  <2>1. payload = run /\ (run.open \/ ~missed[v])
    BY <1>3 DEF Publish
  <2>2. buffer'[v] = Append(buffer[v], run)
    BY <1>3, <2>1 DEF Publish, Deliver
  <2>3. buffer[v] \in Seq(Row) /\ run \in Row /\ Len(buffer[v]) \in Nat
    BY <1>1, LenProperties DEF TransportTypes, ServerTypes
  <2>4. /\ Len(buffer'[v]) = Len(buffer[v]) + 1
        /\ buffer'[v][Len(buffer[v]) + 1] = run
        /\ \A i \in 1..Len(buffer[v]) : buffer'[v][i] = buffer[v][i]
    BY <2>2, <2>3, AppendProperties
  <2>5. buffer'[v] # <<>> /\ buffer'[v][Len(buffer'[v])] = run
    BY <2>3, <2>4, EmptySeq
  <2>6. LastTold(v)' = run.open
    BY <2>5 DEF LastTold
  <2>7. \A i \in 1..Len(buffer[v]) : i \in 1..Len(buffer'[v])
    BY <2>3, <2>4
  <2>8. KnowsOfOne(v) => KnowsOfOne(v)'
    BY <1>2, <2>4, <2>7 DEF KnowsOfOne
  <2>. QED  BY <2>1, <2>6, <2>8
<1>4. ASSUME NEW v \in Viewers, ~missed'[v], ~Told(v)
      PROVE  /\ ~news /\ ~missed[v]
             /\ LastTold(v)' = LastTold(v) /\ KnowsOfOne(v)' = KnowsOfOne(v)
  <2>1. ~news /\ ~missed[v]
    BY <1>4 DEF Publish
  <2>2. buffer'[v] = buffer[v]
    BY <1>4 DEF Publish, Deliver
  <2>. QED  BY <1>2, <2>1, <2>2, SameWords
<1>5. ASSUME NEW v \in Viewers PROVE EndReaches(v)'
  <2>1. EndReaches(v)
    BY DEF EndsAreHeard
  <2>2. CASE missed'[v]
    BY <2>2 DEF EndReaches
  <2>3. CASE ~missed'[v] /\ Told(v)
    BY <1>2, <1>3, <2>1, <2>3 DEF EndReaches
  <2>4. CASE ~missed'[v] /\ ~Told(v)
    BY <1>2, <1>4, <2>1, <2>4 DEF EndReaches
  <2>. QED  BY <2>2, <2>3, <2>4
<1>. QED  BY <1>2, <1>5 DEF EndsAreHeard

LEMMA PublishesHeard ==
  ASSUME StreamConstants, StreamInvariant, EndsAreHeard,
         PublishByScanner \/ PublishBySubmit
  PROVE  EndsAreHeard'
<1>1. ServerTypes /\ ScannerFacts /\ NothingToTell
  BY TypesByPart DEF StreamInvariant
<1>2. built \in [Builders -> Row]
  BY <1>1 DEF ServerTypes
<1>3. CASE PublishByScanner
  <2>1. /\ built["scanner"] # Nothing /\ Publish(built["scanner"], TRUE)
        /\ phase' = (IF phase = "fresh" THEN "sweep" ELSE "idle") /\ job' = job
        /\ UNCHANGED <<run, stream, line, client>>
    BY <1>3 DEF PublishByScanner, GoOn
  <2>2. run # Nothing /\ built["scanner"] \in Row
    BY <1>1, <1>2, <2>1 DEF ScannerFacts, Builders
  <2>3. ScanHasOpenRow'
    BY <2>1 DEF EndsAreHeard, ScanHasOpenRow
  <2>4. Announced' /\ ~run.open => Announced
    BY <2>1 DEF EndsAreHeard, ScanHasOpenRow, Announced
  <2>. QED  BY <2>1, <2>2, <2>3, <2>4, PublishHeard
<1>4. CASE PublishBySubmit
  <2>1. /\ submit = "built" /\ Publish(built["submit"], FALSE)
        /\ UNCHANGED <<run, phase, job, stream, line, client>>
    BY <1>4 DEF PublishBySubmit
  <2>2. run # Nothing /\ built["submit"] \in Row
    BY <1>1, <1>2, <2>1 DEF NothingToTell, Builders
  <2>3. ScanHasOpenRow' /\ Announced' = Announced /\ Published' = Published
    BY <2>1 DEF EndsAreHeard, ScanHasOpenRow, Announced, Published
  <2>. QED  BY <2>1, <2>2, <2>3, PublishHeard
<1>. QED  BY <1>3, <1>4

(* A step of viewer v: the others keep what they know.                     *)
LEMMA OneHears ==
  ASSUME EndsAreHeard, NEW v \in Viewers, UNCHANGED server,
         \A u \in Viewers \ {v} :
           /\ buffer'[u] = buffer[u] /\ line'[u] = line[u] /\ was'[u] = was[u]
           /\ lists'[u] = lists[u] /\ missed'[u] = missed[u],
         run = Nothing => lists'[v] = lists[v],
         EndReaches(v)'
  PROVE  EndsAreHeard'
<1>1. UNCHANGED <<run, phase, job>>
  BY DEF server
<1>2. ScanHasOpenRow' /\ Announced' = Announced /\ Published' = Published
  BY <1>1 DEF EndsAreHeard, ScanHasOpenRow, Announced, Published
<1>3. ASSUME NEW u \in Viewers \ {v} PROVE EndReaches(u)'
  <2>1. LastTold(u)' = LastTold(u) /\ KnowsOfOne(u)' = KnowsOfOne(u)
    BY SameWords
  <2>. QED  BY <1>1, <1>2, <2>1 DEF EndsAreHeard, EndReaches
<1>4. \A u \in Viewers : EndReaches(u)'
  BY <1>3
<1>5. run' = Nothing => \A u \in Viewers : lists'[u] = 0
  BY <1>1 DEF EndsAreHeard
<1>. QED  BY <1>2, <1>4, <1>5 DEF EndsAreHeard

(* A snapshot says what the row is, and a lost payload is one missed.      *)
LEMMA ConnectionHeard ==
  ASSUME StreamConstants, StreamInvariant, EndsAreHeard, NEW v \in Viewers,
         SendSnapshot(v) \/ Disconnect(v)
  PROVE  EndsAreHeard'
<1>1. TransportTypes /\ ServerTypes /\ HistoryTypes /\ ClosedStreams
  BY TypesByPart DEF StreamInvariant
<1>2. /\ UNCHANGED server /\ UNCHANGED <<run, phase, job, was, lists>>
      /\ Announced' = Announced /\ Published' = Published
  BY DEF SendSnapshot, Disconnect, client, server, Announced, Published
<1>3. EndReaches(v)
  BY DEF EndsAreHeard
<1>4. CASE SendSnapshot(v)
  <2>1. /\ stream[v] = "off" /\ buffer' = buffer
        /\ \/ /\ run # Nothing
              /\ line' = [line EXCEPT ![v] = <<run>>]
              /\ missed' = [missed EXCEPT ![v] = missed[v] /\ ~run.open]
           \/ UNCHANGED <<line, missed>>
    BY <1>4 DEF SendSnapshot, history
  <2>2. buffer[v] = <<>> /\ line[v] = <<>> /\ buffer'[v] = <<>> /\ Len(buffer[v]) = 0
    BY <1>1, <2>1 DEF ClosedStreams
  <2>3. \A u \in Viewers \ {v} : line'[u] = line[u] /\ missed'[u] = missed[u]
    BY <1>1, <2>1 DEF TransportTypes, HistoryTypes
  <2>4. EndReaches(v)'
    <3>1. CASE UNCHANGED <<line, missed>>
      <4>1. LastTold(v)' = LastTold(v) /\ KnowsOfOne(v)' = KnowsOfOne(v)
        BY <1>2, <2>1, <3>1, SameWords
      <4>. QED  BY <1>2, <1>3, <3>1, <4>1 DEF EndReaches
    <3>2. CASE /\ line' = [line EXCEPT ![v] = <<run>>]
               /\ missed' = [missed EXCEPT ![v] = missed[v] /\ ~run.open]
      <4>1. line'[v] # <<>> /\ Head(line'[v]) = run
        BY <1>1, <3>2 DEF TransportTypes
      <4>2. missed'[v] <=> missed[v] /\ ~run.open
        BY <1>1, <3>2 DEF HistoryTypes
      <4>3. LastTold(v)' = run.open
        BY <1>2, <2>2, <4>1 DEF LastTold
      <4>4. KnowsOfOne(v) => was[v]
        BY <2>2 DEF KnowsOfOne
      <4>5. was[v] => KnowsOfOne(v)'
        BY <1>2 DEF KnowsOfOne
      <4>. QED  BY <1>2, <1>3, <4>2, <4>3, <4>4, <4>5 DEF EndReaches
    <3>. QED  BY <2>1, <3>1, <3>2
  <2>. QED  BY <1>2, <2>1, <2>3, <2>4, OneHears
<1>5. CASE Disconnect(v)
  <2>1. /\ buffer' = [buffer EXCEPT ![v] = <<>>] /\ line' = [line EXCEPT ![v] = <<>>]
        /\ missed' = [missed EXCEPT ![v] = missed[v] \/ buffer[v] # <<>> \/ line[v] # <<>>]
    BY <1>5 DEF Disconnect
  <2>2. /\ buffer'[v] = <<>> /\ line'[v] = <<>>
        /\ missed'[v] <=> missed[v] \/ buffer[v] # <<>> \/ line[v] # <<>>
        /\ \A u \in Viewers \ {v} : /\ buffer'[u] = buffer[u] /\ line'[u] = line[u]
                                    /\ missed'[u] = missed[u]
    BY <1>1, <2>1 DEF TransportTypes, HistoryTypes
  <2>3. EndReaches(v)'
    <3>1. CASE missed'[v]
      BY <3>1 DEF EndReaches
    <3>2. CASE ~missed'[v]
      <4>1. ~missed[v] /\ buffer'[v] = buffer[v] /\ line'[v] = line[v] /\ was'[v] = was[v]
        BY <1>2, <2>2, <3>2
      <4>2. LastTold(v)' = LastTold(v) /\ KnowsOfOne(v)' = KnowsOfOne(v)
        BY <4>1, SameWords
      <4>. QED  BY <1>2, <1>3, <4>1, <4>2 DEF EndReaches
    <3>. QED  BY <3>1, <3>2
  <2>. QED  BY <1>2, <2>2, <2>3, OneHears
<1>. QED  BY <1>4, <1>5

(* What is forwarded is still to be handled.                               *)
LEMMA ForwardHeard ==
  ASSUME StreamConstants, StreamInvariant, EndsAreHeard, NEW v \in Viewers, Forward(v)
  PROVE  EndsAreHeard'
<1>1. TransportTypes /\ ServerTypes
  BY TypesByPart DEF StreamInvariant
<1>2. /\ UNCHANGED server /\ UNCHANGED <<run, phase, job, was, lists, missed>>
      /\ buffer[v] # <<>> /\ line[v] = <<>>
      /\ line' = [line EXCEPT ![v] = <<Head(buffer[v])>>]
      /\ buffer' = [buffer EXCEPT ![v] = Tail(buffer[v])]
      /\ Announced' = Announced /\ Published' = Published
  BY DEF Forward, client, history, server, Announced, Published
<1>3. /\ buffer[v] \in Seq(Row) /\ Len(buffer[v]) \in Nat /\ Len(buffer[v]) >= 1
      /\ Head(buffer[v]) = buffer[v][1]
      /\ Tail(buffer[v]) \in Seq(Row) /\ Len(Tail(buffer[v])) = Len(buffer[v]) - 1
      /\ \A i \in 1..(Len(buffer[v]) - 1) : Tail(buffer[v])[i] = buffer[v][i + 1]
  <2>1. buffer[v] \in Seq(Row)
    BY <1>1 DEF TransportTypes
  <2>2. /\ Len(buffer[v]) \in Nat /\ Len(buffer[v]) >= 1
    BY <1>2, <2>1, LenProperties, EmptySeq
  <2>. QED  BY <1>2, <2>1, <2>2, HeadTailProperties
<1>4. /\ buffer'[v] = Tail(buffer[v]) /\ line'[v] = <<Head(buffer[v])>>
      /\ \A u \in Viewers \ {v} : buffer'[u] = buffer[u] /\ line'[u] = line[u]
  BY <1>1, <1>2 DEF TransportTypes
<1>5. line'[v] # <<>> /\ Head(line'[v]) = buffer[v][1]
  BY <1>3, <1>4
<1>6. LastTold(v)' = LastTold(v)
  <2>1. LastTold(v) = buffer[v][Len(buffer[v])].open
    BY <1>2 DEF LastTold
  <2>2. CASE Len(buffer[v]) = 1
    <3>1. buffer'[v] = <<>>
      <4>1. buffer'[v] \in Seq(Row) /\ Len(buffer'[v]) = 0
        BY <1>3, <1>4, <2>2
      <4>. QED  BY <4>1, EmptySeq
    <3>. QED  BY <1>5, <2>1, <2>2, <3>1 DEF LastTold
  <2>3. CASE Len(buffer[v]) # 1
    <3>1. /\ Len(buffer[v]) - 1 \in 1..(Len(buffer[v]) - 1)
          /\ (Len(buffer[v]) - 1) + 1 = Len(buffer[v])
      BY <1>3, <2>3, OneLess
    <3>2. buffer'[v][Len(buffer'[v])] = buffer[v][Len(buffer[v])]
      BY <1>3, <1>4, <3>1
    <3>3. buffer'[v] # <<>>
      <4>1. buffer'[v] \in Seq(Row) /\ Len(buffer'[v]) # 0
        BY <1>3, <1>4, <2>3
      <4>. QED  BY <4>1, EmptySeq
    <3>. QED  BY <2>1, <3>2, <3>3 DEF LastTold
  <2>. QED  BY <2>2, <2>3
<1>7. KnowsOfOne(v) => KnowsOfOne(v)'
  <2>1. ASSUME NEW i \in 1..Len(buffer[v]), buffer[v][i].open
        PROVE  KnowsOfOne(v)'
    <3>1. CASE i = 1
      BY <1>5, <2>1, <3>1 DEF KnowsOfOne
    <3>2. CASE i # 1
      <4>1. i - 1 \in 1..(Len(buffer[v]) - 1) /\ (i - 1) + 1 = i
        BY <1>3, <3>2
      <4>2. buffer'[v][i - 1] = buffer[v][i] /\ i - 1 \in 1..Len(buffer'[v])
        BY <1>3, <1>4, <4>1
      <4>. QED  BY <2>1, <4>2 DEF KnowsOfOne
    <3>. QED  BY <3>1, <3>2
  <2>. QED  BY <1>2, <2>1 DEF KnowsOfOne
<1>8. EndReaches(v)'
  BY <1>2, <1>6, <1>7 DEF EndsAreHeard, EndReaches
<1>. QED  BY <1>2, <1>4, <1>8, OneHears

(* A viewer that knew of a run and hears of none reloads its lists.        *)
LEMMA MessageHeard ==
  ASSUME StreamConstants, StreamInvariant, EndsAreHeard, NEW v \in Viewers, OnMessage(v)
  PROVE  EndsAreHeard'
<1>1. TransportTypes /\ ServerTypes /\ ClientTypes /\ NothingToTell
  BY TypesByPart DEF StreamInvariant
<1> DEFINE running == Head(line[v]).open
<1>2. /\ UNCHANGED server /\ UNCHANGED <<run, phase, job, buffer, missed>>
      /\ line[v] # <<>> /\ line' = [line EXCEPT ![v] = <<>>]
      /\ was' = [was EXCEPT ![v] = running]
      /\ lists' = [lists EXCEPT ![v] = IF Ends(v, running) THEN LastFinished ELSE lists[v]]
      /\ Announced' = Announced /\ Published' = Published
  BY DEF OnMessage, server, Announced, Published
<1>3. run # Nothing
  BY <1>1, <1>2 DEF NothingToTell
<1>4. /\ line'[v] = <<>> /\ was'[v] = running
      /\ lists'[v] = IF Ends(v, running) THEN LastFinished ELSE lists[v]
      /\ \A u \in Viewers \ {v} : /\ line'[u] = line[u] /\ was'[u] = was[u]
                                  /\ lists'[u] = lists[u]
  BY <1>1, <1>2 DEF TransportTypes, ClientTypes
<1> HIDE DEF running
<1>5. LastTold(v)' = LastTold(v)
  BY <1>2, <1>4 DEF LastTold, running
<1>6. KnowsOfOne(v) /\ ~KnowsOfOne(v)' => Ends(v, running)
  BY <1>2, <1>4 DEF KnowsOfOne, Ends, running
<1>7. ~run.open => LastFinished = run.number
  BY DEF LastFinished
<1>8. EndReaches(v)'
  BY <1>2, <1>4, <1>5, <1>6, <1>7 DEF EndsAreHeard, EndReaches
<1>. QED  BY <1>2, <1>3, <1>4, <1>8, OneHears

LEMMA HeardSteps ==
  ASSUME StreamConstants, StreamInvariant, EndsAreHeard, [Next]_vars
  PROVE  EndsAreHeard'
<1>1. CASE CompleteScanRun
  <2>1. job \in {"scan", "screenshot"}
    BY <1>1 DEF CompleteScanRun
  <2>. QED  BY <1>1, <2>1, QuietSteps, RowsHeard
<1>2. CASE CreateScanRun \/ PublishByScanner \/ PublishBySubmit
  BY <1>2, RowsHeard, PublishesHeard
<1>3. CASE \E v \in Viewers : SendSnapshot(v) \/ Disconnect(v) \/ Forward(v) \/ OnMessage(v)
  BY <1>3, ConnectionHeard, ForwardHeard, MessageHeard
<1>4. CASE \/ Scheduled \/ ReturnEarly \/ CreateScreenshotRun \/ SubmitArrives
           \/ BuildBySubmit \/ (BuildByScanner /\ NothingFails)
           \/ \E v \in Viewers : \/ Subscribe(v) \/ ScanClick(v) \/ TriggerScan(v)
                                 \/ ScanAccepted(v) \/ ScanRefused(v)
           \/ UNCHANGED vars
  BY <1>4, QuietSteps
<1>5. CASE BuildByScanner /\ ~NothingFails
  BY <1>5, UnbuiltHeard
<1>. QED  BY <1>1, <1>2, <1>3, <1>4, <1>5 DEF Next, ServerStep, ViewerStep

LEMMA HeardInitially == ASSUME Init PROVE EndsAreHeard
BY DEF Init, EndsAreHeard, ScanHasOpenRow, EndReaches, Announced

(* A viewer that was told that the newest run was open, and to whom each   *)
(* later publish of the scanner was built and came through, has reloaded   *)
(* its lists after the run's end, once all is quiet: no order of forwards, *)
(* reconnections, failed reads and payloads of Submit that are as the row  *)
(* is makes RootLayout miss the end.                                       *)
THEOREM ListsFollowTheRun ==
  ASSUME StreamConstants
  PROVE  Spec => []ListsAreFresh
<1>1. Init => EndsAreHeard
  BY HeardInitially
<1>2. StreamInvariant /\ EndsAreHeard /\ [Next]_vars => EndsAreHeard'
  BY HeardSteps
<1>3. StreamInvariant /\ EndsAreHeard => ListsAreFresh
  <2>1. ASSUME StreamInvariant, EndsAreHeard, NEW v \in Viewers,
               Quiet(v), ~run.open, ~missed[v]
        PROVE  lists[v] = run.number
    <3>1. CASE run = Nothing
      BY <2>1, <3>1 DEF EndsAreHeard, Nothing
    <3>2. CASE run # Nothing
      <4>1. Announced /\ Published /\ buffer[v] = <<>> /\ line[v] = <<>>
        BY <2>1, <3>2 DEF Quiet, Announced, Published
      <4>2. LastTold(v) = run.open /\ (lists[v] = run.number \/ KnowsOfOne(v))
        BY <2>1, <4>1 DEF EndsAreHeard, EndReaches
      <4>3. LastTold(v) = was[v]
        BY <4>1 DEF LastTold
      <4>4. KnowsOfOne(v) => was[v]
        BY <4>1 DEF KnowsOfOne
      <4>. QED  BY <2>1, <4>2, <4>3, <4>4
    <3>. QED  BY <3>1, <3>2
  <2>. QED  BY <2>1 DEF ListsAreFresh
<1>. QED  BY <1>1, <1>2, <1>3, StreamIsInvariant, PTL DEF Spec
-----------------------------------------------------------------------------
(* NotificationBell. *)

Badges == 0..Cardinality(Notes)
CountReply == [counted : BOOLEAN, value : Badges]
BellWrite == [kind : {"read", "delete", "clear"}, note : Notes, items : SUBSET Item]

(* The table, what the panel shows, and what is under way.                 *)
PanelTypes ==
  /\ badge \in Badges
  /\ dropdown \in BOOLEAN /\ asking \in BOOLEAN
  /\ items \subseteq Item
  /\ events \in 0..MaxEvents

NotesTyped == notes \in [Notes -> {"absent", "unread", "read"}]
PollsTyped == polls \in Seq(CountReply) /\ Len(polls) <= MaxPolls
WritesTyped == writes \subseteq BellWrite

LEMMA BellByPart ==
  BellTypeOK <=> PanelTypes /\ NotesTyped /\ PollsTyped /\ WritesTyped
BY DEF BellTypeOK, PanelTypes, NotesTyped, PollsTyped, WritesTyped, Badges, CountReply,
       BellWrite

LEMMA BellByPartNext ==
  BellTypeOK' <=> PanelTypes' /\ NotesTyped' /\ PollsTyped' /\ WritesTyped'
BY DEF BellTypeOK, PanelTypes, NotesTyped, PollsTyped, WritesTyped, Badges, CountReply,
       BellWrite

(* What is counted is a number of notifications.                           *)
LEMMA UnreadIsABadge == Cardinality(Notes) \in Nat /\ Unread \in Badges
<1> DEFINE unread == {n \in Notes : notes[n] = "unread"}
<1>1. unread \in SUBSET Notes
  OBVIOUS
<1> HIDE DEF unread
<1>2. /\ Cardinality(Notes) \in Nat
      /\ IsFiniteSet(unread) /\ Cardinality(unread) <= Cardinality(Notes)
  BY <1>1, BellConstants, FS_CardinalityType, FS_Subset
<1>3. Cardinality(unread) \in Nat
  BY <1>2, FS_CardinalityType
<1> QED  BY <1>2, <1>3 DEF unread, Unread, Badges

(* A badge counts down to one.                                             *)
LEMMA CountsDown ==
  ASSUME PanelTypes, NEW item
  PROVE  CountDown(item) \in Badges
BY UnreadIsABadge DEF PanelTypes, CountDown, Badges

(* One more count, if there is room for it, or one less.                   *)
LEMMA OneMorePoll ==
  ASSUME PollsTyped, MayPoll
  PROVE  Sent(polls) \in Seq(CountReply) /\ Len(Sent(polls)) <= MaxPolls
<1>1. [counted |-> FALSE, value |-> 0] \in CountReply
  BY UnreadIsABadge DEF CountReply, Badges
<1>2. /\ Sent(polls) \in Seq(CountReply)
      /\ Len(Sent(polls)) = Len(polls) + 1 /\ Len(polls) \in Nat
  BY <1>1, AppendProperties, LenProperties DEF PollsTyped, Sent
<1> QED  BY <1>2, BellConstants DEF MayPoll

LEMMA OnePollLess ==
  ASSUME PollsTyped, NEW i \in DOMAIN polls
  PROVE  RemoveAt(polls, i) \in Seq(CountReply) /\ Len(RemoveAt(polls, i)) <= MaxPolls
<1>1. Len(polls) \in Nat /\ i \in 1..Len(polls)
  BY LenProperties DEF PollsTyped
<1>2. /\ RemoveAt(polls, i) \in Seq(CountReply)
      /\ Len(RemoveAt(polls, i)) = Len(polls) - 1
  BY <1>1, RemoveAtSeq DEF PollsTyped
<1> QED  BY <1>1, <1>2, BellConstants DEF PollsTyped

(* A write leaves a table.                                                 *)
LEMMA WrittenIsATable ==
  ASSUME NotesTyped, NEW w
  PROVE  Written(w) \in [Notes -> {"absent", "unread", "read"}]
BY DEF NotesTyped, Written

LEMMA BellInitially == BellInit => BellTypeOK
<1> SUFFICES ASSUME BellInit PROVE BellTypeOK
  OBVIOUS
<1>1. NotesTyped /\ WritesTyped
  BY DEF BellInit, NotesTyped, WritesTyped
<1>2. PanelTypes
  <2>1. 0 \in Badges /\ 0 \in 0..MaxEvents
    BY UnreadIsABadge, BellConstants DEF Badges
  <2> QED  BY <2>1 DEF BellInit, PanelTypes
<1>3. PollsTyped
  BY EmptySeq, BellConstants DEF BellInit, PollsTyped
<1> QED  BY <1>1, <1>2, <1>3, BellByPart

LEMMA EventCounts ==
  ASSUME PanelTypes, Event
  PROVE  events' \in 0..MaxEvents
BY BellConstants DEF PanelTypes, Event

(* The notifier and the other tab. *)
LEMMA NoteSteps ==
  ASSUME BellTypeOK, NEW n \in Notes, NoteArrives(n) \/ ReadElsewhere(n)
  PROVE  BellTypeOK'
<1>1. PanelTypes /\ NotesTyped /\ PollsTyped /\ WritesTyped
  BY BellByPart
<1>2. /\ Event
      /\ UNCHANGED <<badge, dropdown, items, polls, asking, writes>>
      /\ \/ notes' = [notes EXCEPT ![n] = "unread"]
         \/ notes' = [notes EXCEPT ![n] = "read"]
  BY DEF NoteArrives, ReadElsewhere
<1>3. NotesTyped'
  BY <1>1, <1>2 DEF NotesTyped
<1>4. PanelTypes' /\ PollsTyped' /\ WritesTyped'
  BY <1>1, <1>2, EventCounts DEF PanelTypes, PollsTyped, WritesTyped, Badges
<1> QED  BY <1>3, <1>4, BellByPartNext

(* The counts. *)
LEMMA PollSteps ==
  ASSUME BellTypeOK,
         \/ Poll
         \/ \E i \in DOMAIN polls : Count(i) \/ PollAnswers(i) \/ PollFails(i)
  PROVE  BellTypeOK'
<1>1. PanelTypes /\ NotesTyped /\ PollsTyped /\ WritesTyped
  BY BellByPart
<1>2. /\ UNCHANGED <<notes, dropdown, items, asking, writes>>
      /\ events' = events \/ Event
  BY DEF Poll, Count, PollAnswers, PollFails
<1>3. NotesTyped' /\ WritesTyped'
  BY <1>1, <1>2 DEF NotesTyped, WritesTyped
<1>4. events' \in 0..MaxEvents
  BY <1>1, <1>2, EventCounts DEF PanelTypes
<1>5. badge' \in Badges /\ polls' \in Seq(CountReply) /\ Len(polls') <= MaxPolls
  <2>1. CASE Poll
    <3>1. badge' = badge /\ polls' = Sent(polls) /\ MayPoll
      BY <2>1 DEF Poll, Polls
    <3> QED  BY <1>1, <3>1, OneMorePoll DEF PanelTypes
  <2>2. ASSUME NEW i \in DOMAIN polls, Count(i)
        PROVE  badge' \in Badges /\ polls' \in Seq(CountReply) /\ Len(polls') <= MaxPolls
    <3> DEFINE told == [counted |-> TRUE, value |-> Unread]
    <3>1. told \in CountReply
      BY UnreadIsABadge DEF CountReply
    <3>2. badge' = badge /\ polls' = [polls EXCEPT ![i] = told]
      BY <2>2 DEF Count
    <3> HIDE DEF told
    <3>3. polls \in Seq(CountReply) /\ Len(polls) <= MaxPolls
      BY <1>1 DEF PollsTyped
    <3>4. polls' \in Seq(CountReply) /\ Len(polls') = Len(polls)
      BY <3>1, <3>2, <3>3, ExceptSeq, LenProperties
    <3> QED  BY <1>1, <3>2, <3>3, <3>4 DEF PanelTypes
  <2>3. ASSUME NEW i \in DOMAIN polls, PollAnswers(i)
        PROVE  badge' \in Badges /\ polls' \in Seq(CountReply) /\ Len(polls') <= MaxPolls
    <3>1. badge' = polls[i].value /\ polls' = RemoveAt(polls, i)
      BY <2>3 DEF PollAnswers
    <3>2. polls[i] \in CountReply
      BY <1>1, ElementOfSeq, LenProperties DEF PollsTyped
    <3> QED  BY <1>1, <3>1, <3>2, OnePollLess DEF CountReply
  <2>4. ASSUME NEW i \in DOMAIN polls, PollFails(i)
        PROVE  badge' \in Badges /\ polls' \in Seq(CountReply) /\ Len(polls') <= MaxPolls
    <3>1. badge' = badge /\ polls' = RemoveAt(polls, i)
      BY <2>4 DEF PollFails
    <3> QED  BY <1>1, <3>1, OnePollLess DEF PanelTypes
  <2> QED  BY <2>1, <2>2, <2>3, <2>4
<1>6. PanelTypes'
  BY <1>1, <1>2, <1>4, <1>5 DEF PanelTypes, Badges
<1>7. PollsTyped'
  BY <1>5 DEF PollsTyped, CountReply, Badges
<1> QED  BY <1>3, <1>6, <1>7, BellByPartNext

(* The panel. *)
LEMMA PanelSteps ==
  ASSUME BellTypeOK,
         \/ ToggleOpen \/ ListAnswers \/ HandleClearAll
         \/ \E item \in items : HandleClick(item) \/ HandleDelete(item)
  PROVE  BellTypeOK'
<1>1. PanelTypes /\ NotesTyped /\ PollsTyped /\ WritesTyped
  BY BellByPart
<1>2. UNCHANGED <<notes, polls>> /\ (events' = events \/ Event)
  BY DEF ToggleOpen, ListAnswers, HandleClearAll, HandleClick, HandleDelete
<1>3. NotesTyped' /\ PollsTyped'
  BY <1>1, <1>2 DEF NotesTyped, PollsTyped
<1>4. events' \in 0..MaxEvents
  BY <1>1, <1>2, EventCounts DEF PanelTypes
<1>5. /\ badge' \in Badges /\ dropdown' \in BOOLEAN /\ asking' \in BOOLEAN
      /\ items' \subseteq Item /\ writes' \subseteq BellWrite
  <2>1. /\ badge \in Badges /\ dropdown \in BOOLEAN /\ asking \in BOOLEAN
        /\ items \subseteq Item /\ writes \subseteq BellWrite
    BY <1>1 DEF PanelTypes, WritesTyped
  <2>2. CASE ToggleOpen
    BY <2>1, <2>2 DEF ToggleOpen
  <2>3. CASE ListAnswers
    <3>1. {<<n, notes[n] = "unread">> : n \in {m \in Notes : notes[m] # "absent"}}
            \subseteq Item
      <4>1. \A n \in Notes : <<n, notes[n] = "unread">> \in Item
        BY Zenon DEF Item
      <4> QED  BY <4>1, Zenon
    <3> QED  BY <2>1, <2>3, <3>1 DEF ListAnswers
  <2>4. CASE HandleClearAll
    <3>1. /\ items # {} /\ items' = {} /\ badge' = 0
          /\ writes' = writes \cup {Write("clear", CHOOSE n \in Notes : TRUE, items)}
          /\ UNCHANGED <<dropdown, asking>>
      BY <2>4 DEF HandleClearAll
    <3>2. Notes # {}
      BY <2>1, <3>1 DEF Item
    <3>3. (CHOOSE n \in Notes : TRUE) \in Notes
      BY <3>2
    <3>4. Write("clear", CHOOSE n \in Notes : TRUE, items) \in BellWrite
      BY <2>1, <3>3 DEF Write, BellWrite
    <3>5. 0 \in Badges
      BY UnreadIsABadge DEF Badges
    <3> QED  BY <2>1, <3>1, <3>4, <3>5
  <2>5. ASSUME NEW item \in items, HandleClick(item)
        PROVE  /\ badge' \in Badges /\ dropdown' \in BOOLEAN /\ asking' \in BOOLEAN
               /\ items' \subseteq Item /\ writes' \subseteq BellWrite
    <3>1. /\ dropdown' = FALSE /\ badge' = CountDown(item)
          /\ writes' = writes \/ writes' = writes \cup {Write("read", item[1], {})}
          /\ UNCHANGED <<items, asking>>
      BY <2>5 DEF HandleClick
    <3>2. Write("read", item[1], {}) \in BellWrite
      BY <2>1 DEF Write, BellWrite, Item
    <3> QED  BY <1>1, <2>1, <3>1, <3>2, CountsDown
  <2>6. ASSUME NEW item \in items, HandleDelete(item)
        PROVE  /\ badge' \in Badges /\ dropdown' \in BOOLEAN /\ asking' \in BOOLEAN
               /\ items' \subseteq Item /\ writes' \subseteq BellWrite
    <3>1. /\ items' \subseteq items /\ badge' = CountDown(item)
          /\ writes' = writes \cup {Write("delete", item[1], {})}
          /\ UNCHANGED <<dropdown, asking>>
      BY <2>6 DEF HandleDelete
    <3>2. Write("delete", item[1], {}) \in BellWrite
      BY <2>1 DEF Write, BellWrite, Item
    <3> QED  BY <1>1, <2>1, <3>1, <3>2, CountsDown
  <2> QED  BY <2>2, <2>3, <2>4, <2>5, <2>6
<1>6. PanelTypes' /\ WritesTyped'
  BY <1>4, <1>5 DEF PanelTypes, WritesTyped, Badges, Item, BellWrite
<1> QED  BY <1>3, <1>6, BellByPartNext

(* The requests that write. *)
LEMMA WriteSteps ==
  ASSUME BellTypeOK, NEW w \in writes, WriteArrives(w) \/ WriteFails(w)
  PROVE  BellTypeOK'
<1>1. PanelTypes /\ NotesTyped /\ PollsTyped /\ WritesTyped
  BY BellByPart
<1>2. w.items \subseteq Item
  BY <1>1 DEF WritesTyped, BellWrite
<1>3. /\ writes' = writes \ {w} /\ notes' \in {notes, Written(w)}
      /\ UNCHANGED <<badge, dropdown, asking>>
      /\ events' = events \/ Event
      /\ \/ UNCHANGED <<items, polls>>
         \/ items' = w.items /\ polls' = Sent(polls) /\ MayPoll
  BY DEF WriteArrives, WriteFails
<1>4. NotesTyped' /\ WritesTyped'
  BY <1>1, <1>3, WrittenIsATable DEF NotesTyped, WritesTyped, BellWrite, Item
<1>5. events' \in 0..MaxEvents
  BY <1>1, <1>3, EventCounts DEF PanelTypes
<1>6. PanelTypes'
  BY <1>1, <1>2, <1>3, <1>5 DEF PanelTypes, Badges, Item
<1>7. PollsTyped'
  <2>1. polls' \in Seq(CountReply) /\ Len(polls') <= MaxPolls
    BY <1>1, <1>3, OneMorePoll DEF PollsTyped
  <2> QED  BY <2>1 DEF PollsTyped, CountReply, Badges
<1> QED  BY <1>4, <1>6, <1>7, BellByPartNext

LEMMA BellSteps ==
  ASSUME BellTypeOK, [BellNext]_bellVars
  PROVE  BellTypeOK'
<1>1. CASE \E n \in Notes : NoteArrives(n) \/ ReadElsewhere(n)
  BY <1>1, NoteSteps
<1>2. CASE Poll \/ \E i \in DOMAIN polls : Count(i) \/ PollAnswers(i) \/ PollFails(i)
  BY <1>2, PollSteps
<1>3. CASE \/ ToggleOpen \/ ListAnswers \/ HandleClearAll
           \/ \E item \in items : HandleClick(item) \/ HandleDelete(item)
  BY <1>3, PanelSteps
<1>4. CASE \E w \in writes : WriteArrives(w) \/ WriteFails(w)
  BY <1>4, WriteSteps
<1>5. CASE UNCHANGED bellVars
  BY <1>5 DEF bellVars, BellTypeOK, Item
<1> QED  BY <1>1, <1>2, <1>3, <1>4, <1>5 DEF BellNext, BellAnswers

(* The badge stays between nothing and the number of notifications, however *)
(* the answers of polls and the countdowns of the panel overtake each other,*)
(* and a failed clear puts back nothing but notifications.                  *)
THEOREM BellTypes == BellInit /\ [][BellNext]_bellVars => []BellTypeOK
<1>1. BellInit => BellTypeOK
  BY BellInitially
<1>2. BellTypeOK /\ [BellNext]_bellVars => BellTypeOK'
  BY BellSteps
<1> QED  BY <1>1, <1>2, PTL
-----------------------------------------------------------------------------
(* The console. *)

ConsoleConstants ==
  StreamConstants /\ GridConstants /\ LoaderConstants /\ MaxChanges \in Nat

(* A step of the console is a step of one part, which the others sit out.  *)
LEMMA OnePartMoves ==
  ASSUME [ConsoleNext]_consoleVars
  PROVE  /\ [Next]_vars /\ [GridNext]_gridVars /\ [LoaderNext]_loaderVars
         /\ [FilterNext]_filterVars /\ [RowNext]_rowVars /\ [BellNext]_bellVars
         /\ [CasesNext]_casesVars /\ [DueNext]_dueVars
         /\ focus' = focus
BY DEF ConsoleNext, consoleVars, RestStream, RestGrid, RestLoader, RestQuery, RestRow,
       RestBell, RestCase, RestDue

(* So the console behaves as each of its parts does.                       *)
THEOREM ConsoleIsItsParts ==
  ConsoleSpec => /\ Spec /\ GridSpec /\ LoaderSpec /\ FilterSpec /\ RowSpec
                 /\ BellInit /\ [][BellNext]_bellVars
                 /\ CasesSpec /\ DueSpec
<1>1. ConsoleInit => /\ Init /\ GridInit /\ LoaderInit /\ FilterInit /\ RowInit
                     /\ BellInit /\ CasesInit /\ DueInit
  BY DEF ConsoleInit
<1>2. [ConsoleNext]_consoleVars =>
        /\ [Next]_vars /\ [GridNext]_gridVars /\ [LoaderNext]_loaderVars
        /\ [FilterNext]_filterVars /\ [RowNext]_rowVars /\ [BellNext]_bellVars
        /\ [CasesNext]_casesVars /\ [DueNext]_dueVars
  BY OnePartMoves
<1> QED  BY <1>1, <1>2, PTL
         DEF ConsoleSpec, Spec, GridSpec, LoaderSpec, FilterSpec, RowSpec, CasesSpec, DueSpec

(* Every part keeps its types, the one that moves and the ones that rest.  *)
THEOREM ConsoleTypes ==
  ASSUME ConsoleConstants
  PROVE  ConsoleSpec => []TypeOK
<1>1. StreamConstants /\ GridConstants /\ LoaderConstants /\ MaxChanges \in Nat
  BY DEF ConsoleConstants
<1>2. ConsoleInit => focus \in Parts
  BY DEF ConsoleInit
<1>3. focus \in Parts /\ [ConsoleNext]_consoleVars => (focus \in Parts)'
  BY OnePartMoves
<1>4. ConsoleSpec => [](focus \in Parts)
  BY <1>2, <1>3, PTL DEF ConsoleSpec
<1>5. Spec => []ProgressTypeOK
  BY <1>1, StreamTypes
<1>6. GridSpec => []GridTypeOK
  <2>1. GridInvariant => GridTypeOK
    BY DEF GridInvariant
  <2>2. GridSpec => []GridInvariant
    BY <1>1, GridIsInvariant
  <2> QED  BY <2>1, <2>2, PTL
<1>7. LoaderSpec => []LoaderTypeOK
  <2>1. LoaderInvariant => LoaderTypeOK
    BY DEF LoaderInvariant
  <2>2. LoaderSpec => []LoaderInvariant
    BY <1>1, LoaderIsSound
  <2> QED  BY <2>1, <2>2, PTL
<1>8. RowSpec => []RowTypeOK
  <2>1. RowInit => RowInvariant
    BY <1>1, RowInitially
  <2>2. RowInvariant /\ [RowNext]_rowVars => RowInvariant'
    BY <1>1, RowSteps
  <2>3. RowInvariant => RowTypeOK
    BY DEF RowInvariant
  <2> QED  BY <2>1, <2>2, <2>3, PTL DEF RowSpec
<1>9. DueSpec => []DueTypeOK
  <2>1. DueInvariant => DueTypeOK
    BY DEF DueInvariant
  <2> QED  BY <2>1, DueAlways, PTL
<1>10. /\ focus \in Parts
       /\ ProgressTypeOK /\ GridTypeOK /\ LoaderTypeOK /\ FilterTypeOK /\ RowTypeOK
       /\ BellTypeOK /\ CasesTypeOK /\ DueTypeOK
       => TypeOK
  BY DEF TypeOK, Parts
<1> QED  BY <1>4, <1>5, <1>6, <1>7, <1>8, <1>9, <1>10, FilterTypes, BellTypes,
            CaseTypesKept, ConsoleIsItsParts, PTL
=============================================================================
