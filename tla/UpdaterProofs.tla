--------------------------- MODULE UpdaterProofs ---------------------------
(***************************************************************************)
(* Theorems about Updater, for every set of versions, of checkers and of   *)
(* downloads, and every number of chunks.  The safety properties follow    *)
(* from UpdaterInv, which is inductive: as long as a version has one       *)
(* download at a time, its `.part` is that download's own file, so what is *)
(* renamed is what was written.                                            *)
(***************************************************************************)
EXTENDS Updater, TLAPS


\* Types are preserved.
LEMMA TypeStep ==
  TypeOK /\ DownloadsInStep /\ [Next]_vars => TypeOK'
<1> SUFFICES ASSUME TypeOK, DownloadsInStep, [Next]_vars
             PROVE  TypeOK'
  OBVIOUS
<1> USE ConstantsAssumption
<1>1. ASSUME NEW c \in Checkers, CheckStart(c)
      PROVE  TypeOK'
  BY <1>1 DEF CheckStart, fileVars, CheckTo, TypeOK, Kinds, CheckPcs,
      DownloadPcs, Whole
<1>2. ASSUME NEW c \in Checkers, CheckUnparsable(c)
      PROVE  TypeOK'
  BY <1>2 DEF CheckUnparsable, fileVars, SetState, State, TypeOK, Kinds,
      CheckPcs, DownloadPcs, Whole
<1>3. ASSUME NEW c \in Checkers, FetchOk(c)
      PROVE  TypeOK'
  BY <1>3 DEF FetchOk, fileVars, CheckTo, SetState, Verdicts, State, StateOf,
      TypeOK, Kinds, CheckPcs, DownloadPcs, Whole
<1>4. ASSUME NEW c \in Checkers, FetchFails(c)
      PROVE  TypeOK'
  BY <1>4 DEF FetchFails, fileVars, CheckTo, TypeOK, Kinds, CheckPcs,
      DownloadPcs, Whole
<1>5. ASSUME NEW c \in Checkers, GiveUp(c)
      PROVE  TypeOK'
  BY <1>5 DEF GiveUp, fileVars, CheckTo, SetState, State, TypeOK, Kinds,
      CheckPcs, DownloadPcs, Whole
<1>6. ASSUME NEW d \in Downloads, StartDownload(d)
      PROVE  TypeOK'
  <2>1. dl' = [dl EXCEPT ![d] = [pc |-> "begin", version |-> state.latest,
                                 file |-> None, written |-> 0]]
    BY <1>6 DEF StartDownload, Locals
  <2>2. state.latest \in Versions /\ overlapped' \subseteq Versions
    BY <1>6 DEF StartDownload, TypeOK
  <2> QED BY <1>6, <2>1, <2>2 DEF StartDownload, fileVars, TypeOK, DownloadPcs
<1>7. ASSUME NEW d \in Downloads, BeginDownload(d)
      PROVE  TypeOK'
  BY <1>7 DEF BeginDownload, fileVars, GoTo, SetState, StateOf, TypeOK,
      Kinds, CheckPcs, DownloadPcs, Whole, DownloadsInStep, Active
<1>8. ASSUME NEW d \in Downloads, RemovePart(d)
      PROVE  TypeOK'
  BY <1>8 DEF RemovePart, fileVars, GoTo, TypeOK, Kinds, CheckPcs,
      DownloadPcs, Whole, DownloadsInStep, Active
<1>9. ASSUME NEW d \in Downloads, CreatePart(d)
      PROVE  TypeOK'
  <2> DEFINE v == dl[d].version
             f == IF part[v] = None THEN d ELSE part[v]
  <2>1. /\ v \in Versions /\ f \in Downloads
        /\ dl' = [dl EXCEPT ![d] = Locals("body", v, f)]
        /\ part' = [part EXCEPT ![v] = f]
        /\ file' = [file EXCEPT ![f] = {}]
    BY <1>9 DEF CreatePart, TypeOK, DownloadsInStep, Active
  <2>2. UNCHANGED <<state, experimental, check, queue, exe,
                    overlapped>>
    BY <1>9 DEF CreatePart
  <2> HIDE DEF v, f
  <2>3. dl' \in [Downloads -> [pc : DownloadPcs, version : Versions \cup {None},
                             file : Downloads \cup {None},
                             written : 0 .. Chunks]]
    BY <2>1 DEF TypeOK, DownloadPcs, Locals
  <2> QED BY <2>1, <2>2, <2>3 DEF TypeOK, Whole
<1>10. ASSUME NEW d \in Downloads, WriteChunk(d)
      PROVE  TypeOK'
  BY <1>10 DEF WriteChunk, fileVars, TypeOK, Kinds, CheckPcs, DownloadPcs,
      Whole, DownloadsInStep, Active
<1>11. ASSUME NEW d \in Downloads, DownloadFails(d)
      PROVE  TypeOK'
  BY <1>11 DEF DownloadFails, fileVars, GoTo, TypeOK, Kinds, CheckPcs,
      DownloadPcs, Whole, DownloadsInStep, Active
<1>12. ASSUME NEW d \in Downloads, FinishBody(d)
      PROVE  TypeOK'
  BY <1>12 DEF FinishBody, fileVars, GoTo, TypeOK, Kinds, CheckPcs,
      DownloadPcs, Whole, DownloadsInStep, Active
<1>13. ASSUME NEW d \in Downloads, Rename(d)
      PROVE  TypeOK'
  BY <1>13 DEF Rename, fileVars, GoTo, TypeOK, Kinds, CheckPcs, DownloadPcs,
      Whole, DownloadsInStep, Active
<1>14. ASSUME NEW d \in Downloads, RenameFails(d)
      PROVE  TypeOK'
  BY <1>14 DEF RenameFails, fileVars, GoTo, TypeOK, Kinds, CheckPcs,
      DownloadPcs, Whole, DownloadsInStep, Active
<1>15. ASSUME NEW d \in Downloads, EndDownload(d)
      PROVE  TypeOK'
  <2>1. dl' = [dl EXCEPT ![d] = [pc |-> "done", version |-> dl[d].version,
                                 file |-> None, written |-> 0]]
    BY <1>15 DEF EndDownload, Locals
  <2>2. dl[d].version \in Versions
    BY <1>15 DEF EndDownload, DownloadsInStep, Active
  <2>3. /\ state' \in [kind : Kinds, latest : Versions \cup {None}]
        /\ state'.kind \in {"Available", "Downloading", "Ready"} =>
             state'.latest \in Versions
    BY <1>15, <2>2 DEF EndDownload, SetState, State, StateOf, Kinds, TypeOK
  <2>4. dl' \in [Downloads -> [pc : DownloadPcs, version : Versions \cup {None},
                             file : Downloads \cup {None},
                             written : 0 .. Chunks]]
    BY <2>1, <2>2 DEF TypeOK, DownloadPcs
  <2> QED BY <1>15, <2>3, <2>4 DEF EndDownload, fileVars, TypeOK
<1>16. ASSUME NEW d \in Downloads, ReportProgress(d)
      PROVE  TypeOK'
  BY <1>16 DEF ReportProgress, fileVars, SetState, StateOf, TypeOK, Kinds,
      CheckPcs, DownloadPcs, Whole, DownloadsInStep, Active
<1>17. ASSUME SetExperimental
      PROVE  TypeOK'
  BY <1>17 DEF SetExperimental, fileVars, TypeOK, Kinds, CheckPcs,
      DownloadPcs, Whole
<1>18. ASSUME Restart
      PROVE  TypeOK'
  BY <1>18 DEF Restart, fileVars, State, Locals, TypeOK, Kinds, CheckPcs,
      DownloadPcs, Whole
<1>19. CASE UNCHANGED vars
  BY <1>19 DEF vars, daemonVars, fileVars, TypeOK, Kinds, CheckPcs,
      DownloadPcs, Whole
<1> QED BY <1>1, <1>2, <1>3, <1>4, <1>5, <1>6, <1>7, <1>8, <1>9, <1>10,
    <1>11, <1>12, <1>13, <1>14, <1>15, <1>16, <1>17, <1>18, <1>19 DEF Next,
    Check, Download

\* Each download does its steps in order, and its reports are counted.
LEMMA InStepStep ==
  TypeOK /\ DownloadsInStep /\ [Next]_vars => DownloadsInStep'
<1> SUFFICES ASSUME TypeOK, DownloadsInStep, [Next]_vars
             PROVE  DownloadsInStep'
  OBVIOUS
<1> USE ConstantsAssumption
<1>1. CASE \/ \E c \in Checkers : Check(c)
           \/ SetExperimental \/ UNCHANGED vars
  <2>1. UNCHANGED <<dl, queue>>
    BY <1>1 DEF vars, daemonVars, fileVars, Check, CheckStart, CheckTo,
        CheckUnparsable, SetState, State, FetchOk, Verdicts, StateOf,
        FetchFails, GiveUp, SetExperimental
  <2> QED BY <2>1 DEF DownloadsInStep, TypeOK, DownloadPcs, Fresh, Active
<1>2. ASSUME NEW d \in Downloads, StartDownload(d)
      PROVE  DownloadsInStep'
  BY <1>2 DEF StartDownload, fileVars, Locals, DownloadsInStep, TypeOK,
      DownloadPcs, Fresh, Active
<1>3. ASSUME NEW d \in Downloads, BeginDownload(d)
      PROVE  DownloadsInStep'
  BY <1>3 DEF BeginDownload, fileVars, GoTo, SetState, StateOf,
      DownloadsInStep, TypeOK, DownloadPcs, Fresh, Active
<1>4. ASSUME NEW d \in Downloads, RemovePart(d)
      PROVE  DownloadsInStep'
  BY <1>4 DEF RemovePart, fileVars, GoTo, DownloadsInStep, TypeOK,
      DownloadPcs, Fresh, Active
<1>5. ASSUME NEW d \in Downloads, CreatePart(d)
      PROVE  DownloadsInStep'
  <2> DEFINE v == dl[d].version
             f == IF part[v] = None THEN d ELSE part[v]
  <2>1. /\ v \in Versions /\ f \in Downloads /\ dl[d].written = 0
        /\ dl' = [dl EXCEPT ![d] = Locals("body", v, f)]
        /\ queue' = queue /\ dl[d].pc = "create"
    BY <1>5 DEF CreatePart, TypeOK, DownloadsInStep, Active, Fresh
  <2> HIDE DEF v, f
  <2> QED BY <2>1 DEF DownloadsInStep, TypeOK, DownloadPcs, Fresh, Active,
                      Locals
<1>6. ASSUME NEW d \in Downloads, WriteChunk(d)
      PROVE  DownloadsInStep'
  BY <1>6 DEF WriteChunk, fileVars, DownloadsInStep, TypeOK, DownloadPcs,
      Fresh, Active
<1>7. ASSUME NEW d \in Downloads, DownloadFails(d)
      PROVE  DownloadsInStep'
  BY <1>7 DEF DownloadFails, fileVars, GoTo, DownloadsInStep, TypeOK,
      DownloadPcs, Fresh, Active
<1>8. ASSUME NEW d \in Downloads, FinishBody(d)
      PROVE  DownloadsInStep'
  BY <1>8 DEF FinishBody, fileVars, GoTo, DownloadsInStep, TypeOK,
      DownloadPcs, Fresh, Active
<1>9. ASSUME NEW d \in Downloads, Rename(d)
      PROVE  DownloadsInStep'
  BY <1>9 DEF Rename, fileVars, GoTo, DownloadsInStep, TypeOK, DownloadPcs,
      Fresh, Active
<1>10. ASSUME NEW d \in Downloads, RenameFails(d)
      PROVE  DownloadsInStep'
  BY <1>10 DEF RenameFails, fileVars, GoTo, DownloadsInStep, TypeOK,
      DownloadPcs, Fresh, Active
<1>11. ASSUME NEW d \in Downloads, EndDownload(d)
      PROVE  DownloadsInStep'
  BY <1>11 DEF EndDownload, fileVars, SetState, State, StateOf, Locals,
      DownloadsInStep, TypeOK, DownloadPcs, Fresh, Active
<1>12. ASSUME NEW d \in Downloads, ReportProgress(d)
      PROVE  DownloadsInStep'
  BY <1>12 DEF ReportProgress, fileVars, SetState, StateOf, DownloadsInStep,
      TypeOK, DownloadPcs, Fresh, Active
<1>13. ASSUME Restart
      PROVE  DownloadsInStep'
  BY <1>13 DEF Restart, fileVars, State, Locals, DownloadsInStep, TypeOK,
      DownloadPcs, Fresh, Active
<1> QED BY <1>1, <1>2, <1>3, <1>4, <1>5, <1>6, <1>7, <1>8, <1>9, <1>10,
    <1>11, <1>12, <1>13 DEF Next, Check, Download

\* Names and files: create makes a new file or takes the one behind `.part`,
\* and rename moves a name.
LEMMA OneNameStep ==
  TypeOK /\ OneNamePerFile /\ [Next]_vars => OneNamePerFile'
<1> SUFFICES ASSUME TypeOK, OneNamePerFile, [Next]_vars
             PROVE  OneNamePerFile'
  OBVIOUS
<1> USE ConstantsAssumption
<1>1. CASE \/ \E c \in Checkers : Check(c)
           \/ \E d \in Downloads : ReportProgress(d)
           \/ SetExperimental \/ UNCHANGED vars
  <2>1. UNCHANGED <<dl, part, exe>>
    BY <1>1 DEF vars, daemonVars, fileVars, Check, CheckStart, CheckTo,
        CheckUnparsable, SetState, State, FetchOk, Verdicts, StateOf,
        FetchFails, GiveUp, SetExperimental, ReportProgress
  <2> QED BY <2>1 DEF OneNamePerFile, TypeOK, DownloadPcs, Fresh
<1>2. ASSUME NEW d \in Downloads, StartDownload(d)
      PROVE  OneNamePerFile'
  BY <1>2 DEF StartDownload, fileVars, Locals, OneNamePerFile, TypeOK,
      DownloadPcs, Fresh
<1>3. ASSUME NEW d \in Downloads, BeginDownload(d)
      PROVE  OneNamePerFile'
  BY <1>3 DEF BeginDownload, fileVars, GoTo, SetState, StateOf,
      OneNamePerFile, TypeOK, DownloadPcs, Fresh
<1>4. ASSUME NEW d \in Downloads, RemovePart(d)
      PROVE  OneNamePerFile'
  BY <1>4 DEF RemovePart, fileVars, GoTo, OneNamePerFile, TypeOK,
      DownloadPcs, Fresh
<1>5. ASSUME NEW d \in Downloads, CreatePart(d)
      PROVE  OneNamePerFile'
  BY <1>5 DEF CreatePart, fileVars, Locals, OneNamePerFile, TypeOK,
      DownloadPcs, Fresh
<1>6. ASSUME NEW d \in Downloads, WriteChunk(d)
      PROVE  OneNamePerFile'
  BY <1>6 DEF WriteChunk, fileVars, OneNamePerFile, TypeOK, DownloadPcs,
      Fresh
<1>7. ASSUME NEW d \in Downloads, DownloadFails(d)
      PROVE  OneNamePerFile'
  BY <1>7 DEF DownloadFails, fileVars, GoTo, OneNamePerFile, TypeOK,
      DownloadPcs, Fresh
<1>8. ASSUME NEW d \in Downloads, FinishBody(d)
      PROVE  OneNamePerFile'
  BY <1>8 DEF FinishBody, fileVars, GoTo, OneNamePerFile, TypeOK,
      DownloadPcs, Fresh
<1>9. ASSUME NEW d \in Downloads, Rename(d)
      PROVE  OneNamePerFile'
  BY <1>9 DEF Rename, fileVars, GoTo, OneNamePerFile, TypeOK, DownloadPcs,
      Fresh
<1>10. ASSUME NEW d \in Downloads, RenameFails(d)
      PROVE  OneNamePerFile'
  BY <1>10 DEF RenameFails, fileVars, GoTo, OneNamePerFile, TypeOK,
      DownloadPcs, Fresh
<1>11. ASSUME NEW d \in Downloads, EndDownload(d)
      PROVE  OneNamePerFile'
  BY <1>11 DEF EndDownload, fileVars, SetState, State, StateOf, Locals,
      OneNamePerFile, TypeOK, DownloadPcs, Fresh
<1>12. ASSUME Restart
      PROVE  OneNamePerFile'
  BY <1>12 DEF Restart, fileVars, State, Locals, OneNamePerFile, TypeOK,
      DownloadPcs, Fresh
<1> QED BY <1>1, <1>2, <1>3, <1>4, <1>5, <1>6, <1>7, <1>8, <1>9, <1>10,
    <1>11, <1>12 DEF Next, Check, Download

\* A download that starts while another of the version runs is noted.
LEMMA OneDownloadStep ==
  TypeOK /\ OneDownloadAtATime /\ [Next]_vars => OneDownloadAtATime'
<1> SUFFICES ASSUME TypeOK, OneDownloadAtATime, [Next]_vars
             PROVE  OneDownloadAtATime'
  OBVIOUS
<1> USE ConstantsAssumption
<1>1. CASE \/ \E c \in Checkers : Check(c)
           \/ \E d \in Downloads : ReportProgress(d)
           \/ SetExperimental \/ UNCHANGED vars
  <2>1. UNCHANGED <<dl, overlapped>>
    BY <1>1 DEF vars, daemonVars, fileVars, Check, CheckStart, CheckTo,
        CheckUnparsable, SetState, State, FetchOk, Verdicts, StateOf,
        FetchFails, GiveUp, SetExperimental, ReportProgress
  <2> QED BY <2>1 DEF OneDownloadAtATime, TypeOK, DownloadPcs, Active
<1>2. ASSUME NEW d \in Downloads, StartDownload(d)
      PROVE  OneDownloadAtATime'
  BY <1>2 DEF StartDownload, fileVars, Locals, OneDownloadAtATime, TypeOK,
      DownloadPcs, Active
<1>3. ASSUME NEW d \in Downloads, BeginDownload(d)
      PROVE  OneDownloadAtATime'
  BY <1>3 DEF BeginDownload, fileVars, GoTo, SetState, StateOf,
      OneDownloadAtATime, TypeOK, DownloadPcs, Active
<1>4. ASSUME NEW d \in Downloads, RemovePart(d)
      PROVE  OneDownloadAtATime'
  BY <1>4 DEF RemovePart, fileVars, GoTo, OneDownloadAtATime, TypeOK,
      DownloadPcs, Active
<1>5. ASSUME NEW d \in Downloads, CreatePart(d)
      PROVE  OneDownloadAtATime'
  BY <1>5 DEF CreatePart, fileVars, Locals, OneDownloadAtATime, TypeOK,
      DownloadPcs, Active
<1>6. ASSUME NEW d \in Downloads, WriteChunk(d)
      PROVE  OneDownloadAtATime'
  BY <1>6 DEF WriteChunk, fileVars, OneDownloadAtATime, TypeOK, DownloadPcs,
      Active
<1>7. ASSUME NEW d \in Downloads, DownloadFails(d)
      PROVE  OneDownloadAtATime'
  BY <1>7 DEF DownloadFails, fileVars, GoTo, OneDownloadAtATime, TypeOK,
      DownloadPcs, Active
<1>8. ASSUME NEW d \in Downloads, FinishBody(d)
      PROVE  OneDownloadAtATime'
  BY <1>8 DEF FinishBody, fileVars, GoTo, OneDownloadAtATime, TypeOK,
      DownloadPcs, Active
<1>9. ASSUME NEW d \in Downloads, Rename(d)
      PROVE  OneDownloadAtATime'
  BY <1>9 DEF Rename, fileVars, GoTo, OneDownloadAtATime, TypeOK,
      DownloadPcs, Active
<1>10. ASSUME NEW d \in Downloads, RenameFails(d)
      PROVE  OneDownloadAtATime'
  BY <1>10 DEF RenameFails, fileVars, GoTo, OneDownloadAtATime, TypeOK,
      DownloadPcs, Active
<1>11. ASSUME NEW d \in Downloads, EndDownload(d)
      PROVE  OneDownloadAtATime'
  BY <1>11 DEF EndDownload, fileVars, SetState, State, StateOf, Locals,
      OneDownloadAtATime, TypeOK, DownloadPcs, Active
<1>12. ASSUME Restart
      PROVE  OneDownloadAtATime'
  BY <1>12 DEF Restart, fileVars, State, Locals, OneDownloadAtATime, TypeOK,
      DownloadPcs, Active
<1> QED BY <1>1, <1>2, <1>3, <1>4, <1>5, <1>6, <1>7, <1>8, <1>9, <1>10,
    <1>11, <1>12 DEF Next, Check, Download

\* A lone download's `.part` stays its own: whoever removes, empties or renames
\* a name of the version would be a second download of it.
LEMMA PartIsOwnStep ==
  TypeOK /\ DownloadsInStep /\ OneNamePerFile /\ OneDownloadAtATime /\
      PartIsOwn /\ [Next]_vars => PartIsOwn'
<1> SUFFICES ASSUME TypeOK, DownloadsInStep, OneNamePerFile,
    OneDownloadAtATime, PartIsOwn, [Next]_vars
             PROVE  PartIsOwn'
  OBVIOUS
<1> USE ConstantsAssumption
<1>1. CASE \/ \E c \in Checkers : Check(c)
           \/ \E d \in Downloads : ReportProgress(d)
           \/ SetExperimental \/ UNCHANGED vars
  <2>1. UNCHANGED <<dl, part, exe, file, overlapped>>
    BY <1>1 DEF vars, daemonVars, fileVars, Check, CheckStart, CheckTo,
        CheckUnparsable, SetState, State, FetchOk, Verdicts, StateOf,
        FetchFails, GiveUp, SetExperimental, ReportProgress
  <2> QED BY <2>1 DEF PartIsOwn, OneNamePerFile, OneDownloadAtATime,
      DownloadsInStep, TypeOK, DownloadPcs, Open, Fresh, Active
<1>2. ASSUME NEW d \in Downloads, StartDownload(d)
      PROVE  PartIsOwn'
  BY <1>2 DEF StartDownload, fileVars, Locals, PartIsOwn, OneNamePerFile,
      OneDownloadAtATime, DownloadsInStep, TypeOK, DownloadPcs, Open, Fresh,
      Active
<1>3. ASSUME NEW d \in Downloads, BeginDownload(d)
      PROVE  PartIsOwn'
  BY <1>3 DEF BeginDownload, fileVars, GoTo, SetState, StateOf, PartIsOwn,
      OneNamePerFile, OneDownloadAtATime, DownloadsInStep, TypeOK,
      DownloadPcs, Open, Fresh, Active
<1>4. ASSUME NEW d \in Downloads, RemovePart(d)
      PROVE  PartIsOwn'
  BY <1>4 DEF RemovePart, fileVars, GoTo, PartIsOwn, OneNamePerFile,
      OneDownloadAtATime, DownloadsInStep, TypeOK, DownloadPcs, Open, Fresh,
      Active
<1>5. ASSUME NEW d \in Downloads, CreatePart(d)
      PROVE  PartIsOwn'
  <2> DEFINE v == dl[d].version
             f == IF part[v] = None THEN d ELSE part[v]
  <2>1. /\ v \in Versions /\ f \in Downloads /\ dl[d].pc = "create"
        /\ dl' = [dl EXCEPT ![d] = Locals("body", v, f)]
        /\ part' = [part EXCEPT ![v] = f]
        /\ file' = [file EXCEPT ![f] = {}]
        /\ exe' = exe /\ overlapped' = overlapped
    BY <1>5 DEF CreatePart, TypeOK, DownloadsInStep, Active
  <2>2. \A w \in Versions : w # v => part[w] # f
    BY <2>1 DEF OneNamePerFile, Fresh
  <2>3. v \notin overlapped =>
          \A e \in Downloads : Active(e) /\ e # d => dl[e].version # v
    BY <2>1 DEF OneDownloadAtATime, Active
  <2> HIDE DEF f
  <2> SUFFICES ASSUME NEW e \in Downloads, dl'[e].version \notin overlapped
               PROVE  /\ dl'[e].pc \in Open =>
                           /\ part'[dl'[e].version] = dl'[e].file
                           /\ part'[dl'[e].version] # None
                           /\ 1 .. dl'[e].written \subseteq
                                file'[part'[dl'[e].version]]
                      /\ dl'[e].pc = "ready" => exe'[dl'[e].version] # None
    BY <2>1 DEF PartIsOwn
  <2>4. CASE e = d
    <3>1. /\ dl'[e].version = v /\ dl'[e].file = f /\ dl'[e].written = 0
          /\ dl'[e].pc = "body" /\ part'[v] = f /\ f # None
      BY <2>1, <2>4 DEF TypeOK, Locals
    <3> QED BY <3>1
  <2>5. CASE e # d
    <3>1. dl'[e] = dl[e]
      BY <2>1, <2>5 DEF TypeOK
    <3>2. CASE dl[e].pc \in Open
      <4>1. dl[e].version \in Versions /\ dl[e].version # v
        BY <2>1, <2>3, <2>5, <3>1, <3>2 DEF DownloadsInStep, Active, Open
      <4>2. /\ part'[dl[e].version] = part[dl[e].version]
            /\ part[dl[e].version] \in Downloads
            /\ file'[part[dl[e].version]] = file[part[dl[e].version]]
        BY <2>1, <2>2, <3>1, <3>2, <4>1 DEF TypeOK, PartIsOwn
      <4> QED BY <2>1, <3>1, <3>2, <4>2 DEF PartIsOwn
    <3>3. CASE dl[e].pc \notin Open
      BY <2>1, <3>1, <3>3 DEF PartIsOwn
    <3> QED BY <3>2, <3>3
  <2> QED BY <2>4, <2>5
<1>6. ASSUME NEW d \in Downloads, WriteChunk(d)
      PROVE  PartIsOwn'
  <2>1. /\ dl[d].pc = "body" /\ dl[d].file \in Downloads
        /\ dl[d].written \in 0 .. Chunks /\ dl[d].written < Chunks
        /\ dl' = [dl EXCEPT ![d].written = @ + 1]
        /\ file' = [file EXCEPT ![dl[d].file] = @ \cup {dl[d].written + 1}]
        /\ part' = part /\ exe' = exe /\ overlapped' = overlapped
    BY <1>6 DEF WriteChunk, TypeOK, DownloadsInStep
  <2>2. \A g \in Downloads : file[g] \subseteq file'[g]
    BY <2>1 DEF TypeOK
  <2>3. dl[d].written + 1 \in file'[dl[d].file]
    BY <2>1 DEF TypeOK
  <2> SUFFICES ASSUME NEW e \in Downloads, dl[e].version \notin overlapped,
                      dl[e].pc \in Open
               PROVE  1 .. dl'[e].written \subseteq file'[part[dl[e].version]]
    BY <2>1 DEF PartIsOwn, TypeOK
  <2>4. /\ dl[e].version \in Versions
        /\ part[dl[e].version] = dl[e].file /\ part[dl[e].version] \in Downloads
        /\ 1 .. dl[e].written \subseteq file'[part[dl[e].version]]
    BY <2>2 DEF PartIsOwn, DownloadsInStep, Active, Open, TypeOK
  <2>5. CASE e = d
    <3>1. dl'[e].written = dl[d].written + 1
      BY <2>1, <2>5 DEF TypeOK
    <3>2. 1 .. dl[d].written + 1 = (1 .. dl[d].written) \cup {dl[d].written + 1}
      BY <2>1
    <3> QED BY <2>3, <2>4, <2>5, <3>1, <3>2
  <2>6. CASE e # d
    BY <2>1, <2>4, <2>6 DEF TypeOK
  <2> QED BY <2>5, <2>6
<1>7. ASSUME NEW d \in Downloads, DownloadFails(d)
      PROVE  PartIsOwn'
  BY <1>7 DEF DownloadFails, fileVars, GoTo, PartIsOwn, OneNamePerFile,
      OneDownloadAtATime, DownloadsInStep, TypeOK, DownloadPcs, Open, Fresh,
      Active
<1>8. ASSUME NEW d \in Downloads, FinishBody(d)
      PROVE  PartIsOwn'
  BY <1>8 DEF FinishBody, fileVars, GoTo, PartIsOwn, OneNamePerFile,
      OneDownloadAtATime, DownloadsInStep, TypeOK, DownloadPcs, Open, Fresh,
      Active
<1>9. ASSUME NEW d \in Downloads, Rename(d)
      PROVE  PartIsOwn'
  BY <1>9 DEF Rename, fileVars, GoTo, PartIsOwn, OneNamePerFile,
      OneDownloadAtATime, DownloadsInStep, TypeOK, DownloadPcs, Open, Fresh,
      Active
<1>10. ASSUME NEW d \in Downloads, RenameFails(d)
      PROVE  PartIsOwn'
  BY <1>10 DEF RenameFails, fileVars, GoTo, PartIsOwn, OneNamePerFile,
      OneDownloadAtATime, DownloadsInStep, TypeOK, DownloadPcs, Open, Fresh,
      Active
<1>11. ASSUME NEW d \in Downloads, EndDownload(d)
      PROVE  PartIsOwn'
  BY <1>11 DEF EndDownload, fileVars, SetState, State, StateOf, Locals,
      PartIsOwn, OneNamePerFile, OneDownloadAtATime, DownloadsInStep, TypeOK,
      DownloadPcs, Open, Fresh, Active
<1>12. ASSUME Restart
      PROVE  PartIsOwn'
  BY <1>12 DEF Restart, fileVars, State, Locals, PartIsOwn, OneNamePerFile,
      OneDownloadAtATime, DownloadsInStep, TypeOK, DownloadPcs, Open, Fresh,
      Active
<1> QED BY <1>1, <1>2, <1>3, <1>4, <1>5, <1>6, <1>7, <1>8, <1>9, <1>10,
    <1>11, <1>12 DEF Next, Check, Download

\* The last download of a ready version is over.
LEMMA ReadyIsOverStep ==
  TypeOK /\ OneDownloadAtATime /\ ReadyIsOver /\ [Next]_vars => ReadyIsOver'
<1> SUFFICES ASSUME TypeOK, OneDownloadAtATime, ReadyIsOver, [Next]_vars
             PROVE  ReadyIsOver'
  OBVIOUS
<1> USE ConstantsAssumption
<1>1. CASE \/ \E c \in Checkers : CheckStart(c) \/ FetchFails(c)
           \/ SetExperimental \/ UNCHANGED vars
  <2>1. UNCHANGED <<dl, state, overlapped>>
    BY <1>1 DEF vars, daemonVars, fileVars, CheckStart, CheckTo, FetchFails,
        SetExperimental
  <2> QED BY <2>1 DEF ReadyIsOver, OneDownloadAtATime, TypeOK, DownloadPcs,
      Active
<1>2. ASSUME NEW c \in Checkers, CheckUnparsable(c)
      PROVE  ReadyIsOver'
  BY <1>2 DEF CheckUnparsable, fileVars, SetState, State, ReadyIsOver,
      OneDownloadAtATime, TypeOK, DownloadPcs, Active
<1>3. ASSUME NEW c \in Checkers, FetchOk(c)
      PROVE  ReadyIsOver'
  BY <1>3 DEF FetchOk, fileVars, CheckTo, SetState, Verdicts, State, StateOf,
      ReadyIsOver, OneDownloadAtATime, TypeOK, DownloadPcs, Active
<1>4. ASSUME NEW c \in Checkers, GiveUp(c)
      PROVE  ReadyIsOver'
  BY <1>4 DEF GiveUp, fileVars, CheckTo, SetState, State, ReadyIsOver,
      OneDownloadAtATime, TypeOK, DownloadPcs, Active
<1>5. ASSUME NEW d \in Downloads, StartDownload(d)
      PROVE  ReadyIsOver'
  BY <1>5 DEF StartDownload, fileVars, Locals, ReadyIsOver,
      OneDownloadAtATime, TypeOK, DownloadPcs, Active
<1>6. ASSUME NEW d \in Downloads, BeginDownload(d)
      PROVE  ReadyIsOver'
  BY <1>6 DEF BeginDownload, fileVars, GoTo, SetState, StateOf, ReadyIsOver,
      OneDownloadAtATime, TypeOK, DownloadPcs, Active
<1>7. ASSUME NEW d \in Downloads, RemovePart(d)
      PROVE  ReadyIsOver'
  BY <1>7 DEF RemovePart, fileVars, GoTo, ReadyIsOver, OneDownloadAtATime,
      TypeOK, DownloadPcs, Active
<1>8. ASSUME NEW d \in Downloads, CreatePart(d)
      PROVE  ReadyIsOver'
  BY <1>8 DEF CreatePart, fileVars, Locals, ReadyIsOver, OneDownloadAtATime,
      TypeOK, DownloadPcs, Active
<1>9. ASSUME NEW d \in Downloads, WriteChunk(d)
      PROVE  ReadyIsOver'
  BY <1>9 DEF WriteChunk, fileVars, ReadyIsOver, OneDownloadAtATime, TypeOK,
      DownloadPcs, Active
<1>10. ASSUME NEW d \in Downloads, DownloadFails(d)
      PROVE  ReadyIsOver'
  BY <1>10 DEF DownloadFails, fileVars, GoTo, ReadyIsOver,
      OneDownloadAtATime, TypeOK, DownloadPcs, Active
<1>11. ASSUME NEW d \in Downloads, FinishBody(d)
      PROVE  ReadyIsOver'
  BY <1>11 DEF FinishBody, fileVars, GoTo, ReadyIsOver, OneDownloadAtATime,
      TypeOK, DownloadPcs, Active
<1>12. ASSUME NEW d \in Downloads, Rename(d)
      PROVE  ReadyIsOver'
  BY <1>12 DEF Rename, fileVars, GoTo, ReadyIsOver, OneDownloadAtATime,
      TypeOK, DownloadPcs, Active
<1>13. ASSUME NEW d \in Downloads, RenameFails(d)
      PROVE  ReadyIsOver'
  BY <1>13 DEF RenameFails, fileVars, GoTo, ReadyIsOver, OneDownloadAtATime,
      TypeOK, DownloadPcs, Active
<1>14. ASSUME NEW d \in Downloads, EndDownload(d)
      PROVE  ReadyIsOver'
  BY <1>14 DEF EndDownload, fileVars, SetState, State, StateOf, Locals,
      ReadyIsOver, OneDownloadAtATime, TypeOK, DownloadPcs, Active
<1>15. ASSUME NEW d \in Downloads, ReportProgress(d)
      PROVE  ReadyIsOver'
  BY <1>15 DEF ReportProgress, fileVars, SetState, StateOf, ReadyIsOver,
      OneDownloadAtATime, TypeOK, DownloadPcs, Active
<1>16. ASSUME Restart
      PROVE  ReadyIsOver'
  BY <1>16 DEF Restart, fileVars, State, Locals, ReadyIsOver,
      OneDownloadAtATime, TypeOK, DownloadPcs, Active
<1> QED BY <1>1, <1>2, <1>3, <1>4, <1>5, <1>6, <1>7, <1>8, <1>9, <1>10,
    <1>11, <1>12, <1>13, <1>14, <1>15, <1>16 DEF Next, Check, Download

\* An `.exe` comes from a rename of a whole file and is never emptied.
LEMMA WholeStep ==
  TypeOK /\ DownloadsInStep /\ OneNamePerFile /\ OneDownloadAtATime /\
      PartIsOwn /\ InstallerIsWhole /\ [Next]_vars => InstallerIsWhole'
<1> SUFFICES ASSUME TypeOK, DownloadsInStep, OneNamePerFile,
    OneDownloadAtATime, PartIsOwn, InstallerIsWhole, [Next]_vars
             PROVE  InstallerIsWhole'
  OBVIOUS
<1> USE ConstantsAssumption
<1>1. CASE \/ \E c \in Checkers : Check(c)
           \/ \E d \in Downloads :
                \/ BeginDownload(d) \/ RemovePart(d) \/ DownloadFails(d)
                \/ RenameFails(d) \/ EndDownload(d) \/ ReportProgress(d)
           \/ SetExperimental \/ Restart \/ UNCHANGED vars
  <2>1. UNCHANGED <<exe, file, overlapped>>
    BY <1>1 DEF vars, daemonVars, fileVars, Check, CheckStart, CheckTo,
        CheckUnparsable, SetState, State, FetchOk, Verdicts, StateOf,
        FetchFails, GiveUp, SetExperimental, BeginDownload, GoTo, RemovePart,
        DownloadFails, RenameFails, EndDownload, Locals, ReportProgress,
        Restart
  <2> QED BY <2>1 DEF InstallerIsWhole, PartIsOwn, OneNamePerFile,
      DownloadsInStep, TypeOK, Whole, DownloadPcs, Open, Fresh, Active
<1>2. ASSUME NEW d \in Downloads, StartDownload(d)
      PROVE  InstallerIsWhole'
  BY <1>2 DEF StartDownload, fileVars, Locals, InstallerIsWhole, PartIsOwn,
      OneNamePerFile, DownloadsInStep, TypeOK, Whole, DownloadPcs, Open,
      Fresh, Active
<1>3. ASSUME NEW d \in Downloads, CreatePart(d)
      PROVE  InstallerIsWhole'
  BY <1>3 DEF CreatePart, fileVars, Locals, InstallerIsWhole, PartIsOwn,
      OneNamePerFile, DownloadsInStep, TypeOK, Whole, DownloadPcs, Open,
      Fresh, Active
<1>4. ASSUME NEW d \in Downloads, WriteChunk(d)
      PROVE  InstallerIsWhole'
  <2>1. /\ dl[d].written + 1 \in Whole /\ dl[d].file \in Downloads
        /\ file' = [file EXCEPT ![dl[d].file] = @ \cup {dl[d].written + 1}]
        /\ exe' = exe /\ overlapped' = overlapped
    BY <1>4 DEF WriteChunk, TypeOK, DownloadsInStep, Whole
  <2>2. \A g \in Downloads : file[g] = Whole => file'[g] = Whole
    BY <2>1 DEF TypeOK
  <2> QED BY <2>1, <2>2 DEF InstallerIsWhole, TypeOK
<1>5. ASSUME NEW d \in Downloads, FinishBody(d)
      PROVE  InstallerIsWhole'
  BY <1>5 DEF FinishBody, fileVars, GoTo, InstallerIsWhole, PartIsOwn,
      OneNamePerFile, DownloadsInStep, TypeOK, Whole, DownloadPcs, Open,
      Fresh, Active
<1>6. ASSUME NEW d \in Downloads, Rename(d)
      PROVE  InstallerIsWhole'
  BY <1>6 DEF Rename, fileVars, GoTo, InstallerIsWhole, PartIsOwn,
      OneNamePerFile, DownloadsInStep, TypeOK, Whole, DownloadPcs, Open,
      Fresh, Active
<1> QED BY <1>1, <1>2, <1>3, <1>4, <1>5, <1>6 DEF Next, Check, Download

\* Nobody removes the `.exe` of a ready version: that needs a download of it.
LEMMA OnDiskStep ==
  TypeOK /\ PartIsOwn /\ ReadyIsOver /\ ReadyOnDisk /\ [Next]_vars =>
      ReadyOnDisk'
<1> SUFFICES ASSUME TypeOK, PartIsOwn, ReadyIsOver, ReadyOnDisk, [Next]_vars
             PROVE  ReadyOnDisk'
  OBVIOUS
<1> USE ConstantsAssumption
<1>1. CASE \/ \E c \in Checkers : CheckStart(c) \/ FetchFails(c)
           \/ \E d \in Downloads :
                \/ RemovePart(d) \/ CreatePart(d) \/ WriteChunk(d)
                \/ DownloadFails(d) \/ RenameFails(d)
           \/ SetExperimental \/ UNCHANGED vars
  <2>1. UNCHANGED <<state, exe, overlapped>>
    BY <1>1 DEF vars, daemonVars, fileVars, CheckStart, CheckTo, FetchFails,
        RemovePart, GoTo, CreatePart, Locals, WriteChunk, DownloadFails,
        RenameFails, SetExperimental
  <2> QED BY <2>1 DEF ReadyOnDisk, PartIsOwn, ReadyIsOver, TypeOK,
      DownloadPcs, Open, Active
<1>2. ASSUME NEW c \in Checkers, CheckUnparsable(c)
      PROVE  ReadyOnDisk'
  BY <1>2 DEF CheckUnparsable, fileVars, SetState, State, ReadyOnDisk,
      PartIsOwn, ReadyIsOver, TypeOK, DownloadPcs, Open, Active
<1>3. ASSUME NEW c \in Checkers, FetchOk(c)
      PROVE  ReadyOnDisk'
  BY <1>3 DEF FetchOk, fileVars, CheckTo, SetState, Verdicts, State, StateOf,
      ReadyOnDisk, PartIsOwn, ReadyIsOver, TypeOK, DownloadPcs, Open, Active
<1>4. ASSUME NEW c \in Checkers, GiveUp(c)
      PROVE  ReadyOnDisk'
  BY <1>4 DEF GiveUp, fileVars, CheckTo, SetState, State, ReadyOnDisk,
      PartIsOwn, ReadyIsOver, TypeOK, DownloadPcs, Open, Active
<1>5. ASSUME NEW d \in Downloads, StartDownload(d)
      PROVE  ReadyOnDisk'
  BY <1>5 DEF StartDownload, fileVars, Locals, ReadyOnDisk, PartIsOwn,
      ReadyIsOver, TypeOK, DownloadPcs, Open, Active
<1>6. ASSUME NEW d \in Downloads, BeginDownload(d)
      PROVE  ReadyOnDisk'
  BY <1>6 DEF BeginDownload, fileVars, GoTo, SetState, StateOf, ReadyOnDisk,
      PartIsOwn, ReadyIsOver, TypeOK, DownloadPcs, Open, Active
<1>7. ASSUME NEW d \in Downloads, FinishBody(d)
      PROVE  ReadyOnDisk'
  BY <1>7 DEF FinishBody, fileVars, GoTo, ReadyOnDisk, PartIsOwn,
      ReadyIsOver, TypeOK, DownloadPcs, Open, Active
<1>8. ASSUME NEW d \in Downloads, Rename(d)
      PROVE  ReadyOnDisk'
  BY <1>8 DEF Rename, fileVars, GoTo, ReadyOnDisk, PartIsOwn, ReadyIsOver,
      TypeOK, DownloadPcs, Open, Active
<1>9. ASSUME NEW d \in Downloads, EndDownload(d)
      PROVE  ReadyOnDisk'
  BY <1>9 DEF EndDownload, fileVars, SetState, State, StateOf, Locals,
      ReadyOnDisk, PartIsOwn, ReadyIsOver, TypeOK, DownloadPcs, Open, Active
<1>10. ASSUME NEW d \in Downloads, ReportProgress(d)
      PROVE  ReadyOnDisk'
  BY <1>10 DEF ReportProgress, fileVars, SetState, StateOf, ReadyOnDisk,
      PartIsOwn, ReadyIsOver, TypeOK, DownloadPcs, Open, Active
<1>11. ASSUME Restart
      PROVE  ReadyOnDisk'
  BY <1>11 DEF Restart, fileVars, State, Locals, ReadyOnDisk, PartIsOwn,
      ReadyIsOver, TypeOK, DownloadPcs, Open, Active
<1> QED BY <1>1, <1>2, <1>3, <1>4, <1>5, <1>6, <1>7, <1>8, <1>9, <1>10, <1>11
    DEF Next, Check, Download

LEMMA InitInv == Init => UpdaterInv
<1> SUFFICES ASSUME Init
             PROVE  UpdaterInv
  OBVIOUS
<1> USE ConstantsAssumption
<1>1. TypeOK
  BY DEF Init, TypeOK, State, Kinds, CheckPcs, DownloadPcs, Locals
<1>2. DownloadsInStep /\ OneNamePerFile
  BY DEF Init, DownloadsInStep, OneNamePerFile, Active, Fresh, Locals
<1>3. OneDownloadAtATime /\ PartIsOwn
  BY DEF Init, OneDownloadAtATime, PartIsOwn, Active, Open, Locals
<1>4. ReadyIsOver /\ InstallerIsWhole /\ ReadyOnDisk
  BY DEF Init, ReadyIsOver, InstallerIsWhole, ReadyOnDisk, State
<1> QED BY <1>1, <1>2, <1>3, <1>4 DEF UpdaterInv

\* The inductive invariant holds (updater/mod.rs:142-337, download.rs:35-101):
\* types, and who may use a version's two names.
THEOREM UpdaterInvariant == Spec => []UpdaterInv
<1>1. UpdaterInv /\ [Next]_vars => UpdaterInv'
  BY TypeStep, InStepStep, OneNameStep, OneDownloadStep, PartIsOwnStep,
     ReadyIsOverStep, WholeStep, OnDiskStep DEF UpdaterInv
<1> QED BY InitInv, <1>1, PTL DEF Spec

\* Every variable keeps its type.
THEOREM UpdaterTypes == Spec => []TypeOK
<1>1. UpdaterInv => TypeOK
  BY DEF UpdaterInv
<1> QED BY UpdaterInvariant, <1>1, PTL

\* No crash, failure or restart leaves half an installer named `.exe`, as
\* download.rs:52-53 says, as long as a version's downloads do not overlap.
THEOREM InstallersAreWhole == Spec => []InstallerIsWhole
<1>1. UpdaterInv => InstallerIsWhole
  BY DEF UpdaterInv
<1> QED BY UpdaterInvariant, <1>1, PTL

\* While the state is Ready its installer is on disk (mod.rs:69), under the
\* same condition.
THEOREM ReadyInstallerExists == Spec => []ReadyOnDisk
<1>1. UpdaterInv => ReadyOnDisk
  BY DEF UpdaterInv
<1> QED BY UpdaterInvariant, <1>1, PTL

\* What the updater offers to launch is there and whole (download.rs:52-53,
\* mod.rs:69).
THEOREM InstallersSound == Spec => []InstallersAreSound
<1>1. InstallerIsWhole /\ ReadyOnDisk => InstallersAreSound
  BY DEF InstallersAreSound
<1> QED BY <1>1, InstallersAreWhole, ReadyInstallerExists, PTL
=============================================================================
