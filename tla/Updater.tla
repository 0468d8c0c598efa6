------------------------------ MODULE Updater ------------------------------
(***************************************************************************)
(* The in-app updater (updater/mod.rs, updater/download.rs and the routes  *)
(* under /api/updates).  The poller and the HTTP requests check GitHub, a  *)
(* request starts a download, each download is two tasks (the body, and    *)
(* the reports of its progress), and all of them write one shared State.   *)
(* Every await is a step boundary: the state is read in one step and       *)
(* written in a later one.                                                 *)
(*                                                                         *)
(* A version's installer is two names in the temporary directory: `.part`  *)
(* while the body arrives and `.exe` afterwards.  A name leads to a file,  *)
(* and a writer keeps the file it opened when the name is removed or       *)
(* renamed, so names and files are separate here.                          *)
(***************************************************************************)
EXTENDS Naturals

CONSTANTS
  Versions,     \* the releases that GitHub may list, by precedence
  Installed,    \* DisplayVersion, or the version the daemon was built as
  Nightly,      \* those of them that carry a pre-release tag
  Downloads,    \* bound: the downloads started over all restarts
  Checkers,     \* the poller, and requests that may check at the same time
  Poller,
  Chunks,       \* the chunks in an installer
  None

ASSUME ConstantsAssumption ==
  /\ Versions \subseteq Nat /\ Installed \in Nat
  /\ None \notin Versions /\ None \notin Downloads
  /\ Nightly \subseteq Versions
  /\ Poller \in Checkers
  /\ Chunks \in Nat \ {0}

VARIABLES
  state,         \* Updater.state
  experimental,  \* Updater.experimental
  check,         \* where check_once of each checker is
  dl,            \* the download tasks
  queue,         \* progress reports sent and not yet turned into a state
  part, exe,     \* the file each version's two names lead to
  file,          \* the chunks in each file; a file is named by its creator
  overlapped     \* history: versions with two downloads at one time

daemonVars == <<state, experimental, check, dl, queue>>
fileVars == <<part, exe, file>>
vars == <<daemonVars, fileVars, overlapped>>

Kinds == {"Idle", "UpToDate", "Available", "Downloading", "Ready", "Failed"}
State(kind) == [kind |-> kind, latest |-> None]
StateOf(kind, v) == [kind |-> kind, latest |-> v]

\* The states that a check which could not reach GitHub overwrites.
Replaceable == {"Idle", "UpToDate", "Failed"}

Whole == 1 .. Chunks

CheckPcs == {"idle", "fetch", "giveUp"}
DownloadPcs == {"unused", "begin", "get", "create", "body", "rename",
                "ready", "failed", "done"}

Active(d) == dl[d].pc \notin {"unused", "done"}
\* A download's locals before its first chunk, and after it returned.
Locals(pc, v, f) == [pc |-> pc, version |-> v, file |-> f, written |-> 0]

Init ==
  /\ state = State("Idle")
  /\ experimental \in BOOLEAN
  /\ check = [c \in Checkers |-> "idle"]
  /\ dl = [d \in Downloads |-> Locals("unused", None, None)]
  /\ queue = [d \in Downloads |-> 0]
  /\ part = [v \in Versions |-> None]
  /\ exe = [v \in Versions |-> None]
  /\ file = [d \in Downloads |-> {}]
  /\ overlapped = {}

\* set_state: one lock, one assignment, whatever the state is by now.
SetState(s) == state' = s

----------------------------------------------------------------------------
(* check_once *)

CheckTo(c, pc) == check' = [check EXCEPT ![c] = pc]

ChannelAllowed(v) == v \in Nightly => experimental

\* pick_best_release, for a list that holds the releases in R.
IsBest(v, R) ==
  /\ v \in R /\ ChannelAllowed(v)
  /\ \A w \in R : ChannelAllowed(w) => w <= v

CheckStart(c) ==
  /\ check[c] = "idle"
  /\ CheckTo(c, "fetch")
  /\ UNCHANGED <<state, experimental, dl, queue, fileVars, overlapped>>

\* The registry holds a version that semver cannot parse.
CheckUnparsable(c) ==
  /\ check[c] = "idle"
  /\ SetState(State("Failed"))
  /\ UNCHANGED <<experimental, check, dl, queue, fileVars, overlapped>>

\* What the releases in R come to: nothing eligible, or the best is not newer;
\* a newer one without an installer asset; a newer one to offer.
Verdicts(R) ==
  LET newer == {v \in R : IsBest(v, R) /\ v > Installed}
  IN IF newer = {} THEN {State("UpToDate")}
     ELSE {State("Failed")} \cup {StateOf("Available", v) : v \in newer}

\* Mutant: a check leaves a download alone.
FetchOkKeepsDownload(c) ==
  /\ check[c] = "fetch"
  /\ CheckTo(c, "idle")
  /\ \E R \in SUBSET Versions : \E s \in Verdicts(R) :
       IF state.kind = "Downloading" THEN UNCHANGED state ELSE SetState(s)
  /\ UNCHANGED <<experimental, dl, queue, fileVars, overlapped>>

\* The list arrives, and its verdict replaces whatever the state is by now.
\* The one await between them is the lock, and only `experimental` is read
\* before it, which no property compares with the state: one step.
FetchOk(c) ==
  /\ check[c] = "fetch"
  /\ CheckTo(c, "idle")
  /\ \E R \in SUBSET Versions : \E s \in Verdicts(R) : SetState(s)
  /\ UNCHANGED <<experimental, dl, queue, fileVars, overlapped>>

\* The failed fetch looks at the state here and writes it in a later step.
FetchFails(c) ==
  /\ check[c] = "fetch"
  /\ CheckTo(c, IF state.kind \in Replaceable THEN "giveUp" ELSE "idle")
  /\ UNCHANGED <<state, experimental, dl, queue, fileVars, overlapped>>

GiveUp(c) ==
  /\ check[c] = "giveUp"
  /\ CheckTo(c, "idle")
  /\ SetState(State("Failed"))
  /\ UNCHANGED <<experimental, dl, queue, fileVars, overlapped>>

Check(c) ==
  CheckStart(c) \/ CheckUnparsable(c) \/ FetchOk(c) \/ FetchFails(c) \/ GiveUp(c)

----------------------------------------------------------------------------
(* start_download and the two tasks it spawns *)

GoTo(d, pc) == dl' = [dl EXCEPT ![d].pc = pc]

\* Only a state to download from gets past this; any other is an error reply.
StartDownload(d) ==
  /\ dl[d].pc = "unused"
  /\ state.kind = "Available"
  /\ dl' = [dl EXCEPT ![d] = Locals("begin", state.latest, None)]
  /\ overlapped' =
       IF \E e \in Downloads : Active(e) /\ dl[e].version = state.latest
       THEN overlapped \cup {state.latest} ELSE overlapped
  /\ UNCHANGED <<state, experimental, check, queue, fileVars>>

BeginDownload(d) ==
  /\ dl[d].pc = "begin"
  /\ GoTo(d, "get")
  /\ SetState(StateOf("Downloading", dl[d].version))
  /\ UNCHANGED <<experimental, check, queue, fileVars, overlapped>>

\* The GET is answered, and a `.part` left behind goes.  Best effort: the name
\* may also stay, and create then empties the file.
RemovePart(d) ==
  /\ dl[d].pc = "get"
  /\ part' \in {part, [part EXCEPT ![dl[d].version] = None]}
  /\ GoTo(d, "create")
  /\ UNCHANGED <<state, experimental, check, queue, exe, file, overlapped>>

\* File::create: a new file, or the file behind the name with its end cut off.
CreatePart(d) ==
  /\ dl[d].pc = "create"
  /\ LET v == dl[d].version
         f == IF part[v] = None THEN d ELSE part[v]
     IN /\ dl' = [dl EXCEPT ![d] = Locals("body", v, f)]
        /\ part' = [part EXCEPT ![v] = f]
        /\ file' = [file EXCEPT ![f] = {}]
  /\ UNCHANGED <<state, experimental, check, queue, exe, overlapped>>

\* Mutant: a chunk after the last one.
WriteChunkTooFar(d) ==
  /\ dl[d].pc = "body"
  /\ dl[d].written <= Chunks
  /\ dl' = [dl EXCEPT ![d].written = @ + 1]
  /\ file' = [file EXCEPT ![dl[d].file] = @ \cup {dl[d].written + 1}]
  /\ queue' = [queue EXCEPT ![d] = @ + 1]
  /\ UNCHANGED <<state, experimental, check, part, exe, overlapped>>

\* A chunk goes to the writer's own position in the file it has open.
WriteChunk(d) ==
  /\ dl[d].pc = "body"
  /\ dl[d].written < Chunks
  /\ dl' = [dl EXCEPT ![d].written = @ + 1]
  /\ file' = [file EXCEPT ![dl[d].file] = @ \cup {dl[d].written + 1}]
  /\ queue' = [queue EXCEPT ![d] = @ + 1]
  /\ UNCHANGED <<state, experimental, check, part, exe, overlapped>>

\* The GET fails or has an HTTP error, or create, a chunk, its write or the
\* flush fails: a `.part` stays behind.
DownloadFails(d) ==
  /\ dl[d].pc \in {"get", "create", "body"}
  /\ GoTo(d, "failed")
  /\ UNCHANGED <<state, experimental, check, queue, fileVars, overlapped>>

\* Mutant: `while let Some(Ok(chunk))`, which takes an error for the end.
FinishBodyOnError(d) ==
  /\ dl[d].pc = "body"
  /\ exe' \in {exe, [exe EXCEPT ![dl[d].version] = None]}
  /\ GoTo(d, "rename")
  /\ UNCHANGED <<state, experimental, check, queue, part, file, overlapped>>

\* The body has ended and is flushed; an `.exe` of an earlier download goes, by
\* best effort too.
FinishBody(d) ==
  /\ dl[d].pc = "body"
  /\ dl[d].written = Chunks
  /\ exe' \in {exe, [exe EXCEPT ![dl[d].version] = None]}
  /\ GoTo(d, "rename")
  /\ UNCHANGED <<state, experimental, check, queue, part, file, overlapped>>

\* rename takes whatever file the name leads to now.
Rename(d) ==
  /\ dl[d].pc = "rename"
  /\ LET v == dl[d].version
     IN /\ part[v] # None
        /\ exe' = [exe EXCEPT ![v] = part[v]]
        /\ part' = [part EXCEPT ![v] = None]
  /\ GoTo(d, "ready")
  /\ UNCHANGED <<state, experimental, check, queue, file, overlapped>>

\* The name is gone, or the operating system refuses.
RenameFails(d) ==
  /\ dl[d].pc = "rename"
  /\ GoTo(d, "failed")
  /\ UNCHANGED <<state, experimental, check, queue, fileVars, overlapped>>

EndDownload(d) ==
  /\ \/ dl[d].pc = "ready" /\ SetState(StateOf("Ready", dl[d].version))
     \/ dl[d].pc = "failed" /\ SetState(State("Failed"))
  /\ dl' = [dl EXCEPT ![d] = Locals("done", dl[d].version, None)]
  /\ UNCHANGED <<experimental, check, queue, fileVars, overlapped>>

\* The progress task lives until its queue is empty, not until the download
\* has ended, and writes the state for every report.
ReportProgress(d) ==
  /\ queue[d] > 0
  /\ queue' = [queue EXCEPT ![d] = @ - 1]
  /\ SetState(StateOf("Downloading", dl[d].version))
  /\ UNCHANGED <<experimental, check, dl, fileVars, overlapped>>

Download(d) ==
  \/ StartDownload(d) \/ BeginDownload(d) \/ RemovePart(d) \/ CreatePart(d)
  \/ WriteChunk(d) \/ DownloadFails(d) \/ FinishBody(d) \/ Rename(d)
  \/ RenameFails(d) \/ EndDownload(d) \/ ReportProgress(d)

----------------------------------------------------------------------------
(* The experimental switch, and the process itself *)

SetExperimental ==
  /\ experimental' = ~experimental
  /\ UNCHANGED <<state, check, dl, queue, fileVars, overlapped>>

\* The daemon ends at any moment, half a second after install_now launched an
\* installer (which changes no state of the updater) or otherwise, and starts
\* again: only files outlive it.  A version installed by then would only leave
\* the checks fewer offers.
Restart ==
  /\ state' = State("Idle")
  /\ check' = [c \in Checkers |-> "idle"]
  /\ dl' = [d \in Downloads |->
              Locals(IF dl[d].pc = "unused" THEN "unused" ELSE "done", None, None)]
  /\ queue' = [d \in Downloads |-> 0]
  /\ UNCHANGED <<experimental, fileVars, overlapped>>

Next ==
  \/ \E c \in Checkers : Check(c)
  \/ \E d \in Downloads : Download(d)
  \/ SetExperimental \/ Restart

\* The poller is scheduled, and one of its fetches after another succeeds.
Fairness ==
  /\ WF_vars(CheckStart(Poller) \/ CheckUnparsable(Poller))
  /\ SF_vars(FetchOk(Poller))
  /\ WF_vars(GiveUp(Poller))

Spec == Init /\ [][Next]_vars /\ Fairness

----------------------------------------------------------------------------
(* Properties *)

\* Types, for every variable of the updater (updater/mod.rs:41-97).
TypeOK ==
  /\ state \in [kind : Kinds, latest : Versions \cup {None}]
  /\ state.kind \in {"Available", "Downloading", "Ready"} => state.latest \in Versions
  /\ experimental \in BOOLEAN
  /\ check \in [Checkers -> CheckPcs]
  /\ dl \in [Downloads -> [pc : DownloadPcs, version : Versions \cup {None},
                           file : Downloads \cup {None}, written : 0 .. Chunks]]
  /\ queue \in [Downloads -> 0 .. Chunks]
  /\ part \in [Versions -> Downloads \cup {None}]
  /\ exe \in [Versions -> Downloads \cup {None}]
  /\ file \in [Downloads -> SUBSET Whole]
  /\ overlapped \subseteq Versions

\* "so a crashed download doesn't leave a half-baked installer named like the
\* real one" (download.rs:52-53): with failures and restarts anywhere, a file
\* named `.exe` is whole, as long as no two downloads of its version overlap.
InstallerIsWhole ==
  \A v \in Versions \ overlapped : exe[v] # None => file[exe[v]] = Whole

\* Ready says that the installer is on disk (mod.rs:69).  Checks, later
\* downloads and late progress reports may end that state, but while it lasts
\* the installer is there, unless two downloads of the version overlapped.
ReadyOnDisk ==
  state.kind = "Ready" /\ state.latest \notin overlapped => exe[state.latest] # None

\* What the updater offers to launch is there, and it is whole.
InstallersAreSound == InstallerIsWhole /\ ReadyOnDisk

\* A late report may leave the state at Downloading when nothing is downloaded
\* any more (mod.rs:276-292).  The poller's next successful check ends that.
DownloadingEnds ==
  state.kind = "Downloading" ~> state.kind # "Downloading"

\* The claim without the exception: "Promote `.exe.part` -> `.exe` only after
\* the body is fully on disk and flushed" (download.rs:83-84).
PromotedIsWhole ==
  \A v \in Versions : exe[v] # None => file[exe[v]] = Whole

\* "Don't clobber a previous Available state -- leave it so the banner stays
\* visible even if a follow-up check fails" (mod.rs:163-165).  The code looks
\* in one lock and writes in another, and another check may make its offer in
\* between.
OfferSurvivesFailedCheck ==
  [][\A c \in Checkers : GiveUp(c) => state.kind # "Available"]_vars
----------------------------------------------------------------------------
(* The inductive invariant behind the safety properties. *)

Fresh == {"unused", "begin", "get", "create"}   \* no file opened yet
Open == {"body", "rename"}

\* How far a download is, and its reports are no more than its chunks.
DownloadsInStep ==
  \A d \in Downloads :
    /\ Active(d) \/ queue[d] > 0 => dl[d].version \in Versions
    /\ dl[d].pc \in Fresh => dl[d].written = 0
    /\ dl[d].pc = "body" => dl[d].file \in Downloads
    /\ dl[d].pc = "rename" => dl[d].written = Chunks
    /\ dl[d].pc # "done" => queue[d] <= dl[d].written

\* No file has two names, and a file has none before it is created.
OneNamePerFile ==
  /\ \A v, w \in Versions :
       /\ part[v] # None => part[v] # exe[w]
       /\ part[v] # None /\ part[v] = part[w] => v = w
  /\ \A d \in Downloads, v \in Versions :
       dl[d].pc \in Fresh => part[v] # d /\ exe[v] # d

OneDownloadAtATime ==
  \A d, e \in Downloads :
    Active(d) /\ Active(e) /\ dl[d].version = dl[e].version
      /\ dl[d].version \notin overlapped => d = e

\* Without overlap, `.part` is the file the download writes, with every chunk
\* so far, and after the rename there is an `.exe`.
PartIsOwn ==
  \A d \in Downloads :
    dl[d].version \notin overlapped =>
      /\ dl[d].pc \in Open =>
           /\ part[dl[d].version] = dl[d].file
           /\ part[dl[d].version] # None
           /\ 1 .. dl[d].written \subseteq file[part[dl[d].version]]
      /\ dl[d].pc = "ready" => exe[dl[d].version] # None

ReadyIsOver ==
  state.kind = "Ready" /\ state.latest \notin overlapped =>
    \A d \in Downloads : Active(d) => dl[d].version # state.latest

UpdaterInv ==
  /\ TypeOK
  /\ DownloadsInStep
  /\ OneNamePerFile
  /\ OneDownloadAtATime
  /\ PartIsOwn
  /\ ReadyIsOver
  /\ InstallerIsWhole
  /\ ReadyOnDisk
=============================================================================
