------------------------------ MODULE Settings ------------------------------
(* config.json and the nightly switch: main() loads the file before the      *)
(* process takes over from an older daemon (main.rs, load_or_create), the     *)
(* user edits it, and POST /api/settings/experimental_builds sets the live    *)
(* flag and rewrites the file in place (routes/updates.rs,                    *)
(* set_experimental_builds) on one of two HTTP workers.                       *)
(*                                                                            *)
(* fs::write truncates and then fills the file: a crash, a reader or another  *)
(* writer may come in between.  A read may fail, also of a file that is whole. *)
EXTENDS Naturals, FiniteSets, TLC

CONSTANTS Toggles,   \* toggles the user makes
          MaxSaves    \* how often the user saves the file by hand

ASSUME SettingsAssumption == IsFiniteSet(Toggles) /\ MaxSaves \in Nat

VARIABLES file,      \* what config.json holds
          starter,   \* a starting process, on its way through load_or_create
          judged,    \* what that process read
          up,        \* a daemon serves HTTP
          flag,      \* its Updater::experimental
          toggle,    \* where each toggle is
          want,      \* the value it carries
          text,      \* the document it is about to write
          saves,     \* history: saves by hand so far
          saved,     \* history: the fields the file should have
          spoilt,    \* history: a write was cut off or crossed another or a save, or a
                     \* read that failed was taken for an empty file
          peeked,    \* history: a half-written file was read
          crossed    \* history: the flag and the file may differ

daemonVars == <<up, flag>>
toggleVars == <<toggle, want, text>>
settingsVars == <<file, starter, judged, up, flag, toggle, want, text, saves, saved,
                  spoilt, peeked, crossed>>

(* The values of the other fields: those of default_json, a user's, one that  *)
(* validate rejects, one that serde rejects (a string or 70000 for udp_port), *)
(* or no field at all.                                                        *)
Fields   == {"default", "user", "rejected", "mistyped", "none"}
Object(f, e) == [kind |-> "object", fields |-> f, exp |-> e]
NoObject(k)  == [kind |-> k, fields |-> "none", exp |-> "unset"]
Missing  == NoObject("missing")
Broken   == NoObject("broken")      \* empty, cut off, unreadable or not JSON
Scalar   == NoObject("scalar")      \* JSON, but neither an object nor an array
Default  == Object("default", "off")
Contents == {Missing, Broken, Scalar}
              \cup {Object(f, e) : f \in Fields, e \in {"on", "off", "unset"}}
ByHand   == {Missing, Broken, Scalar, Object("rejected", "on"), Object("mistyped", "on")}
              \cup {Object("user", e) : e \in {"on", "off", "unset"}}
ValueOf(e) == IF e THEN "on" ELSE "off"

Parses(c) == c.kind = "object" /\ c.fields # "mistyped"     \* as RawSettings
Valid(c)  == Parses(c) /\ c.fields \in {"default", "user"}  \* listen_addr is required
Keeps(f)  == f # "none"                                     \* fields somebody would miss

TogglePcs   == {"idle", "sent", "read", "truncate", "fill"}
Handled(p)  == p \in {"read", "truncate", "fill"}
StarterPcs  == {"off", "exists", "read", "remove", "create", "fill", "loaded"}
Rewriting   == starter \in {"remove", "create", "fill"}
Writing(r)  == toggle[r] \in {"truncate", "fill"}
HalfWritten == starter = "fill" \/ \E r \in Toggles : toggle[r] = "fill"

SettingsInit == /\ file \in {Missing, Default, Object("user", "on")}
                /\ saved = file.fields
                /\ starter = "off" /\ judged = Missing
                /\ up = FALSE /\ flag = FALSE
                /\ toggle = [r \in Toggles |-> "idle"] /\ want = [r \in Toggles |-> FALSE]
                /\ text = [r \in Toggles |-> Missing]
                /\ saves = 0 /\ spoilt = FALSE /\ peeked = FALSE /\ crossed = FALSE

-----------------------------------------------------------------------------
(* The user saves or deletes the file.                                        *)
Save == /\ saves < MaxSaves
        /\ saves' = saves + 1
        /\ file' \in ByHand
        /\ saved' = file'.fields
        /\ spoilt' = (Rewriting \/ \E r \in Toggles : Writing(r))
        /\ peeked' = FALSE
        /\ crossed' = TRUE
        /\ UNCHANGED <<starter, judged, daemonVars, toggleVars>>

-----------------------------------------------------------------------------
(* A process starts: load_or_create, then the takeover. It may be stopped at  *)
(* any point (StarterDies).                                                   *)
StartLoading == /\ starter = "off"
                /\ starter' = "exists"
                /\ crossed' = (crossed \/ \E r \in Toggles : Handled(toggle[r]))
                /\ UNCHANGED <<file, judged, daemonVars, toggleVars, saves, saved, spoilt, peeked>>

CheckExists == /\ starter = "exists"
               /\ starter' = IF file = Missing THEN "create" ELSE "read"
               /\ UNCHANGED <<file, judged, daemonVars, toggleVars, saves, saved, spoilt, peeked, crossed>>

(* What was read decides: a file that does not parse as RawSettings is        *)
(* replaced, as is one that cannot be read; one that validate rejects is left *)
(* alone and the process exits.  Fields that serde rejects are given up here. *)
ReadConfig == /\ starter = "read"
              /\ \E c \in {file, Broken} :
                   /\ judged' = IF Parses(c) /\ ~Valid(c) THEN Missing ELSE c
                   /\ starter' = CASE ~Parses(c) -> "remove"
                                   [] Valid(c)   -> "loaded"
                                   [] OTHER      -> "off"
                   /\ saved' = IF c.fields = "mistyped" THEN "none" ELSE saved
                   /\ spoilt' = (spoilt \/ c.fields # file.fields)
              /\ peeked' = (peeked \/ HalfWritten)
              /\ UNCHANGED <<file, daemonVars, toggleVars, saves, crossed>>

RemoveConfig == /\ starter = "remove"
                /\ starter' = "create"
                /\ judged' = Missing
                /\ file' \in {Missing, file}
                /\ crossed' = TRUE
                /\ UNCHANGED <<daemonVars, toggleVars, saves, saved, spoilt, peeked>>

CreateDefault == /\ starter = "create"
                 /\ starter' = "fill"
                 /\ file' = Broken
                 /\ spoilt' = (spoilt \/ \E r \in Toggles : Writing(r))
                 /\ UNCHANGED <<judged, daemonVars, toggleVars, saves, saved, peeked, crossed>>

(* The process exits with status 1 after it wrote the default.                *)
FillDefault == /\ starter = "fill"
               /\ starter' = "off"
               /\ file' \in IF file = Broken THEN {Default} ELSE {Default, Broken}
               /\ saved' = IF Keeps(saved) THEN saved ELSE "default"
               /\ crossed' = TRUE
               /\ UNCHANGED <<judged, daemonVars, toggleVars, saves, spoilt, peeked>>

(* The older daemon is gone by the time the new one serves.                   *)
TakeOver == /\ starter = "loaded"
            /\ starter' = "off"
            /\ up' = TRUE
            /\ flag' = (judged.exp = "on")
            /\ toggle' = [r \in Toggles |-> "idle"]
            /\ spoilt' = (spoilt \/ HalfWritten)
            /\ crossed' = (judged # file)
            /\ judged' = Missing
            /\ text' = [r \in Toggles |-> Missing]
            /\ UNCHANGED <<file, want, saves, saved, peeked>>

StarterDies == /\ starter # "off"
               /\ starter' = "off"
               /\ judged' = Missing
               /\ UNCHANGED <<file, daemonVars, toggleVars, saves, saved, spoilt, peeked, crossed>>

DaemonDies == /\ up
              /\ up' = FALSE
              /\ toggle' = [r \in Toggles |-> "idle"]
              /\ text' = [r \in Toggles |-> Missing]
              /\ spoilt' = (spoilt \/ HalfWritten)
              /\ UNCHANGED <<file, starter, judged, flag, want, saves, saved, peeked, crossed>>

Starting == StartLoading \/ CheckExists \/ ReadConfig \/ RemoveConfig \/ CreateDefault \/ FillDefault
              \/ TakeOver

-----------------------------------------------------------------------------
(* A toggle: the frontend sends it and a worker handles it.                   *)
SendToggle(r) == /\ toggle[r] = "idle"
                 /\ toggle' = [toggle EXCEPT ![r] = "sent"]
                 /\ \E v \in BOOLEAN : want' = [want EXCEPT ![r] = v]
                 /\ UNCHANGED <<file, starter, judged, daemonVars, text, saves, saved, spoilt, peeked, crossed>>

SetExperimentalLater(r) == /\ toggle[r] = "sent"
                           /\ up
                           /\ toggle' = [toggle EXCEPT ![r] = "read"]
                           /\ crossed' = (starter # "off" \/ \E q \in Toggles : Handled(toggle[q]))
                           /\ UNCHANGED <<file, starter, judged, daemonVars, want, text,
                                          saves, saved, spoilt, peeked>>

(* The handler sets the live flag before it touches the file.                 *)
SetExperimental(r) == /\ toggle[r] = "sent"
                      /\ up
                      /\ toggle' = [toggle EXCEPT ![r] = "read"]
                      /\ flag' = want[r]
                      /\ crossed' = (starter # "off" \/ \E q \in Toggles : Handled(toggle[q]))
                      /\ UNCHANGED <<file, starter, judged, up, want, text, saves, saved, spoilt, peeked>>

NoDaemon(r) == /\ toggle[r] = "sent"
               /\ ~up
               /\ toggle' = [toggle EXCEPT ![r] = "idle"]
               /\ UNCHANGED <<file, starter, judged, daemonVars, want, text, saves, saved, spoilt, peeked,
                              crossed>>

UpdatedAlone(c, v)    == Object("none", ValueOf(v))
UpdatedAnything(c, v) == [c EXCEPT !.exp = ValueOf(v)]

(* set_experimental_builds: an object keeps its other fields, a file that is  *)
(* missing, unreadable or no JSON becomes an object with the one field.       *)
Updated(c, v) == IF c.kind = "object" THEN Object(c.fields, ValueOf(v))
                                      ELSE Object("none", ValueOf(v))

ReadForUpdate(r) == /\ toggle[r] = "read"
                    /\ \E c \in {file, Broken} :
                         \/ /\ c = Scalar
                            /\ toggle' = [toggle EXCEPT ![r] = "idle"]
                            /\ crossed' = TRUE
                            /\ UNCHANGED <<text, spoilt>>
                         \/ /\ c # Scalar
                            /\ toggle' = [toggle EXCEPT ![r] = "truncate"]
                            /\ text' = [text EXCEPT ![r] = Updated(c, want[r])]
                            /\ spoilt' = (spoilt \/ c.fields # file.fields)
                            /\ UNCHANGED crossed
                    /\ peeked' = (peeked \/ HalfWritten)
                    /\ UNCHANGED <<file, starter, judged, daemonVars, want, saves, saved>>

Truncate(r) == /\ toggle[r] = "truncate"
               /\ toggle' = [toggle EXCEPT ![r] = "fill"]
               /\ file' = Broken
               /\ UNCHANGED <<starter, judged, daemonVars, want, text, saves, saved, spoilt, peeked, crossed>>

(* Two writers that truncated before either filled overlay each other: what   *)
(* is left is the later text, or that and the tail of a longer one.           *)
Fill(r) == /\ toggle[r] = "fill"
           /\ toggle' = [toggle EXCEPT ![r] = "idle"]
           /\ file' \in IF file = Broken \/ file.fields = text[r].fields
                          THEN {text[r]} ELSE {text[r], Broken}
           /\ spoilt' = (spoilt \/ (file # Broken /\ file.fields # text[r].fields))
           /\ text' = [text EXCEPT ![r] = Missing]
           /\ UNCHANGED <<starter, judged, daemonVars, want, saves, saved, peeked, crossed>>

(* The file cannot be opened, or the disk is full after it was truncated.     *)
RewriteFails(r) == /\ Writing(r)
                   /\ toggle' = [toggle EXCEPT ![r] = "idle"]
                   /\ text' = [text EXCEPT ![r] = Missing]
                   /\ spoilt' = (spoilt \/ toggle[r] = "fill")
                   /\ crossed' = TRUE
                   /\ UNCHANGED <<file, starter, judged, daemonVars, want, saves, saved, peeked>>

Toggle(r) == \/ SendToggle(r) \/ SetExperimental(r) \/ NoDaemon(r) \/ ReadForUpdate(r) \/ Truncate(r)
             \/ Fill(r) \/ RewriteFails(r)

-----------------------------------------------------------------------------
SettingsNext == \/ Save \/ Starting \/ StarterDies \/ DaemonDies
                \/ \E r \in Toggles : Toggle(r)

SettingsSpec == SettingsInit /\ [][SettingsNext]_settingsVars

-----------------------------------------------------------------------------
SettingsTypeOK == /\ file \in Contents /\ judged \in Contents
                  /\ starter \in StarterPcs
                  /\ up \in BOOLEAN /\ flag \in BOOLEAN
                  /\ toggle \in [Toggles -> TogglePcs] /\ want \in [Toggles -> BOOLEAN]
                  /\ text \in [Toggles -> Contents]
                  /\ saves \in 0 .. MaxSaves /\ saved \in Fields
                  /\ spoilt \in BOOLEAN /\ peeked \in BOOLEAN /\ crossed \in BOOLEAN

(* Whatever starts, toggles, restarts and edits follow one another or overlap, *)
(* the other fields of the file are those that were last saved (the daemon's   *)
(* default if there were none), also when the file is invalid; fields that     *)
(* serde rejects stay until a start refuses them.  They are lost only to a     *)
(* reader of a half-written file, a read that failed, a write that was cut     *)
(* off, or two writes that crossed.                                            *)
EditsSurvive == ~spoilt /\ ~peeked /\ ~HalfWritten /\ Keeps(saved) => file.fields = saved

(* "Other fields are preserved exactly as they are on disk so the user's      *)
(* hand-edited values [...] aren't disturbed" (settings.rs:174-176): what a   *)
(* toggle writes has the fields that were last saved, as long as no read or   *)
(* write fails and nobody saves in between.  Two toggles that overlap do not  *)
(* keep this: one reads the file that the other has truncated.                *)
TogglesKeepFields ==
  \A r \in Toggles : Writing(r) /\ ~spoilt /\ Keeps(saved) => text[r].fields = saved

(* When no toggle is being handled, a restart would load the flag the daemon  *)
(* works with, unless toggles or a start overlapped, a write failed or the    *)
(* file was edited under the running daemon.                                  *)
FlagIsSaved == up /\ ~spoilt /\ ~peeked /\ ~crossed /\ (\A r \in Toggles : ~Handled(toggle[r]))
                 => flag = (file.exp = "on")

-----------------------------------------------------------------------------
(* The inductive invariant behind the two.                                    *)

Agree(f) == IF Keeps(saved) THEN f = saved ELSE f \in {"none", "mistyped"}

(* What a handler is about to write is an object with the value it was sent.  *)
TextsAreMeant ==
  \A r \in Toggles : Writing(r) => text[r].kind = "object" /\ text[r].exp = ValueOf(want[r])

(* The file and every text about to replace it have the fields that count,    *)
(* and a process that replaces the file has found nothing worth keeping.      *)
FieldsAreKept ==
  ~spoilt /\ ~peeked =>
           /\ Agree(file.fields) \/ (file = Broken /\ HalfWritten)
           /\ \A r \in Toggles : Writing(r) => Agree(text[r].fields)
           /\ Rewriting => ~Keeps(saved)
           /\ starter = "fill" => file = Broken /\ \A r \in Toggles : ~Writing(r)

(* Outside an overlap one toggle is handled at a time, with the flag's value. *)
FlagIsKept ==
  up /\ ~spoilt /\ ~peeked /\ ~crossed =>
    /\ \A r \in Toggles : Handled(toggle[r]) =>
         /\ flag = want[r] /\ starter = "off"
         /\ \A q \in Toggles : Handled(toggle[q]) => q = r
    /\ (\A r \in Toggles : ~Handled(toggle[r])) => flag = (file.exp = "on")
    /\ starter = "create" => file = Missing

SettingsInv == SettingsTypeOK /\ TextsAreMeant /\ FieldsAreKept /\ FlagIsKept
=============================================================================
