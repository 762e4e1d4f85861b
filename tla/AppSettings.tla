---------------------------- MODULE AppSettings ----------------------------
(***************************************************************************)
(* The settings file and the programs that share it: the desktop           *)
(* application with its settings page, and the command line.  Each program *)
(* has a copy of all settings in memory and writes the whole file at every *)
(* save; the client secret is sealed with a key kept in a file beside it.  *)
(* A step ends where another program, the disk or the end of the program   *)
(* can come in between.                                                    *)
(*                                                                         *)
(* The settings are represented by one of each kind: the theme, the OAuth  *)
(* secret, the cache switch and the log configuration.  Expanding the      *)
(* variables in paths is left out, and so are a proxy given on the command *)
(* line and a secret too long to be encrypted.                             *)
(***************************************************************************)
EXTENDS Naturals

CONSTANTS
    Programs,   \* the programs that are run: a subset of {"gui", "cli"}
    Secrets,    \* OAuth client secrets
    NoSecret,   \* an empty secret
    MaxRuns,    \* bound: how often programs are started
    MaxSaves,   \* bound: how often a user saves
    MaxFaults   \* bound: failing calls and killed programs

ASSUME SettingsAssumption ==
    /\ "gui" \in Programs /\ Programs \subseteq {"gui", "cli"}
    /\ NoSecret \notin Secrets
    /\ MaxRuns \in Nat \ {0}

VARIABLES
    file,      \* the settings file
    keyFile,   \* the key file: a key's number, or NoKey or BadKey
    keysMade,  \* keys written so far
    at,        \* where each program is
    mem,       \* mAppSettings of each program
    doc,       \* the settings it has read, or is about to write
    job,       \* what it reads or writes them for
    prev,      \* the settings to go back to
    want,      \* the settings to be saved
    ok,        \* what load() or save() returned
    page,      \* the settings page
    app,       \* the secret the account module uses, and whether the
               \* application was started with its settings
    sink,      \* the log configuration in effect
    confirmed, \* history: the settings of the last save that returned true
    stale,     \* history: programs whose copy is older than that
    disturbed, \* history: the file was cut or overwritten since
    keyRaced,  \* history: a program met a key that another was making
    runs, saves, faults

disk == <<file, keyFile, keysMade>>
copies == <<mem, doc, job, prev, want, ok>>
shown == <<page, app, sink>>
history == <<confirmed, stale, disturbed, keyRaced>>
vars == <<disk, at, copies, shown, history, runs, saves, faults>>

NoKey == 0
BadKey == MaxRuns + 1        \* a key file of the wrong size
Keys == 1..MaxRuns

Settings == [theme : {"system", "dark"}, secret : Secrets \cup {NoSecret},
             cache : BOOLEAN, log : {"info", "debug"}]

Defaults == [theme |-> "system", secret |-> NoSecret, cache |-> TRUE,
             log |-> "info"]

\* A file with settings, saved with a key, with which their secret is sealed,
\* or without one, with the secret plain.
Plain(s) == [kind |-> "settings", content |-> s, seal |-> NoKey]
Sealed(d, k) == [d EXCEPT !.seal = k]
NoFile(kind) == [kind |-> kind, content |-> Defaults, seal |-> NoKey]
Documents == [kind : {"settings"}, content : Settings, seal : Keys \cup {NoKey}]
Files == Documents \cup {NoFile(kind) : kind \in {"absent", "empty", "torn"}}

\* What is read from a file: a secret that the key does not open is wiped.
Unsealed(d, k) ==
    IF d.seal \in {NoKey, k} THEN d.content
                             ELSE [d.content EXCEPT !.secret = NoSecret]

Where == {"off", "read", "unlock", "set", "key", "makeKey", "writeKey", "open",
          "write", "back", "done", "idle"}

Goes(p, where) == at' = [at EXCEPT ![p] = where]
Fault == faults < MaxFaults /\ faults' = faults + 1
NoFault == UNCHANGED faults
Returns(p, result) == Goes(p, "back") /\ ok' = [ok EXCEPT ![p] = result]

NewPage == [theme |-> "system", secret |-> NoSecret, cache |-> TRUE,
            log |-> "info", saving |-> FALSE, closing |-> FALSE,
            before |-> "system"]
NewApp == [loaded |-> FALSE, secret |-> NoSecret]
NewSink == [log |-> "info", failed |-> FALSE, given |-> "none"]

\* The program ends, and its memory with it.
Ends(p) ==
    /\ Goes(p, "off")
    /\ mem' = [mem EXCEPT ![p] = Defaults]
    /\ doc' = [doc EXCEPT ![p] = Plain(Defaults)]
    /\ job' = [job EXCEPT ![p] = "load"]
    /\ prev' = [prev EXCEPT ![p] = Defaults]
    /\ want' = [want EXCEPT ![p] = Defaults]
    /\ ok' = [ok EXCEPT ![p] = FALSE]
    /\ IF p = "gui" THEN page' = NewPage /\ app' = NewApp /\ sink' = NewSink
                    ELSE UNCHANGED shown

------------------------------------------------------------------------------
(* save(): the copy, the key, the file.                                    *)

\* The settings in memory are copied.
Save(p, s) ==
    /\ mem' = [mem EXCEPT ![p] = s]
    /\ doc' = [doc EXCEPT ![p] = Plain(s)]
    /\ Goes(p, "key")

SealWith(p, k) == doc' = [doc EXCEPT ![p] = Sealed(@, k)]

\* loadSecretKey(path, true): without a key the secret stays plain.
ReadKey(p) ==
    /\ at[p] = "key"
    /\ \/ keyFile \in Keys /\ SealWith(p, keyFile) /\ Goes(p, "open") /\ NoFault
       \/ keyFile = NoKey /\ Goes(p, "makeKey") /\ NoFault /\ UNCHANGED doc
       \/ keyFile = BadKey /\ Goes(p, "open") /\ NoFault /\ UNCHANGED doc
       \/ Fault /\ Goes(p, "open") /\ UNCHANGED doc
    /\ keyRaced' = (keyRaced \/ \E q \in Programs : at[q] = "writeKey")
    /\ UNCHANGED <<disk, mem, job, prev, want, ok, shown, confirmed, stale,
                   disturbed, runs, saves>>

\* A key file that cannot be written is removed.
KeyFails(p) ==
    /\ Fault /\ keyFile' = NoKey /\ Goes(p, "open")
    /\ UNCHANGED <<keysMade, doc>>

\* The key file is opened, and emptied.
MakeKey(p) ==
    /\ at[p] = "makeKey"
    /\ \/ keyFile' = BadKey /\ Goes(p, "writeKey") /\ NoFault
          /\ UNCHANGED <<keysMade, doc>>
       \/ KeyFails(p)
    /\ keyRaced' = (keyRaced \/ keyFile # NoKey)
    /\ UNCHANGED <<file, mem, job, prev, want, ok, shown, confirmed, stale,
                   disturbed, runs, saves>>

WriteKey(p) ==
    /\ at[p] = "writeKey"
    /\ \/ /\ keysMade' = keysMade + 1
          /\ keyFile' = keysMade'
          /\ SealWith(p, keysMade')
          /\ Goes(p, "open") /\ NoFault
       \/ KeyFails(p)
    /\ UNCHANGED <<file, mem, job, prev, want, ok, shown, history, runs, saves>>

\* The settings file is opened for writing, and emptied.
Truncate(p) ==
    /\ at[p] = "open"
    /\ \/ file' = NoFile("empty") /\ Goes(p, "write") /\ NoFault /\ UNCHANGED ok
       \/ Fault /\ Returns(p, FALSE) /\ UNCHANGED file
    /\ UNCHANGED <<keyFile, keysMade, mem, doc, job, prev, want, shown, history,
                   runs, saves>>

UserSaves(p) == job[p] \notin {"load", "create"}

\* Whose copy is older than what p writes now.
Older(p) == {q \in Programs \ {p} : at[q] \notin {"off", "read"}}

\* The user is told that mem[p] is saved; a file that is written back after it
\* was loaded says nothing new, unless something newer was saved meanwhile.
Recorded(p) ==
    IF UserSaves(p)
    THEN /\ confirmed' = mem[p]
         /\ stale' = Older(p)
         /\ disturbed' = (file'.kind # "settings")
    ELSE /\ disturbed' = (disturbed \/ p \in stale \/ file'.kind # "settings")
         /\ UNCHANGED <<confirmed, stale>>

\* Two programs that write at the same time may leave a mixture.
Write(p) ==
    /\ at[p] = "write"
    /\ \/ /\ \/ file' = doc[p]
             \/ file.kind # "empty" /\ file' = NoFile("torn")
          /\ Returns(p, TRUE) /\ NoFault /\ Recorded(p)
       \/ /\ Fault /\ Returns(p, FALSE) /\ disturbed' = TRUE
          /\ UNCHANGED <<file, confirmed, stale>>
    /\ UNCHANGED <<keyRaced, keyFile, keysMade, mem, doc, job, prev, want, shown, runs,
                   saves>>

SaveStep(p) ==
    ReadKey(p) \/ MakeKey(p) \/ WriteKey(p) \/ Truncate(p) \/ Write(p)

------------------------------------------------------------------------------
(* load() and loadOrCreate().                                              *)

Begin(p, kind) == job' = [job EXCEPT ![p] = kind]

\* A program starts with default settings, and writes them when there is no
\* file.
Start(p) ==
    /\ at[p] = "off"
    /\ runs < MaxRuns /\ runs' = runs + 1
    /\ \/ file.kind = "absent" /\ Begin(p, "create") /\ Save(p, Defaults)
       \/ file.kind # "absent" /\ Begin(p, "load") /\ Goes(p, "read")
          /\ UNCHANGED <<mem, doc>>
    /\ stale' = stale \ {p}
    /\ UNCHANGED <<disk, prev, want, ok, shown, confirmed, disturbed, keyRaced,
                   saves, faults>>

Read(p) ==
    /\ at[p] = "read"
    /\ \/ file.kind = "settings" /\ doc' = [doc EXCEPT ![p] = file]
          /\ Goes(p, "unlock") /\ UNCHANGED ok
       \/ file.kind # "settings" /\ Returns(p, FALSE) /\ UNCHANGED doc
    /\ UNCHANGED <<disk, mem, job, prev, want, shown, history, runs, saves,
                   faults>>

\* Broken: what is read is written back without being decrypted for memory.
Unlock_NotUnsealed(p) ==
    /\ at[p] = "unlock"
    /\ \/ /\ keyFile \in Keys /\ UNCHANGED ok
          /\ Save(p, IF doc[p].seal = NoKey THEN doc[p].content
                     ELSE [doc[p].content EXCEPT !.secret = NoSecret])
       \/ keyFile \notin Keys /\ Returns(p, FALSE) /\ UNCHANGED <<mem, doc>>
    /\ UNCHANGED <<disk, job, prev, want, shown, history, runs, saves, faults>>

\* Without its key the file is refused; otherwise it is taken, and written
\* back at once.
Unlock(p) ==
    /\ at[p] = "unlock"
    /\ \/ keyFile \in Keys /\ Save(p, Unsealed(doc[p], keyFile)) /\ UNCHANGED ok
       \/ keyFile \notin Keys /\ Returns(p, FALSE) /\ UNCHANGED <<mem, doc>>
    /\ UNCHANGED <<disk, job, prev, want, shown, history, runs, saves, faults>>

------------------------------------------------------------------------------
(* The desktop application and its settings page.                          *)

\* loadSnapshot().
Snapshot(s) == [page EXCEPT !.theme = s.theme, !.secret = s.secret,
                            !.cache = s.cache, !.log = s.log]

Page == [theme : {"system", "dark"}, secret : Secrets \cup {NoSecret},
         cache : BOOLEAN, log : {"info", "debug"},
         saving : BOOLEAN, closing : BOOLEAN, before : {"system", "dark"}]

\* configureLogging(), which may fail and then leaves the file as it was; given
\* is the level that the command line asked for, if that is why it is called.
Configured(log, given) ==
    \/ sink' = [log |-> log, failed |-> FALSE, given |-> given] /\ NoFault
    \/ sink' = [sink EXCEPT !.failed = TRUE] /\ Fault

\* The application goes on with default settings when it has not got others;
\* its page shows what is in memory.  A log level on the command line comes
\* before that of the settings.
GuiStarted ==
    /\ at["gui"] = "back" /\ ~UserSaves("gui")
    /\ page' = [Snapshot(mem["gui"]) EXCEPT !.saving = FALSE, !.closing = FALSE]
    /\ app' = [loaded |-> ok["gui"],
               secret |-> IF ok["gui"] THEN mem["gui"].secret ELSE NoSecret]
    /\ \E given \in {"none", "info", "debug"} :
         Configured(CASE given # "none" -> given
                      [] given = "none" /\ ok["gui"] -> mem["gui"].log
                      [] OTHER -> Defaults.log,
                    given)
    /\ Goes("gui", "idle")
    /\ UNCHANGED <<disk, copies, history, runs, saves>>

\* A save of the page begins: s is what it will write, shows what it shows.
Request(kind, s, shows) ==
    /\ at["gui"] = "idle" /\ ~page.saving /\ ~page.closing
    /\ saves < MaxSaves /\ saves' = saves + 1
    /\ page' = [shows EXCEPT !.saving = TRUE]
    /\ prev' = [prev EXCEPT !["gui"] = mem["gui"]]
    /\ want' = [want EXCEPT !["gui"] = s]
    /\ Begin("gui", kind)
    /\ Goes("gui", "set")
    /\ UNCHANGED <<disk, mem, doc, ok, app, sink, history, runs, faults>>

\* setThemeMode() shows the theme before it is saved.
SetThemeMode(theme) ==
    /\ theme # page.theme
    /\ Request("theme", [mem["gui"] EXCEPT !.theme = theme],
               [page EXCEPT !.theme = theme, !.before = page.theme])

SaveBangumiSettings(secret) ==
    Request("bangumi", [mem["gui"] EXCEPT !.secret = secret], page)

SaveBangumiCacheSettings(enabled) ==
    Request("bangumi", [mem["gui"] EXCEPT !.cache = enabled], page)

SaveLogSettings(log) == Request("log", [mem["gui"] EXCEPT !.log = log], page)

\* The worker thread of persistTheme() and persistBangumi(), and the saver of
\* the command line.
SetAndSave(p) ==
    /\ at[p] = "set" /\ job[p] # "log"
    /\ Save(p, want[p])
    /\ UNCHANGED <<disk, job, prev, want, ok, shown, history, runs, saves, faults>>

\* persistLog() configures first; what cannot be configured is not saved.
SetLogAndSave ==
    /\ at["gui"] = "set" /\ job["gui"] = "log"
    /\ Configured(want["gui"].log, "none")
    /\ \/ ~sink'.failed /\ Save("gui", want["gui"]) /\ UNCHANGED ok
       \/ /\ sink'.failed /\ Goes("gui", "done")
          /\ ok' = [ok EXCEPT !["gui"] = FALSE]
          /\ UNCHANGED <<mem, doc>>
    /\ UNCHANGED <<disk, job, prev, want, page, app, history, runs, saves>>

\* Broken: a failed save is not taken back in memory.
Settled_KeepsChange ==
    /\ at["gui"] = "back" /\ UserSaves("gui")
    /\ IF ~ok["gui"] /\ job["gui"] = "log"
       THEN Configured(prev["gui"].log, "none")
       ELSE NoFault /\ UNCHANGED sink
    /\ Goes("gui", "done")
    /\ UNCHANGED <<disk, copies, page, app, history, runs, saves>>

\* Back in the worker: a save that failed is taken back.
Settled ==
    /\ at["gui"] = "back" /\ UserSaves("gui")
    /\ mem' = [mem EXCEPT !["gui"] = IF ok["gui"] THEN @ ELSE prev["gui"]]
    /\ IF ~ok["gui"] /\ job["gui"] = "log"
       THEN Configured(prev["gui"].log, "none")
       ELSE NoFault /\ UNCHANGED sink
    /\ Goes("gui", "done")
    /\ UNCHANGED <<disk, doc, job, prev, want, ok, page, app, history, runs, saves>>

\* What the page shows once the worker has answered.
Answered ==
    CASE job["gui"] = "theme" ->
           [page EXCEPT !.theme = IF ok["gui"] THEN @ ELSE page.before]
      [] job["gui"] = "bangumi" /\ ok["gui"] ->
           [page EXCEPT !.secret = mem["gui"].secret, !.cache = mem["gui"].cache]
      [] job["gui"] = "log" /\ ok["gui"] -> Snapshot(mem["gui"])
      [] OTHER -> page

\* Broken: the module keeps the application it was given at the start.
Finish_ModuleForgotten ==
    /\ at["gui"] = "done" /\ ~page.closing
    /\ page' = [Answered EXCEPT !.saving = FALSE]
    /\ Goes("gui", "idle")
    /\ UNCHANGED <<disk, copies, app, sink, history, runs, saves, faults>>

\* The page takes the answer up, unless it is being destroyed.
Finish ==
    /\ at["gui"] = "done" /\ ~page.closing
    /\ page' = [Answered EXCEPT !.saving = FALSE]
    /\ app' = IF job["gui"] = "bangumi" /\ ok["gui"]
              THEN [app EXCEPT !.secret = mem["gui"].secret] ELSE app
    /\ Goes("gui", "idle")
    /\ UNCHANGED <<disk, copies, sink, history, runs, saves, faults>>

Reload ==
    /\ at["gui"] = "idle" /\ ~page.saving /\ ~page.closing
    /\ page' = Snapshot(mem["gui"])
    /\ UNCHANGED <<disk, at, copies, app, sink, history, runs, saves, faults>>

\* The destructor of the page waits for the worker.
Close ==
    /\ page.saving \/ at["gui"] = "idle"
    /\ ~page.closing
    /\ page' = [page EXCEPT !.closing = TRUE]
    /\ UNCHANGED <<disk, at, copies, app, sink, history, runs, saves, faults>>

Closed ==
    /\ page.closing /\ at["gui"] \in {"idle", "done"}
    /\ Ends("gui")
    /\ UNCHANGED <<disk, history, runs, saves, faults>>

------------------------------------------------------------------------------
(* The command line.                                                       *)

\* It gives up without settings.
CliStarted ==
    /\ at["cli"] = "back" /\ ~UserSaves("cli")
    /\ \/ ok["cli"] /\ Goes("cli", "idle") /\ UNCHANGED <<copies, shown>>
       \/ ~ok["cli"] /\ Ends("cli")
    /\ UNCHANGED <<disk, history, runs, saves, faults>>

\* login() has asked for an application because there was none, and the login
\* has succeeded with it: saveOAuthApplication().
SaveOAuthApplication(secret) ==
    /\ at["cli"] = "idle" /\ mem["cli"].secret = NoSecret
    /\ saves < MaxSaves /\ saves' = saves + 1
    /\ prev' = [prev EXCEPT !["cli"] = mem["cli"]]
    /\ want' = [want EXCEPT !["cli"] = [mem["cli"] EXCEPT !.secret = secret]]
    /\ Begin("cli", "application")
    /\ Goes("cli", "set")
    /\ UNCHANGED <<disk, mem, doc, ok, shown, history, runs, faults>>

\* The command is over.
Exit ==
    /\ at["cli"] = "idle" \/ (at["cli"] = "back" /\ UserSaves("cli"))
    /\ Ends("cli")
    /\ UNCHANGED <<disk, history, runs, saves, faults>>

------------------------------------------------------------------------------
\* A program is killed, or the machine goes down.
Killed(p) ==
    /\ at[p] # "off"
    /\ Fault
    /\ Ends(p)
    /\ disturbed' = (disturbed \/ at[p] = "write")
    /\ UNCHANGED <<disk, confirmed, stale, keyRaced, runs, saves>>

\* There is no file yet, or one of an older version, with the secret as plain text.
FirstFiles == {NoFile("absent")}
              \cup {Plain([Defaults EXCEPT !.secret = secret]) : secret \in Secrets}

Init ==
    /\ file \in FirstFiles /\ keyFile = NoKey /\ keysMade = 0
    /\ at = [p \in Programs |-> "off"]
    /\ mem = [p \in Programs |-> Defaults]
    /\ doc = [p \in Programs |-> Plain(Defaults)]
    /\ job = [p \in Programs |-> "load"]
    /\ prev = [p \in Programs |-> Defaults]
    /\ want = [p \in Programs |-> Defaults]
    /\ ok = [p \in Programs |-> FALSE]
    /\ page = NewPage /\ app = NewApp /\ sink = NewSink
    /\ confirmed = Defaults /\ stale = {} /\ disturbed = TRUE
    /\ keyRaced = FALSE
    /\ runs = 0 /\ saves = 0 /\ faults = 0

Work(p) == Read(p) \/ Unlock(p) \/ SaveStep(p) \/ SetAndSave(p)

GuiWork == Work("gui") \/ GuiStarted \/ SetLogAndSave \/ Settled \/ Finish \/ Closed

GuiNext ==
    \/ GuiWork
    \/ \E theme \in {"system", "dark"} : SetThemeMode(theme)
    \/ \E secret \in Secrets : SaveBangumiSettings(secret)
    \/ \E enabled \in BOOLEAN : SaveBangumiCacheSettings(enabled)
    \/ \E log \in {"info", "debug"} : SaveLogSettings(log)
    \/ Reload \/ Close

CliNext ==
    \/ Work("cli") \/ CliStarted \/ Exit
    \/ \E secret \in Secrets : SaveOAuthApplication(secret)

Next ==
    \/ \E p \in Programs : Start(p) \/ Killed(p)
    \/ "gui" \in Programs /\ GuiNext
    \/ "cli" \in Programs /\ CliNext

Spec == Init /\ [][Next]_vars

------------------------------------------------------------------------------
(* Properties.                                                             *)

\* Every variable keeps to its type.
TypeOK ==
    /\ file \in Files /\ keyFile \in Keys \cup {NoKey, BadKey}
    /\ keysMade \in 0..MaxRuns
    /\ at \in [Programs -> Where]
    /\ mem \in [Programs -> Settings] /\ doc \in [Programs -> Documents]
    /\ job \in [Programs -> {"load", "create", "theme", "bangumi", "log",
                             "application"}]
    /\ prev \in [Programs -> Settings] /\ want \in [Programs -> Settings]
    /\ ok \in [Programs -> BOOLEAN]
    /\ page \in Page /\ app \in [loaded : BOOLEAN, secret : Secrets \cup {NoSecret}]
    /\ sink \in [log : {"info", "debug"}, failed : BOOLEAN,
                 given : {"none", "info", "debug"}]
    /\ confirmed \in Settings /\ stale \in SUBSET Programs
    /\ disturbed \in BOOLEAN /\ keyRaced \in BOOLEAN

\* Between two saves the settings page shows the settings in memory, whether
\* the last save succeeded, failed at any of its steps or was refused
\* (settings_view_model.cpp:263-282, 335-364, 494-530).
PageShowsMemory ==
    at["gui"] = "idle" => page = Snapshot(mem["gui"]) /\ ~page.saving

\* The level of the command line, until the log is configured again.
LogWanted == IF sink.given = "none" THEN mem["gui"].log ELSE sink.given

\* Between two saves, an application that was started with its settings does
\* what they say: its account module uses the OAuth application that the page
\* shows, and its log is written as the settings in memory want it - as the
\* command line wants it until a save of the page has configured the log again -
\* or the last attempt to configure it has failed (settings_view_model.cpp:
\* 366-373, 485-513, gui/application.cpp:121-134, 191-204).
AppFollowsSettings ==
    at["gui"] = "idle" /\ app.loaded =>
        /\ app.secret = page.secret
        /\ sink.failed \/ sink.log = LogWanted

\* What a user was told is saved is still in the file through any number of
\* restarts and of loads that write it back, and if it was saved with a key,
\* that is the key in the key file, so that the next start reads it; as long as
\* nothing has failed, it was.  Excepted are a file that was cut by a fault,
\* one that a program with an older copy has written, and a key that was met
\* by two programs while it was made (app_settings.cpp:346-473).  After a fault
\* a save may go on without a key: its file has the settings, with the secret
\* plain, but a start finds no key to read it with.
ConfirmedSurvives ==
    ~disturbed /\ ~keyRaced /\ (\A p \in Programs : at[p] # "write")
    => /\ file.kind = "settings" /\ file.content = confirmed
       /\ file.seal # NoKey => file.seal = keyFile /\ keyFile \in Keys
       /\ faults = 0 => file.seal # NoKey
==============================================================================
