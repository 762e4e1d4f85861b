------------------------- MODULE AppSettingsProofs -------------------------
(***************************************************************************)
(* Theorems about AppSettings, for all secrets and any number of runs,     *)
(* saves and faults: between two saves the settings page shows what is in  *)
(* memory, and the application does what it shows; and what a user was     *)
(* told is saved stays in the file.                                        *)
(***************************************************************************)
EXTENDS AppSettings, TLAPS

\* Types, of the files as far as they matter here.
Logs == {"info", "debug"}
Sinks == [log : Logs, failed : BOOLEAN, given : Logs \cup {"none"}]
Readables == [kind : {"settings", "absent", "empty", "torn"}, content : Settings,
              seal : Nat]

PlacesOK ==
    /\ at \in [Programs -> Where]
    /\ job \in [Programs -> {"load", "create", "theme", "bangumi", "log", "application"}]
    /\ ok \in [Programs -> BOOLEAN]
KeysOK == keyFile \in Nat /\ keysMade \in Nat
CopiesOK ==
    /\ file \in Readables /\ doc \in [Programs -> Readables]
    /\ mem \in [Programs -> Settings]
    /\ prev \in [Programs -> Settings] /\ want \in [Programs -> Settings]
ShownOK ==
    /\ page \in Page
    /\ app \in [loaded : BOOLEAN, secret : Secrets \cup {NoSecret}]
    /\ sink \in Sinks

\* What the desktop application can be doing at each place.
JobInv ==
    /\ job["gui"] # "application"
    /\ at["gui"] \in {"read", "unlock"} => ~UserSaves("gui")
    /\ at["gui"] \in {"set", "done"} => UserSaves("gui")

\* While a save of the page is under way, the page shows the settings from
\* before it, with the theme that was chosen; what is to be saved differs from
\* them only in what is saved; the settings in memory are the old ones or the
\* new ones; and the application still follows the old ones.
Saving ==
    /\ at["gui"] \in {"set", "key", "makeKey", "writeKey", "open", "write", "back", "done"}
    /\ UserSaves("gui")
Shown(theme, s) ==
    /\ page.theme = theme /\ page.secret = s.secret
    /\ page.cache = s.cache /\ page.log = s.log
OnlyWhatIsSaved ==
    /\ job["gui"] # "theme" => want["gui"].theme = prev["gui"].theme
    /\ job["gui"] # "log" => want["gui"].log = prev["gui"].log
    /\ job["gui"] # "bangumi" =>
         want["gui"].secret = prev["gui"].secret /\ want["gui"].cache = prev["gui"].cache
InMemory ==
    IF at["gui"] = "set" \/ (at["gui"] = "done" /\ ~ok["gui"])
    THEN prev["gui"] ELSE want["gui"]
SavingInv ==
    Saving =>
      /\ Shown(IF job["gui"] = "theme" THEN want["gui"].theme ELSE prev["gui"].theme,
               prev["gui"])
      /\ job["gui"] = "theme" => page.before = prev["gui"].theme
      /\ OnlyWhatIsSaved
      /\ mem["gui"] = InMemory
      /\ app.loaded => app.secret = prev["gui"].secret
LogInv ==
    Saving /\ app.loaded => sink.failed \/ sink.log = LogWanted

\* Between two saves.
IdleInv ==
    at["gui"] = "idle" =>
      /\ Shown(mem["gui"].theme, mem["gui"])
      /\ ~page.saving
      /\ app.loaded => app.secret = page.secret
IdleLogInv ==
    at["gui"] = "idle" /\ app.loaded => sink.failed \/ sink.log = LogWanted

GuiInv == JobInv /\ SavingInv /\ LogInv /\ IdleInv /\ IdleLogInv
TypesInv == PlacesOK /\ KeysOK /\ CopiesOK /\ ShownOK
IInv == TypesInv /\ GuiInv

------------------------------------------------------------------------------
LEMMA DefaultsType == Defaults \in Settings /\ Plain(Defaults) \in Readables
BY DEF Defaults, Settings, Plain, Readables, NoKey

LEMMA PlainType == ASSUME NEW s \in Settings PROVE Plain(s) \in Readables
BY DEF Plain, Readables, NoKey

LEMMA SealedType ==
    ASSUME NEW d \in Readables, NEW k \in Nat PROVE Sealed(d, k) \in Readables
BY DEF Sealed, Readables

LEMMA UnsealedType ==
    ASSUME NEW d \in Readables, NEW k \in Nat PROVE Unsealed(d, k) \in Settings
<1>1. d.content \in Settings
  BY DEF Readables
<1> QED BY <1>1 DEF Unsealed, Settings

LEMMA NoFileType ==
    ASSUME NEW kind \in {"absent", "empty", "torn"} PROVE NoFile(kind) \in Readables
BY DefaultsType DEF NoFile, Readables, NoKey

LEMMA InitInv == Init => IInv
<1> SUFFICES ASSUME Init PROVE IInv
  OBVIOUS
<1>0. "gui" \in Programs
  BY SettingsAssumption
<1>1. PlacesOK
  BY DEF Init, PlacesOK, Where
<1>2. KeysOK
  BY DEF Init, KeysOK, NoKey
<1>3. CopiesOK
  <2>1. file \in Readables
    <3>1. ASSUME NEW secret \in Secrets
          PROVE  Plain([Defaults EXCEPT !.secret = secret]) \in Readables
      <4>1. [Defaults EXCEPT !.secret = secret] \in Settings
        BY DEF Defaults, Settings
      <4> QED BY <4>1, PlainType
    <3> QED BY <3>1, NoFileType DEF Init, FirstFiles
  <2> QED BY <2>1, DefaultsType DEF Init, CopiesOK
<1>4. ShownOK
  BY DEF Init, ShownOK, NewPage, NewApp, NewSink, Page, Logs, Sinks
<1>5. GuiInv
  BY <1>0 DEF Init, GuiInv, JobInv, SavingInv, LogInv, IdleInv, IdleLogInv, LogWanted, Saving, UserSaves
<1> QED BY <1>1, <1>2, <1>3, <1>4, <1>5 DEF IInv, TypesInv

------------------------------------------------------------------------------
(* Types are kept.                                                         *)

LEMMA PlacesStep == PlacesOK /\ [Next]_vars => PlacesOK'
<1> SUFFICES ASSUME PlacesOK, [Next]_vars PROVE PlacesOK'
  OBVIOUS
<1> USE DEF PlacesOK, Where
<1>1. ASSUME NEW p \in Programs, Start(p) PROVE PlacesOK'
  BY <1>1 DEF Start, Begin, Save, Goes
<1>2. ASSUME NEW p \in Programs, Ends(p) PROVE PlacesOK'
  BY <1>2 DEF Ends, Goes
<1>3. ASSUME NEW p \in Programs, Read(p) \/ Unlock(p) \/ SetAndSave(p) PROVE PlacesOK'
  BY <1>3 DEF Read, Unlock, SetAndSave, Save, Goes, Returns
<1>4. ASSUME NEW p \in Programs, SaveStep(p) PROVE PlacesOK'
  BY <1>4 DEF SaveStep, ReadKey, MakeKey, WriteKey, Truncate, Write, Goes, Returns, KeyFails
<1>5. CASE GuiStarted \/ SetLogAndSave \/ Settled \/ Finish \/ Reload \/ Close
  BY <1>5 DEF GuiStarted, SetLogAndSave, Settled, Finish, Reload, Close, Goes, Save, copies
<1>6. ASSUME NEW kind \in {"theme", "bangumi", "log"}, NEW s, NEW shows,
             Request(kind, s, shows)
      PROVE  PlacesOK'
  BY <1>6 DEF Request, Begin, Goes
<1>7. CASE CliStarted /\ ~Ends("cli")
  BY <1>7 DEF CliStarted, Goes, copies
<1>8. ASSUME NEW secret, SaveOAuthApplication(secret) PROVE PlacesOK'
  BY <1>8 DEF SaveOAuthApplication, Begin, Goes
<1>9. CASE UNCHANGED vars
  BY <1>9 DEF vars, copies
<1> QED
  BY <1>1, <1>2, <1>3, <1>4, <1>5, <1>6, <1>7, <1>8, <1>9, SettingsAssumption
  DEF Next, GuiNext, GuiWork, CliNext, Work, Killed, Closed, Exit, CliStarted,
      SetThemeMode, SaveBangumiSettings, SaveBangumiCacheSettings, SaveLogSettings

LEMMA KeysStep == KeysOK /\ [Next]_vars => KeysOK'
<1> SUFFICES ASSUME KeysOK, [Next]_vars PROVE KeysOK'
  OBVIOUS
<1> USE SettingsAssumption DEF KeysOK, NoKey, BadKey
<1>1. CASE UNCHANGED disk
  BY <1>1 DEF disk
<1>2. ASSUME NEW p \in Programs, SaveStep(p) PROVE KeysOK'
  <2>1. CASE ReadKey(p) \/ Truncate(p) \/ Write(p)
    BY <2>1 DEF ReadKey, Truncate, Write, disk
  <2>2. CASE MakeKey(p)
    BY <2>2 DEF MakeKey, KeyFails
  <2>3. CASE WriteKey(p)
    BY <2>3 DEF WriteKey, KeyFails
  <2> QED BY <1>2, <2>1, <2>2, <2>3 DEF SaveStep
<1>3. ASSUME NEW p \in Programs, ~SaveStep(p), Start(p) \/ Killed(p) \/ Work(p)
      PROVE  UNCHANGED disk
  BY <1>3 DEF Work, Start, Killed, Read, Unlock, SetAndSave
<1>4. CASE GuiStarted \/ SetLogAndSave \/ Settled \/ Finish \/ Closed \/ Reload \/ Close
  BY <1>1, <1>4 DEF GuiStarted, SetLogAndSave, Settled, Finish, Closed, Reload, Close
<1>5. ASSUME NEW kind, NEW s, NEW shows, Request(kind, s, shows) PROVE UNCHANGED disk
  BY <1>5 DEF Request
<1>6. CASE CliStarted \/ Exit \/ \E secret \in Secrets : SaveOAuthApplication(secret)
  BY <1>1, <1>6 DEF CliStarted, Exit, SaveOAuthApplication
<1>7. CASE UNCHANGED vars
  BY <1>1, <1>7 DEF vars
<1> QED
  BY <1>1, <1>2, <1>3, <1>4, <1>5, <1>6, <1>7
  DEF Next, GuiNext, GuiWork, CliNext, Work,
      SetThemeMode, SaveBangumiSettings, SaveBangumiCacheSettings, SaveLogSettings

LEMMA SaveCopies ==
    ASSUME CopiesOK, NEW p \in Programs, NEW s \in Settings, Save(p, s),
           UNCHANGED <<file, prev, want>>
    PROVE  CopiesOK'
BY PlainType DEF Save, CopiesOK

LEMMA EndsCopies ==
    ASSUME CopiesOK, NEW p \in Programs, Ends(p), UNCHANGED file
    PROVE  CopiesOK'
BY DefaultsType DEF Ends, CopiesOK

LEMMA CopiesStep == KeysOK /\ CopiesOK /\ [Next]_vars => CopiesOK'
<1> SUFFICES ASSUME KeysOK, CopiesOK, [Next]_vars PROVE CopiesOK'
  OBVIOUS
<1>0. "gui" \in Programs
  BY SettingsAssumption
<1>1. ASSUME NEW p \in Programs, Start(p) PROVE CopiesOK'
  <2>1. CASE UNCHANGED <<mem, doc>>
    BY <1>1, <2>1 DEF Start, disk, CopiesOK
  <2>2. CASE Save(p, Defaults)
    BY <1>1, <2>2, SaveCopies, DefaultsType DEF Start, disk
  <2> QED BY <1>1, <2>1, <2>2 DEF Start
<1>2. ASSUME NEW p \in Programs, Ends(p), UNCHANGED disk PROVE CopiesOK'
  BY <1>2, EndsCopies DEF disk
<1>3. ASSUME NEW p \in Programs, Read(p) PROVE CopiesOK'
  BY <1>3 DEF Read, disk, CopiesOK
<1>4. ASSUME NEW p \in Programs, Unlock(p) PROVE CopiesOK'
  <2>1. Unsealed(doc[p], keyFile) \in Settings
    BY UnsealedType DEF CopiesOK, KeysOK
  <2>2. CASE Save(p, Unsealed(doc[p], keyFile))
    BY <1>4, <2>1, <2>2, SaveCopies DEF Unlock, disk
  <2>3. CASE UNCHANGED <<mem, doc>>
    BY <1>4, <2>3 DEF Unlock, disk, CopiesOK
  <2> QED BY <1>4, <2>2, <2>3 DEF Unlock
<1>5. ASSUME NEW p \in Programs, SetAndSave(p) PROVE CopiesOK'
  <2>1. want[p] \in Settings
    BY DEF CopiesOK
  <2> QED BY <1>5, <2>1, SaveCopies DEF SetAndSave, disk
<1>6. ASSUME NEW p \in Programs, SaveStep(p) PROVE CopiesOK'
  <2>1. ASSUME NEW k \in Nat, SealWith(p, k), UNCHANGED <<file, mem, prev, want>>
        PROVE  CopiesOK'
    <3>1. Sealed(doc[p], k) \in Readables
      BY SealedType DEF CopiesOK
    <3> QED BY <2>1, <3>1 DEF SealWith, CopiesOK
  <2>2. CASE UNCHANGED <<file, doc, mem, prev, want>>
    BY <2>2 DEF CopiesOK
  <2>3. CASE ReadKey(p)
    <3>1. CASE SealWith(p, keyFile)
      BY <2>1, <2>3, <3>1 DEF ReadKey, disk, KeysOK
    <3>2. CASE UNCHANGED doc
      BY <2>2, <2>3, <3>2 DEF ReadKey, disk
    <3> QED BY <2>3, <3>1, <3>2 DEF ReadKey
  <2>4. CASE MakeKey(p)
    BY <2>2, <2>4 DEF MakeKey, KeyFails
  <2>5. CASE WriteKey(p)
    <3>1. CASE KeyFails(p)
      BY <2>2, <2>5, <3>1 DEF WriteKey, KeyFails
    <3>2. CASE keysMade' = keysMade + 1 /\ SealWith(p, keysMade')
      <4>1. keysMade' \in Nat
        BY <3>2 DEF KeysOK
      <4> QED BY <2>1, <2>5, <3>2, <4>1 DEF WriteKey
    <3> QED BY <2>5, <3>1, <3>2 DEF WriteKey
  <2>5a. file' \in Readables /\ UNCHANGED <<doc, mem, prev, want>> => CopiesOK'
    BY DEF CopiesOK
  <2>6. CASE Truncate(p)
    BY <2>6, <2>5a, NoFileType DEF Truncate, CopiesOK
  <2>7. CASE Write(p)
    <3>1. doc[p] \in Readables /\ file \in Readables
      BY DEF CopiesOK
    <3> QED BY <2>7, <3>1, <2>5a, NoFileType DEF Write
  <2> QED BY <1>6, <2>3, <2>4, <2>5, <2>6, <2>7 DEF SaveStep
<1>7. CASE GuiStarted \/ Finish \/ Reload \/ Close
  BY <1>7 DEF GuiStarted, Finish, Reload, Close, copies, disk, CopiesOK
<1>8. CASE SetLogAndSave
  <2>1. want["gui"] \in Settings
    BY <1>0 DEF CopiesOK
  <2>2. CASE Save("gui", want["gui"])
    BY <1>0, <1>8, <2>1, <2>2, SaveCopies DEF SetLogAndSave, disk
  <2>3. CASE UNCHANGED <<mem, doc>>
    BY <1>8, <2>3 DEF SetLogAndSave, disk, CopiesOK
  <2> QED BY <1>8, <2>2, <2>3 DEF SetLogAndSave
<1>9. CASE Settled
  BY <1>0, <1>9 DEF Settled, disk, CopiesOK
<1>10. ASSUME NEW p \in Programs, NEW s \in Settings,
              prev' = [prev EXCEPT ![p] = mem[p]], want' = [want EXCEPT ![p] = s],
              UNCHANGED <<disk, mem, doc>>
       PROVE  CopiesOK'
  BY <1>10 DEF disk, CopiesOK
<1>11. ASSUME NEW p \in Programs PROVE
         /\ mem[p] \in Settings
         /\ \A theme \in {"system", "dark"} : [mem[p] EXCEPT !.theme = theme] \in Settings
         /\ \A secret \in Secrets : [mem[p] EXCEPT !.secret = secret] \in Settings
         /\ \A enabled \in BOOLEAN : [mem[p] EXCEPT !.cache = enabled] \in Settings
         /\ \A log \in {"info", "debug"} : [mem[p] EXCEPT !.log = log] \in Settings
  <2>1. mem[p] \in Settings
    BY DEF CopiesOK
  <2> QED BY <2>1 DEF Settings
<1>12. CASE \E theme \in {"system", "dark"} : SetThemeMode(theme)
  BY <1>0, <1>10, <1>11, <1>12 DEF SetThemeMode, Request
<1>13. CASE \E secret \in Secrets : SaveBangumiSettings(secret)
  BY <1>0, <1>10, <1>11, <1>13 DEF SaveBangumiSettings, Request
<1>14. CASE \E enabled \in BOOLEAN : SaveBangumiCacheSettings(enabled)
  BY <1>0, <1>10, <1>11, <1>14 DEF SaveBangumiCacheSettings, Request
<1>15. CASE \E log \in {"info", "debug"} : SaveLogSettings(log)
  BY <1>0, <1>10, <1>11, <1>15 DEF SaveLogSettings, Request
<1>16. ASSUME "cli" \in Programs, NEW secret \in Secrets, SaveOAuthApplication(secret)
       PROVE  CopiesOK'
  BY <1>10, <1>11, <1>16 DEF SaveOAuthApplication
<1>17. CASE CliStarted /\ ~Ends("cli")
  BY <1>17 DEF CliStarted, disk, copies, CopiesOK
<1>18. CASE UNCHANGED vars
  BY <1>18 DEF vars, disk, copies, CopiesOK
<1>19. ASSUME NEW p \in Programs, Killed(p) PROVE CopiesOK'
  BY <1>2, <1>19 DEF Killed
<1>20. CASE Closed
  BY <1>0, <1>2, <1>20 DEF Closed
<1>21. ASSUME "cli" \in Programs, Exit \/ CliStarted PROVE CopiesOK'
  BY <1>2, <1>17, <1>21 DEF Exit, CliStarted
<1> QED
  BY <1>0, <1>1, <1>3, <1>4, <1>5, <1>6, <1>7, <1>8, <1>9, <1>12, <1>13, <1>14, <1>15,
     <1>16, <1>18, <1>19, <1>20, <1>21
  DEF Next, GuiNext, GuiWork, CliNext, Work

LEMMA SnapshotType ==
    ASSUME ShownOK, NEW s \in Settings
    PROVE  /\ Snapshot(s) \in Page
           /\ [Snapshot(s) EXCEPT !.saving = FALSE, !.closing = FALSE] \in Page
BY DEF ShownOK, Snapshot, Page, Settings

LEMMA ConfiguredType ==
    ASSUME ShownOK, NEW log \in Logs, NEW given \in Logs \cup {"none"},
           Configured(log, given)
    PROVE  sink' \in Sinks
<1> USE DEF Sinks
<1>1. sink \in Sinks
  BY DEF ShownOK
<1>2. [sink EXCEPT !.failed = TRUE] \in Sinks
  BY <1>1
<1>3. [log |-> log, failed |-> FALSE, given |-> given] \in Sinks
  OBVIOUS
<1> QED BY <1>2, <1>3 DEF Configured

LEMMA ShownStep == PlacesOK /\ CopiesOK /\ ShownOK /\ [Next]_vars => ShownOK'
<1> SUFFICES ASSUME PlacesOK, CopiesOK, ShownOK, [Next]_vars PROVE ShownOK'
  OBVIOUS
<1>0. /\ mem["gui"] \in Settings /\ prev["gui"] \in Settings /\ want["gui"] \in Settings
      /\ mem["gui"].log \in Logs /\ prev["gui"].log \in Logs /\ want["gui"].log \in Logs
      /\ mem["gui"].secret \in Secrets \cup {NoSecret}
      /\ prev["gui"].theme \in {"system", "dark"}
  BY SettingsAssumption DEF CopiesOK, Settings, Logs
<1>1. CASE UNCHANGED shown
  BY <1>1 DEF shown, ShownOK
<1>2. ASSUME NEW p \in Programs, Ends(p) PROVE ShownOK'
  <2>1. NewPage \in Page /\ NewApp \in [loaded : BOOLEAN, secret : Secrets \cup {NoSecret}]
        /\ NewSink \in Sinks
    BY DEF NewPage, NewApp, NewSink, Page, Logs, Sinks
  <2> QED BY <1>1, <1>2, <2>1 DEF Ends, ShownOK
<1>3. ASSUME NEW p \in Programs, Start(p) \/ Work(p) PROVE UNCHANGED shown
  BY <1>3 DEF Work, Start, Read, Unlock, SetAndSave, SaveStep, ReadKey, MakeKey, WriteKey,
     Truncate, Write
<1>4. CASE GuiStarted
  <2>1. page' \in Page
    BY <1>0, <1>4, SnapshotType DEF GuiStarted
  <2>2. app' \in [loaded : BOOLEAN, secret : Secrets \cup {NoSecret}]
    <3>1. ok["gui"] \in BOOLEAN
      BY SettingsAssumption DEF PlacesOK
    <3> QED BY <1>0, <1>4, <3>1 DEF GuiStarted
  <2>3. sink' \in Sinks
    <3>1. PICK given \in {"none", "info", "debug"} :
              Configured(CASE given # "none" -> given
                           [] given = "none" /\ ok["gui"] -> mem["gui"].log
                           [] OTHER -> Defaults.log,
                         given)
      BY <1>4 DEF GuiStarted
    <3>2. given \in Logs \cup {"none"} /\ Defaults.log \in Logs
      BY DEF Defaults, Logs
    <3>3. (CASE given # "none" -> given
             [] given = "none" /\ ok["gui"] -> mem["gui"].log
             [] OTHER -> Defaults.log) \in Logs
      BY <1>0, <3>2
    <3> QED BY <3>1, <3>2, <3>3, ConfiguredType
  <2> QED BY <2>1, <2>2, <2>3 DEF ShownOK
<1>5. CASE SetLogAndSave \/ Settled
  <2>1. ASSUME NEW log \in Logs, Configured(log, "none") PROVE sink' \in Sinks
    BY <2>1, ConfiguredType
  <2> QED BY <1>0, <1>5, <2>1 DEF SetLogAndSave, Settled, ShownOK
<1>6. CASE Finish
  <2>1. Answered \in Page
    <3>1. page \in Page /\ Snapshot(mem["gui"]) \in Page
      BY <1>0, SnapshotType DEF ShownOK
    <3>2. [page EXCEPT !.theme = IF ok["gui"] THEN @ ELSE page.before] \in Page
      BY <1>0, <3>1 DEF Page
    <3>3. [page EXCEPT !.secret = mem["gui"].secret, !.cache = mem["gui"].cache] \in Page
      BY <1>0, <3>1 DEF Page, Settings
    <3> QED BY <3>1, <3>2, <3>3 DEF Answered
  <2>2. page' \in Page
    BY <1>6, <2>1 DEF Finish, Page
  <2>3. app' \in [loaded : BOOLEAN, secret : Secrets \cup {NoSecret}]
    BY <1>0, <1>6 DEF Finish, ShownOK
  <2> QED BY <1>6, <2>2, <2>3 DEF Finish, ShownOK
<1>7. CASE Reload
  BY <1>0, <1>7, SnapshotType DEF Reload, ShownOK
<1>8. CASE Close
  BY <1>8 DEF Close, ShownOK, Page
<1>9. ASSUME NEW kind, NEW s, NEW shows \in Page, Request(kind, s, shows)
      PROVE  ShownOK'
  BY <1>9 DEF Request, ShownOK, Page
<1>10. CASE \E theme \in {"system", "dark"} : SetThemeMode(theme)
  <2>1. ASSUME NEW theme \in {"system", "dark"}
        PROVE  [page EXCEPT !.theme = theme, !.before = page.theme] \in Page
    BY DEF ShownOK, Page
  <2> QED BY <1>9, <1>10, <2>1 DEF SetThemeMode
<1>11. ASSUME NEW kind, NEW s, Request(kind, s, page) PROVE ShownOK'
  <2>1. page \in Page
    BY DEF ShownOK
  <2> QED BY <1>9, <1>11, <2>1
<1>12. ASSUME NEW p \in Programs, Killed(p) PROVE ShownOK'
  BY <1>2, <1>12 DEF Killed
<1>13. CASE Closed
  BY <1>2, <1>13, SettingsAssumption DEF Closed
<1>14. ASSUME "cli" \in Programs, Exit \/ CliStarted PROVE ShownOK'
  BY <1>1, <1>2, <1>14 DEF Exit, CliStarted
<1>15. ASSUME NEW secret, SaveOAuthApplication(secret) PROVE UNCHANGED shown
  BY <1>15 DEF SaveOAuthApplication
<1>16. CASE UNCHANGED vars
  BY <1>1, <1>16 DEF vars
<1> QED
  BY <1>1, <1>3, <1>4, <1>5, <1>6, <1>7, <1>8, <1>10, <1>11, <1>12, <1>13, <1>14, <1>15,
     <1>16, SettingsAssumption
  DEF Next, GuiNext, GuiWork, CliNext, SaveBangumiSettings, SaveBangumiCacheSettings,
      SaveLogSettings

LEMMA TypesStep == TypesInv /\ [Next]_vars => TypesInv'
BY PlacesStep, KeysStep, CopiesStep, ShownStep DEF TypesInv

------------------------------------------------------------------------------
(* The desktop application.                                                *)

\* What the invariant is about, apart from what programs share.
GuiSame ==
    /\ at'["gui"] = at["gui"] /\ job'["gui"] = job["gui"] /\ ok'["gui"] = ok["gui"]
    /\ mem'["gui"] = mem["gui"] /\ prev'["gui"] = prev["gui"] /\ want'["gui"] = want["gui"]
    /\ page' = page /\ app' = app /\ sink' = sink

LEMMA SameKeeps == GuiInv /\ GuiSame => GuiInv'
BY DEF GuiSame, GuiInv, JobInv, SavingInv, LogInv, IdleInv, IdleLogInv, LogWanted, Saving, UserSaves,
   Shown, OnlyWhatIsSaved, InMemory

\* What the command line does concerns the files only.
LEMMA CliKeeps ==
    ASSUME TypesInv, NEW p \in Programs \ {"gui"}, Start(p) \/ Work(p) \/ Ends(p)
    PROVE  GuiSame
<1> USE SettingsAssumption DEF GuiSame, TypesInv, PlacesOK, CopiesOK
<1>1. CASE Start(p)
  BY <1>1 DEF Start, Begin, Save, Goes, shown
<1>2. CASE Ends(p)
  BY <1>2 DEF Ends, Goes, shown
<1>3. CASE Read(p) \/ Unlock(p) \/ SetAndSave(p)
  BY <1>3 DEF Read, Unlock, SetAndSave, Save, Goes, Returns, shown
<1>4. CASE SaveStep(p)
  BY <1>4 DEF SaveStep, ReadKey, MakeKey, WriteKey, Truncate, Write, Goes, Returns, KeyFails,
     shown
<1> QED BY <1>1, <1>2, <1>3, <1>4 DEF Work

LEMMA CliCommandKeeps ==
    ASSUME TypesInv, "cli" \in Programs,
           CliStarted \/ Exit \/ \E secret \in Secrets : SaveOAuthApplication(secret)
    PROVE  GuiSame
<1> USE SettingsAssumption DEF GuiSame, TypesInv, PlacesOK, CopiesOK
<1>1. CASE Ends("cli")
  BY <1>1, CliKeeps
<1>2. CASE CliStarted /\ ~Ends("cli")
  BY <1>2 DEF CliStarted, Goes, copies, shown
<1>3. ASSUME NEW secret, SaveOAuthApplication(secret) PROVE GuiSame
  BY <1>3 DEF SaveOAuthApplication, Begin, Goes, shown
<1> QED BY <1>1, <1>2, <1>3 DEF CliStarted, Exit

\* Places at which a save, or the start, is on its way to the file.
Writing == {"key", "makeKey", "writeKey", "open", "write", "back"}

\* A start begins, goes on or ends, or the application is over: no save of the
\* page is under way.
LEMMA NotSaving ==
    ASSUME at'["gui"] \in {"off", "read", "unlock"} \cup Writing,
           job'["gui"] \in {"load", "create"}
    PROVE  GuiInv'
BY DEF GuiInv, JobInv, SavingInv, LogInv, IdleInv, IdleLogInv, LogWanted, Saving, UserSaves, Writing

\* The page has shown what is in memory, and the application follows it.
LEMMA Settling ==
    ASSUME at'["gui"] = "idle", job'["gui"] # "application",
           Shown(mem["gui"].theme, mem["gui"])', ~page'.saving,
           app'.loaded =>
             app'.secret = page'.secret /\ (sink.failed \/ sink.log = LogWanted)'
    PROVE  GuiInv'
BY DEF GuiInv, JobInv, SavingInv, LogInv, IdleInv, IdleLogInv, LogWanted, Saving, Shown

LEMMA StartKeeps ==
    ASSUME IInv, NEW p, p = "gui", Start(p) \/ Ends(p) \/ Read(p) \/ Unlock(p)
    PROVE  GuiInv'
<1> USE SettingsAssumption DEF IInv, TypesInv, PlacesOK, Writing
<1>1. CASE Start(p)
  <2>1. at'["gui"] \in {"key", "read"} /\ job'["gui"] \in {"load", "create"}
    BY <1>1 DEF Start, Begin, Save, Goes
  <2> QED BY <2>1, NotSaving
<1>2. CASE Ends(p)
  <2>1. at'["gui"] = "off" /\ job'["gui"] = "load"
    BY <1>2 DEF Ends, Goes
  <2> QED BY <2>1, NotSaving
<1>3. CASE Read(p) \/ Unlock(p)
  <2>1. job["gui"] \in {"load", "create"}
    BY <1>3 DEF Read, Unlock, GuiInv, JobInv, UserSaves
  <2>2. at'["gui"] \in {"unlock", "back", "key"} /\ job'["gui"] = job["gui"]
    BY <1>3 DEF Read, Unlock, Save, Goes, Returns
  <2> QED BY <2>1, <2>2, NotSaving
<1> QED BY <1>1, <1>2, <1>3

\* Sealing and writing touch neither the settings nor what follows them.
LEMMA WritingKeeps ==
    ASSUME IInv, NEW p, p = "gui", SaveStep(p)
    PROVE  GuiInv'
<1> USE SettingsAssumption DEF IInv, TypesInv, PlacesOK, Writing
<1>1. /\ at["gui"] \in Writing \ {"back"} /\ at'["gui"] \in Writing
      /\ job' = job /\ mem' = mem /\ prev' = prev /\ want' = want
      /\ page' = page /\ app' = app /\ sink' = sink
  BY DEF SaveStep, ReadKey, MakeKey, WriteKey, Truncate, Write, Goes, Returns, KeyFails, shown
<1> QED
  BY <1>1 DEF GuiInv, JobInv, SavingInv, LogInv, IdleInv, IdleLogInv, LogWanted, Saving, UserSaves, Shown,
     OnlyWhatIsSaved, InMemory

LEMMA SettingKeeps ==
    ASSUME IInv, NEW p, p = "gui", SetAndSave(p) \/ SetLogAndSave
    PROVE  GuiInv'
<1> USE SettingsAssumption DEF IInv, TypesInv
<1>1. at["gui"] = "set" /\ Saving /\ mem["gui"] = prev["gui"]
  BY DEF SetAndSave, SetLogAndSave, GuiInv, JobInv, SavingInv, Saving, InMemory
<1>2. /\ job' = job /\ prev' = prev /\ want' = want /\ page' = page /\ app' = app
  BY DEF SetAndSave, SetLogAndSave, shown
<1>3. JobInv'
  BY <1>1, <1>2 DEF SetAndSave, SetLogAndSave, PlacesOK, GuiInv, JobInv, Save, Goes, UserSaves,
     Saving
<1>4. \/ at'["gui"] = "key" /\ mem'["gui"] = want["gui"]
      \/ at'["gui"] = "done" /\ mem'["gui"] = prev["gui"] /\ ~ok'["gui"]
  BY <1>1 DEF SetAndSave, SetLogAndSave, PlacesOK, CopiesOK, Save, Goes
<1>5. SavingInv'
  BY <1>1, <1>2, <1>4 DEF GuiInv, SavingInv, Saving, UserSaves, Shown, OnlyWhatIsSaved,
     InMemory
<1>6. LogInv'
  <2>1. CASE SetAndSave(p)
    <3>1. sink' = sink /\ job["gui"] # "log" /\ mem'["gui"] = want["gui"]
      BY <1>4, <2>1 DEF SetAndSave, shown, PlacesOK, CopiesOK, Save
    <3>2. want["gui"].log = mem["gui"].log
      BY <1>1, <3>1 DEF GuiInv, SavingInv, OnlyWhatIsSaved
    <3> QED BY <1>1, <1>2, <3>1, <3>2 DEF GuiInv, LogInv, LogWanted
  <2>2. CASE SetLogAndSave
    <3>1. \/ sink'.failed
          \/ sink'.log = want["gui"].log /\ ~sink'.failed /\ sink'.given = "none"
      BY <2>2 DEF SetLogAndSave, Configured, ShownOK, Sinks
    <3>2. ~sink'.failed => mem'["gui"] = want["gui"]
      BY <2>2 DEF SetLogAndSave, CopiesOK, Save
    <3> QED BY <3>1, <3>2 DEF LogInv, LogWanted
  <2> QED BY <2>1, <2>2
<1>7. at'["gui"] # "idle"
  BY <1>4
<1> QED BY <1>3, <1>5, <1>6, <1>7 DEF GuiInv, IdleInv, IdleLogInv

LEMMA SettledKeeps ==
    ASSUME IInv, Settled
    PROVE  GuiInv'
<1> USE SettingsAssumption DEF IInv, TypesInv
<1>1. /\ at["gui"] = "back" /\ Saving /\ mem["gui"] = want["gui"]
      /\ at'["gui"] = "done"
      /\ job' = job /\ prev' = prev /\ want' = want /\ ok' = ok /\ page' = page /\ app' = app
      /\ mem'["gui"] = IF ok["gui"] THEN want["gui"] ELSE prev["gui"]
  BY DEF Settled, GuiInv, SavingInv, Saving, InMemory, PlacesOK, CopiesOK, Goes
<1>2. JobInv'
  BY <1>1 DEF GuiInv, JobInv, UserSaves, Saving
<1>3. SavingInv'
  BY <1>1 DEF GuiInv, SavingInv, Saving, UserSaves, Shown, OnlyWhatIsSaved, InMemory
<1>4. LogInv'
  <2>1. CASE ~ok["gui"] /\ job["gui"] = "log"
    <3>1. sink'.failed \/ (sink'.log = prev["gui"].log /\ sink'.given = "none")
      BY <2>1 DEF Settled, Configured, ShownOK, Sinks
    <3> QED BY <1>1, <2>1, <3>1 DEF LogInv, LogWanted
  <2>2. CASE ~(~ok["gui"] /\ job["gui"] = "log")
    <3>1. sink' = sink
      BY <2>2 DEF Settled
    <3>2. mem'["gui"].log = mem["gui"].log
      BY <1>1, <2>2 DEF GuiInv, SavingInv, OnlyWhatIsSaved
    <3> QED BY <1>1, <3>1, <3>2 DEF GuiInv, LogInv, LogWanted
  <2> QED BY <2>1, <2>2
<1> QED BY <1>1, <1>2, <1>3, <1>4 DEF GuiInv, IdleInv, IdleLogInv

LEMMA FinishKeeps ==
    ASSUME IInv, Finish
    PROVE  GuiInv'
<1> USE SettingsAssumption DEF IInv, TypesInv
<1>1. /\ at["gui"] = "done" /\ Saving /\ at'["gui"] = "idle"
      /\ job' = job /\ mem' = mem /\ sink' = sink
      /\ mem["gui"] = IF ok["gui"] THEN want["gui"] ELSE prev["gui"]
      /\ job["gui"] \in {"theme", "bangumi", "log"}
      /\ ok["gui"] \in BOOLEAN
  BY DEF Finish, copies, GuiInv, JobInv, SavingInv, Saving, InMemory, PlacesOK, UserSaves, Goes
<1>2. /\ Shown(IF job["gui"] = "theme" THEN want["gui"].theme ELSE prev["gui"].theme, prev["gui"])
      /\ job["gui"] = "theme" => page.before = prev["gui"].theme
      /\ OnlyWhatIsSaved
      /\ app.loaded => app.secret = prev["gui"].secret
  BY <1>1 DEF GuiInv, SavingInv
<1>3. page' = [Answered EXCEPT !.saving = FALSE] /\ page \in Page
  BY DEF Finish, ShownOK
<1>4. /\ page'.theme = mem["gui"].theme /\ page'.secret = mem["gui"].secret
      /\ page'.cache = mem["gui"].cache /\ page'.log = mem["gui"].log
      /\ ~page'.saving
  <2>1. CASE job["gui"] = "theme"
    <3>1. Answered = [page EXCEPT !.theme = IF ok["gui"] THEN @ ELSE page.before]
      BY <2>1 DEF Answered
    <3> QED BY <1>1, <1>2, <1>3, <2>1, <3>1 DEF Shown, OnlyWhatIsSaved, Page
  <2>2. CASE job["gui"] = "bangumi"
    <3>1. Answered =
            IF ok["gui"]
            THEN [page EXCEPT !.secret = mem["gui"].secret, !.cache = mem["gui"].cache]
            ELSE page
      BY <2>2 DEF Answered
    <3> QED BY <1>1, <1>2, <1>3, <2>2, <3>1 DEF Shown, OnlyWhatIsSaved, Page
  <2>3. CASE job["gui"] = "log"
    <3>1. Answered = IF ok["gui"] THEN Snapshot(mem["gui"]) ELSE page
      BY <2>3 DEF Answered
    <3> QED BY <1>1, <1>2, <1>3, <2>3, <3>1 DEF Snapshot, Shown, OnlyWhatIsSaved, Page
  <2> QED BY <1>1, <2>1, <2>2, <2>3
<1>5. app'.loaded => app'.secret = mem["gui"].secret
  <2>1. CASE job["gui"] = "bangumi" /\ ok["gui"]
    BY <2>1 DEF Finish, ShownOK
  <2>2. CASE ~(job["gui"] = "bangumi" /\ ok["gui"])
    <3>1. app' = app
      BY <2>2 DEF Finish
    <3>2. mem["gui"].secret = prev["gui"].secret
      BY <1>1, <1>2, <2>2 DEF OnlyWhatIsSaved
    <3> QED BY <1>2, <3>1, <3>2
  <2> QED BY <2>1, <2>2
<1>6. app'.loaded => (sink.failed \/ sink.log = LogWanted)'
  <2>1. app'.loaded => app.loaded
    BY DEF Finish, ShownOK
  <2> QED BY <1>1, <2>1 DEF GuiInv, LogInv, LogWanted
<1> QED BY <1>1, <1>4, <1>5, <1>6, Settling DEF Shown, GuiInv, JobInv

LEMMA StartedKeeps ==
    ASSUME IInv, GuiStarted \/ Reload \/ Close
    PROVE  GuiInv'
<1> USE SettingsAssumption DEF IInv, TypesInv
<1>0. mem["gui"] \in Settings /\ page \in Page
  BY DEF CopiesOK, ShownOK
<1>1. CASE GuiStarted
  <2>1. /\ at'["gui"] = "idle" /\ job' = job /\ mem' = mem
        /\ Shown(mem["gui"].theme, mem["gui"])' /\ ~page'.saving
    BY <1>0, <1>1 DEF GuiStarted, copies, PlacesOK, Goes, Shown, Snapshot, Page
  <2>2. app'.loaded <=> ok["gui"]
    BY <1>1 DEF GuiStarted, PlacesOK
  <2>3. ok["gui"] => app'.secret = mem["gui"].secret
    BY <1>1 DEF GuiStarted, ShownOK
  <2>4. ok["gui"] => (sink.failed \/ sink.log = LogWanted)'
    BY <1>1, <2>1 DEF GuiStarted, Configured, ShownOK, Sinks, LogWanted
  <2> QED BY <2>1, <2>2, <2>3, <2>4, Settling DEF Shown, GuiInv, JobInv
<1>2. CASE Reload
  <2>1. /\ at["gui"] = "idle" /\ at' = at /\ job' = job /\ mem' = mem /\ app' = app
        /\ sink' = sink /\ ~page.saving
    BY <1>2 DEF Reload, copies
  <2>2. Shown(mem["gui"].theme, mem["gui"])' /\ ~page'.saving
    BY <1>0, <1>2, <2>1 DEF Reload, Shown, Snapshot, Page
  <2>3. app.loaded => app.secret = mem["gui"].secret
    BY <2>1 DEF GuiInv, IdleInv, Shown
  <2> QED BY <2>1, <2>2, <2>3, Settling DEF Shown, GuiInv, JobInv, IdleLogInv, LogWanted
<1>3. CASE Close
  <2>1. /\ at' = at /\ job' = job /\ ok' = ok /\ mem' = mem /\ prev' = prev /\ want' = want
        /\ app' = app /\ sink' = sink
    BY <1>3 DEF Close, copies
  <2>2. /\ page'.theme = page.theme /\ page'.secret = page.secret /\ page'.cache = page.cache
        /\ page'.log = page.log /\ page'.saving = page.saving
        /\ page'.before = page.before
    BY <1>0, <1>3 DEF Close, Page
  <2> QED
    BY <2>1, <2>2 DEF GuiInv, JobInv, SavingInv, LogInv, IdleInv, IdleLogInv, LogWanted, Saving, UserSaves,
       Shown, OnlyWhatIsSaved, InMemory
<1> QED BY <1>1, <1>2, <1>3

LEMMA RequestKeeps ==
    ASSUME IInv, NEW kind \in {"theme", "bangumi", "log"}, NEW s \in Settings,
           NEW shows \in Page, Request(kind, s, shows),
           kind # "theme" => s.theme = mem["gui"].theme,
           kind # "log" => s.log = mem["gui"].log,
           kind # "bangumi" => s.secret = mem["gui"].secret /\ s.cache = mem["gui"].cache,
           shows.theme = s.theme, shows.secret = page.secret, shows.cache = page.cache,
           shows.log = page.log,
           kind = "theme" => shows.before = mem["gui"].theme
    PROVE  GuiInv'
<1> USE SettingsAssumption DEF IInv, TypesInv
<1>1. /\ at["gui"] = "idle" /\ at'["gui"] = "set" /\ job'["gui"] = kind
      /\ mem' = mem /\ prev'["gui"] = mem["gui"] /\ want'["gui"] = s
      /\ app' = app /\ sink' = sink
  BY DEF Request, Begin, Goes, PlacesOK, CopiesOK
<1>2. /\ page'.theme = s.theme /\ page'.secret = page.secret
      /\ page'.cache = page.cache /\ page'.log = page.log
      /\ page'.before = shows.before
  BY DEF Request, Page
<1>3. /\ page.secret = mem["gui"].secret /\ page.cache = mem["gui"].cache
      /\ page.log = mem["gui"].log
      /\ app.loaded => app.secret = mem["gui"].secret
      /\ app.loaded => sink.failed \/ sink.log = LogWanted
  BY <1>1 DEF GuiInv, IdleInv, IdleLogInv, Shown
<1>4. JobInv' /\ IdleInv' /\ IdleLogInv'
  BY <1>1 DEF JobInv, IdleInv, IdleLogInv, UserSaves
<1>5. SavingInv'
  BY <1>1, <1>2, <1>3 DEF SavingInv, Saving, UserSaves, Shown, OnlyWhatIsSaved, InMemory
<1>6. LogInv'
  BY <1>1, <1>3 DEF LogInv, LogWanted
<1> QED BY <1>4, <1>5, <1>6 DEF GuiInv

LEMMA RequestsKeep ==
    ASSUME IInv,
           \/ \E theme \in {"system", "dark"} : SetThemeMode(theme)
           \/ \E secret \in Secrets : SaveBangumiSettings(secret)
           \/ \E enabled \in BOOLEAN : SaveBangumiCacheSettings(enabled)
           \/ \E log \in {"info", "debug"} : SaveLogSettings(log)
    PROVE  GuiInv'
<1>0. mem["gui"] \in Settings /\ page \in Page
  BY SettingsAssumption DEF IInv, TypesInv, CopiesOK, ShownOK
<1>1. ASSUME NEW kind, NEW s, NEW shows, Request(kind, s, shows)
      PROVE  page.theme = mem["gui"].theme
  BY <1>1 DEF Request, IInv, GuiInv, IdleInv, Shown
<1>2. ASSUME NEW theme \in {"system", "dark"}, SetThemeMode(theme) PROVE GuiInv'
  <2> DEFINE s == [mem["gui"] EXCEPT !.theme = theme]
             shows == [page EXCEPT !.theme = theme, !.before = page.theme]
  <2>1. s \in Settings /\ shows \in Page
    BY <1>0 DEF Settings, Page
  <2>2. /\ s.log = mem["gui"].log /\ s.secret = mem["gui"].secret /\ s.cache = mem["gui"].cache
        /\ shows.theme = s.theme /\ shows.secret = page.secret /\ shows.cache = page.cache
        /\ shows.log = page.log /\ shows.before = page.theme
    BY <1>0 DEF Settings, Page
  <2>3. Request("theme", s, shows)
    BY <1>2 DEF SetThemeMode
  <2> HIDE DEF s, shows
  <2> QED BY <1>1, <2>1, <2>2, <2>3, RequestKeeps
<1>3. ASSUME NEW secret \in Secrets, SaveBangumiSettings(secret) PROVE GuiInv'
  <2> DEFINE s == [mem["gui"] EXCEPT !.secret = secret]
  <2>1. s \in Settings /\ s.log = mem["gui"].log /\ s.theme = mem["gui"].theme
    BY <1>0 DEF Settings
  <2>2. Request("bangumi", s, page) /\ page.theme = mem["gui"].theme
    BY <1>1, <1>3 DEF SaveBangumiSettings
  <2> HIDE DEF s
  <2> QED BY <1>0, <2>1, <2>2, RequestKeeps
<1>4. ASSUME NEW enabled \in BOOLEAN, SaveBangumiCacheSettings(enabled) PROVE GuiInv'
  <2> DEFINE s == [mem["gui"] EXCEPT !.cache = enabled]
  <2>1. s \in Settings /\ s.log = mem["gui"].log /\ s.theme = mem["gui"].theme
    BY <1>0 DEF Settings
  <2>2. Request("bangumi", s, page) /\ page.theme = mem["gui"].theme
    BY <1>1, <1>4 DEF SaveBangumiCacheSettings
  <2> HIDE DEF s
  <2> QED BY <1>0, <2>1, <2>2, RequestKeeps
<1>5. ASSUME NEW log \in {"info", "debug"}, SaveLogSettings(log) PROVE GuiInv'
  <2> DEFINE s == [mem["gui"] EXCEPT !.log = log]
  <2>1. /\ s \in Settings /\ s.theme = mem["gui"].theme
        /\ s.secret = mem["gui"].secret /\ s.cache = mem["gui"].cache
    BY <1>0 DEF Settings
  <2>2. Request("log", s, page) /\ page.theme = mem["gui"].theme
    BY <1>1, <1>5 DEF SaveLogSettings
  <2> HIDE DEF s
  <2> QED BY <1>0, <2>1, <2>2, RequestKeeps
<1> QED BY <1>2, <1>3, <1>4, <1>5

LEMMA GuiStep == IInv /\ [Next]_vars => GuiInv'
<1> SUFFICES ASSUME IInv, [Next]_vars PROVE GuiInv'
  OBVIOUS
<1>0. TypesInv /\ GuiInv
  BY DEF IInv
<1>1. ASSUME NEW p \in Programs, Start(p) \/ Killed(p) \/ Work(p) PROVE GuiInv'
  <2>1. CASE p = "gui"
    <3>1. CASE Start(p) \/ Ends(p) \/ Read(p) \/ Unlock(p)
      BY <2>1, <3>1, StartKeeps
    <3>2. CASE SaveStep(p)
      BY <2>1, <3>2, WritingKeeps
    <3>3. CASE SetAndSave(p)
      BY <2>1, <3>3, SettingKeeps
    <3> QED BY <1>1, <3>1, <3>2, <3>3 DEF Killed, Work
  <2>2. CASE p # "gui"
    <3>1. p \in Programs \ {"gui"}
      BY <2>2
    <3>2. GuiSame
      BY <1>0, <1>1, <3>1, CliKeeps DEF Killed
    <3> QED BY <1>0, <3>2, SameKeeps
  <2> QED BY <2>1, <2>2
<1>2. CASE GuiNext
  <2>1. ASSUME Ends("gui") \/ SetLogAndSave PROVE GuiInv'
    BY <2>1, StartKeeps, SettingKeeps
  <2>2. ASSUME Work("gui") PROVE GuiInv'
    BY <1>1, <2>2, SettingsAssumption
  <2> QED
    BY <1>2, <2>1, <2>2, SettledKeeps, FinishKeeps, StartedKeeps, RequestsKeep
    DEF GuiNext, GuiWork, Closed
<1>3. CASE "cli" \in Programs /\ CliNext
  <2>1. ASSUME Work("cli") PROVE GuiInv'
    BY <1>1, <1>3, <2>1
  <2>2. ASSUME GuiSame PROVE GuiInv'
    BY <1>0, <2>2, SameKeeps
  <2>3. ASSUME CliStarted \/ Exit \/ \E secret \in Secrets : SaveOAuthApplication(secret)
        PROVE  GuiSame
    BY <1>0, <1>3, <2>3, CliCommandKeeps
  <2> QED BY <1>3, <2>1, <2>2, <2>3 DEF CliNext
<1>4. CASE UNCHANGED vars
  BY <1>0, <1>4, SameKeeps DEF GuiSame, vars, copies, shown
<1> QED BY <1>1, <1>2, <1>3, <1>4 DEF Next

LEMMA NextInv == IInv /\ [Next]_vars => IInv'
BY TypesStep, GuiStep DEF IInv

THEOREM Invariant == Spec => []IInv
BY InitInv, NextInv, PTL DEF Spec

\* Between two saves the page shows the settings in memory, however the saves
\* before ended.
THEOREM ShowsMemory == Spec => []PageShowsMemory
<1>1. IInv => PageShowsMemory
  <2> SUFFICES ASSUME IInv, at["gui"] = "idle"
               PROVE  page = Snapshot(mem["gui"]) /\ ~page.saving
    BY DEF PageShowsMemory
  <2>1. /\ page.theme = mem["gui"].theme /\ page.secret = mem["gui"].secret
        /\ page.cache = mem["gui"].cache /\ page.log = mem["gui"].log
        /\ ~page.saving /\ page \in Page
    BY DEF IInv, GuiInv, IdleInv, Shown, TypesInv, ShownOK
  <2> QED BY <2>1 DEF Snapshot, Page
<1> QED BY <1>1, Invariant, PTL

\* Between two saves the account module and the log follow the page.
THEOREM FollowsSettings == Spec => []AppFollowsSettings
<1>1. IInv => AppFollowsSettings
  BY DEF IInv, GuiInv, IdleInv, IdleLogInv, AppFollowsSettings
<1> QED BY <1>1, Invariant, PTL

-----------------------------------------------------------------------------
(* What was confirmed.                                                     *)

\* From the copy of the settings to the write, what is written is in memory.
Sealing == {"key", "makeKey", "writeKey", "open", "write"}
DocsInv ==
    \A p \in Programs :
        /\ doc[p].kind = "settings"
        /\ at[p] \in Sealing => doc[p].content = mem[p]
        /\ at[p] = "set" => UserSaves(p)

\* Unless two programs made a key at the same time, one key is made, after
\* which it stays, and what is sealed is sealed with it.
HasKey(d) == d.seal # NoKey => d.seal = keyFile /\ keyFile \in Keys
KeyInv ==
    ~keyRaced =>
      /\ HasKey(file) /\ \A p \in Programs : HasKey(doc[p])
      /\ keyFile \notin Keys => keysMade = 0
      /\ \A p \in Programs : at[p] = "writeKey" => keyFile = BadKey
      /\ \A p, q \in Programs : at[p] = "writeKey" /\ at[q] = "writeKey" => p = q

\* The file has what was confirmed, and so has every program that loads it and
\* is not older; only a program that is writing may have cut it.
Loaded(p) ==
    ~UserSaves(p) /\ p \notin stale =>
        /\ at[p] = "unlock" => doc[p].content = confirmed
        /\ at[p] \in Sealing => mem[p] = confirmed
FileInv ==
    /\ file.kind = "absent" => confirmed = Defaults
    /\ ~disturbed => file.kind = "settings" \/ \E p \in Programs : at[p] = "write"
    /\ ~disturbed /\ ~keyRaced =>
          /\ file.kind = "settings" => file.content = confirmed
          /\ \A p \in Programs : Loaded(p)

\* As long as nothing has failed, whoever finds no key makes one, and what is
\* saved is sealed.
SealInv ==
  /\ faults \in Nat
  /\ faults = 0 /\ ~keyRaced =>
      /\ keyFile = BadKey => \E p \in Programs : at[p] = "writeKey"
      /\ \A p \in Programs : at[p] \in {"open", "write"} => doc[p].seal # NoKey
      /\ ~disturbed /\ file.kind = "settings" => file.seal # NoKey

SInv == DocsInv /\ KeyInv /\ FileInv
LEMMA SInit == Init => SInv
<1> SUFFICES ASSUME Init PROVE SInv
  OBVIOUS
<1>1. DocsInv
  BY DEF Init, DocsInv, Plain, Sealing
<1>2. \A kind : NoFile(kind).kind = kind /\ NoFile(kind).seal = NoKey
  BY DEF NoFile
<1>3. \A s : Plain(s).kind = "settings" /\ Plain(s).seal = NoKey
  BY DEF Plain
<1>4. file.kind \in {"settings", "absent"} /\ file.seal = NoKey
  BY <1>2, <1>3 DEF Init, FirstFiles
<1>5. KeyInv
  BY <1>3, <1>4 DEF Init, KeyInv, HasKey
<1>6. FileInv
  BY DEF Init, FileInv
<1> QED BY <1>1, <1>5, <1>6 DEF SInv

\* The other programs, and the settings that are recorded as confirmed.
Others(p) ==
    \A q \in Programs \ {p} :
        at'[q] = at[q] /\ job'[q] = job[q] /\ mem'[q] = mem[q] /\ doc'[q] = doc[q]
Undisturbed(p) ==
    /\ UNCHANGED <<confirmed, keyRaced>>
    /\ \/ (disturbed' <=> disturbed) /\ at[p] # "write"
       \/ disturbed'
    /\ stale' \ {p} = stale \ {p}

LEMMA SameSettings ==
    ASSUME SInv, UNCHANGED <<disk, at, job, mem, doc, history>>
    PROVE  SInv'
<1>1. /\ file' = file /\ keyFile' = keyFile /\ keysMade' = keysMade /\ at' = at /\ job' = job
      /\ mem' = mem /\ doc' = doc /\ confirmed' = confirmed /\ stale' = stale
      /\ disturbed' = disturbed /\ keyRaced' = keyRaced
  BY DEF disk, history
<1> QED
  BY <1>1 DEF SInv, DocsInv, KeyInv, FileInv, HasKey, Loaded, UserSaves

\* A program that goes to where it neither holds settings it has read nor
\* writes any.
LEMMA Elsewhere ==
    ASSUME SInv, NEW p \in Programs, Others(p), UNCHANGED disk, Undisturbed(p),
           at'[p] \notin Sealing \cup {"unlock"},
           at'[p] = "set" => UserSaves(p)',
           doc'[p] = doc[p] \/ doc'[p] = Plain(Defaults)
    PROVE  SInv'
<1> USE DEF SInv
<1>0. file' = file /\ keyFile' = keyFile /\ keysMade' = keysMade
  BY DEF disk
<1>1. doc'[p].kind = "settings" /\ (doc'[p].seal = NoKey \/ doc'[p].seal = doc[p].seal)
  BY DEF DocsInv, Plain
<1>2. DocsInv'
  BY <1>1 DEF DocsInv, Others, UserSaves
<1>3. KeyInv'
  BY <1>0, <1>1 DEF KeyInv, HasKey, Others, Undisturbed, Sealing
<1>4. FileInv'
  <2>1. ASSUME NEW q \in Programs, Loaded(q) PROVE Loaded(q)'
    BY <2>1 DEF Loaded, Others, Undisturbed, UserSaves
  <2>2. ASSUME NEW q \in Programs, at[q] = "write", ~disturbed'
        PROVE  at'[q] = "write"
    BY <2>2 DEF Others, Undisturbed
  <2> QED BY <1>0, <2>1, <2>2 DEF FileInv, Undisturbed
<1> QED BY <1>2, <1>3, <1>4

\* A program copies its settings to save them: a user's, or those it has
\* loaded.
LEMMA Copied ==
    ASSUME SInv, NEW p \in Programs, NEW s, Others(p), UNCHANGED disk, Undisturbed(p),
           at'[p] = "key", mem'[p] = s, doc'[p] = Plain(s), at[p] # "write",
           ~disturbed' /\ ~keyRaced /\ ~UserSaves(p)' /\ p \notin stale' => s = confirmed
    PROVE  SInv'
<1> USE DEF SInv
<1>0. file' = file /\ keyFile' = keyFile /\ keysMade' = keysMade
  BY DEF disk
<1>1. doc'[p].kind = "settings" /\ doc'[p].seal = NoKey /\ doc'[p].content = s
  BY DEF Plain
<1>2. DocsInv'
  BY <1>1 DEF DocsInv, Others, UserSaves
<1>3. KeyInv'
  BY <1>0, <1>1 DEF KeyInv, HasKey, Others, Undisturbed
<1>4. FileInv'
  <2>1. ASSUME NEW q \in Programs \ {p}, Loaded(q) PROVE Loaded(q)'
    BY <2>1 DEF Loaded, Others, Undisturbed, UserSaves
  <2>2. ASSUME ~disturbed', ~keyRaced PROVE Loaded(p)'
    BY <2>2 DEF Loaded, Undisturbed
  <2>3. ASSUME NEW q \in Programs, at[q] = "write" PROVE at'[q] = "write"
    BY <2>3 DEF Others
  <2> QED BY <1>0, <2>1, <2>2, <2>3 DEF FileInv, Undisturbed
<1> QED BY <1>2, <1>3, <1>4

\* What is sealed with a key keeps its settings.
LEMMA SealedFields ==
    ASSUME NEW d \in Readables, NEW k \in Nat
    PROVE  /\ Sealed(d, k).kind = d.kind /\ Sealed(d, k).content = d.content
           /\ Sealed(d, k).seal \in {d.seal, k}
BY DEF Sealed, Readables

\* A program has done with the key, or has begun to make one.
LEMMA KeyTaken ==
    ASSUME SInv, NEW p \in Programs, Others(p),
           UNCHANGED <<file, confirmed, stale, disturbed>>,
           at[p] \in {"key", "makeKey", "writeKey"}, at'[p] \in {"makeKey", "writeKey", "open"},
           job'[p] = job[p], mem'[p] = mem[p],
           doc'[p].kind = doc[p].kind, doc'[p].content = doc[p].content,
           KeyInv', keyRaced => keyRaced'
    PROVE  SInv'
<1> USE DEF SInv
<1>1. DocsInv'
  BY DEF DocsInv, Others, UserSaves, Sealing
<1>2. FileInv'
  <2>1. ASSUME NEW q \in Programs, Loaded(q) PROVE Loaded(q)'
    BY <2>1 DEF Loaded, Others, UserSaves, Sealing
  <2>2. ASSUME NEW q \in Programs, at[q] = "write" PROVE at'[q] = "write"
    BY <2>2 DEF Others
  <2> QED BY <2>1, <2>2 DEF FileInv
<1> QED BY <1>1, <1>2

LEMMA ReadKeyKeeps ==
    ASSUME TypesInv, SInv, NEW p \in Programs, ReadKey(p)
    PROVE  SInv'
<1> USE DEF TypesInv, PlacesOK, CopiesOK, KeysOK
<1>1. /\ Others(p) /\ at[p] = "key" /\ at'[p] \in {"makeKey", "open"}
      /\ file' = file /\ keyFile' = keyFile /\ keysMade' = keysMade
      /\ UNCHANGED <<confirmed, stale, disturbed>> /\ (keyRaced => keyRaced')
      /\ job'[p] = job[p] /\ mem'[p] = mem[p]
  BY DEF ReadKey, Others, Goes, SealWith, disk, history
<1>2. /\ doc'[p].kind = doc[p].kind /\ doc'[p].content = doc[p].content
      /\ \/ doc'[p].seal = doc[p].seal
         \/ doc'[p].seal = keyFile /\ keyFile \in Keys
  BY SealedFields DEF ReadKey, SealWith
<1>3. KeyInv'
  BY <1>1, <1>2 DEF SInv, KeyInv, HasKey, Others
<1> QED BY <1>1, <1>2, <1>3, KeyTaken

\* A program that begins to make a key finds none, and no other program that
\* is making one - or two programs have made one at the same time.
LEMMA MakeKeyKeeps ==
    ASSUME TypesInv, SInv, NEW p \in Programs, MakeKey(p)
    PROVE  SInv'
<1> USE SettingsAssumption DEF TypesInv, PlacesOK, CopiesOK, KeysOK
<1>1. /\ Others(p) /\ at[p] = "makeKey" /\ file' = file
      /\ UNCHANGED <<confirmed, stale, disturbed>>
      /\ keyRaced' = (keyRaced \/ keyFile # NoKey) /\ keysMade' = keysMade
      /\ job'[p] = job[p] /\ mem'[p] = mem[p] /\ doc'[p] = doc[p]
  BY DEF MakeKey, Others, Goes, KeyFails
<1>2. \/ keyFile' = BadKey /\ at'[p] = "writeKey"
      \/ keyFile' = NoKey /\ at'[p] = "open"
  BY DEF MakeKey, Goes, KeyFails
<1>3. KeyInv'
  <2>1. SUFFICES ASSUME ~keyRaced, keyFile = NoKey PROVE KeyInv'
    BY <1>1 DEF KeyInv
  <2>2. NoKey \notin Keys /\ BadKey \notin Keys /\ NoKey # BadKey
    BY DEF NoKey, BadKey, Keys
  <2>3. /\ file.seal = NoKey /\ keysMade = 0
        /\ \A q \in Programs : doc[q].seal = NoKey /\ at[q] # "writeKey"
    BY <2>1, <2>2 DEF SInv, KeyInv, HasKey
  <2> QED BY <1>1, <1>2, <2>1, <2>2, <2>3 DEF KeyInv, HasKey, Others
<1> QED BY <1>1, <1>2, <1>3, KeyTaken

\* The first key is the only one.
LEMMA WriteKeyKeeps ==
    ASSUME TypesInv, SInv, NEW p \in Programs, WriteKey(p)
    PROVE  SInv'
<1> USE SettingsAssumption DEF TypesInv, PlacesOK, CopiesOK, KeysOK
<1>1. /\ Others(p) /\ at[p] = "writeKey" /\ at'[p] = "open" /\ file' = file
      /\ UNCHANGED <<confirmed, stale, disturbed, keyRaced>>
      /\ job'[p] = job[p] /\ mem'[p] = mem[p]
  BY DEF WriteKey, Others, Goes, KeyFails, SealWith, history
<1>2. \/ keyFile' = NoKey /\ keysMade' = keysMade /\ doc'[p] = doc[p]
      \/ keyFile' = keysMade + 1 /\ keysMade' = keysMade + 1
         /\ doc'[p] = Sealed(doc[p], keysMade + 1)
  BY DEF WriteKey, KeyFails, SealWith
<1>3. /\ doc'[p].kind = doc[p].kind /\ doc'[p].content = doc[p].content
      /\ doc'[p].seal \in {doc[p].seal, keyFile'}
  BY <1>2, SealedFields
<1>4. KeyInv'
  <2>1. SUFFICES ASSUME ~keyRaced PROVE KeyInv'
    BY <1>1 DEF KeyInv
  <2>2. NoKey \notin Keys /\ BadKey \notin Keys /\ 1 \in Keys
    BY DEF NoKey, BadKey, Keys
  <2>3. /\ file.seal = NoKey /\ keysMade = 0 /\ keyFile = BadKey
        /\ \A q \in Programs : doc[q].seal = NoKey /\ (at[q] = "writeKey" => p = q)
    BY <1>1, <2>1, <2>2 DEF SInv, KeyInv, HasKey
  <2>4. keyFile' \notin Keys => keysMade' = 0
    BY <1>2, <2>2, <2>3
  <2>5. doc'[p].seal # NoKey => doc'[p].seal = keyFile' /\ keyFile' \in Keys
    BY <1>2, <1>3, <2>2, <2>3
  <2> QED BY <1>1, <1>2, <2>1, <2>2, <2>3, <2>4, <2>5 DEF KeyInv, HasKey, Others
<1> QED BY <1>1, <1>3, <1>4, KeyTaken

LEMMA TruncateKeeps ==
    ASSUME TypesInv, SInv, NEW p \in Programs, Truncate(p)
    PROVE  SInv'
<1> USE DEF TypesInv, PlacesOK
<1>1. /\ Others(p) /\ at[p] = "open" /\ UNCHANGED <<keyFile, keysMade, job, mem, doc>>
      /\ UNCHANGED <<confirmed, stale, disturbed, keyRaced>>
  BY DEF Truncate, Others, Goes, Returns, history
<1>2. CASE file' = NoFile("empty") /\ at'[p] = "write"
  <2>1. file'.kind = "empty" /\ file'.seal = NoKey
    BY <1>2 DEF NoFile
  <2>2. DocsInv'
    BY <1>1, <1>2 DEF SInv, DocsInv, Others, UserSaves, Sealing
  <2>3. KeyInv'
    BY <1>1, <1>2, <2>1 DEF SInv, KeyInv, HasKey, Others
  <2>4. FileInv'
    <3>1. ASSUME NEW q \in Programs, Loaded(q) PROVE Loaded(q)'
      BY <1>1, <1>2, <3>1 DEF Loaded, Others, UserSaves, Sealing
    <3> QED BY <1>1, <1>2, <2>1, <3>1 DEF SInv, FileInv
  <2> QED BY <2>2, <2>3, <2>4 DEF SInv
<1>3. CASE file' = file /\ at'[p] = "back"
  BY <1>1, <1>3, Elsewhere DEF disk, Undisturbed, Sealing
<1> QED BY <1>2, <1>3 DEF Truncate, Goes, Returns

\* What is written is what is in memory.  A user's settings are then the ones
\* that count; settings that were loaded say nothing new.
LEMMA WriteKeeps ==
    ASSUME TypesInv, SInv, NEW p \in Programs, Write(p)
    PROVE  SInv'
<1> USE DEF TypesInv, PlacesOK
<1>1. /\ Others(p) /\ at[p] = "write" /\ at'[p] = "back"
      /\ UNCHANGED <<keyRaced, keyFile, keysMade, mem, doc, job>>
  BY DEF Write, Others, Returns, Goes
<1>2. CASE UNCHANGED <<file, confirmed, stale>> /\ disturbed' = TRUE
  BY <1>1, <1>2, Elsewhere DEF disk, Undisturbed, Sealing
<1>3. CASE Recorded(p) /\ (file' = doc[p] \/ file' = NoFile("torn"))
  <2>1. /\ file'.kind \in {"settings", "torn"}
        /\ file'.kind = "settings" => file'.content = mem[p]
        /\ file'.seal # NoKey => file' = doc[p]
    BY <1>1, <1>3 DEF NoFile, SInv, DocsInv, Sealing
  <2>2. DocsInv'
    BY <1>1 DEF SInv, DocsInv, Others, UserSaves, Sealing
  <2>3. KeyInv'
    BY <1>1, <2>1 DEF SInv, KeyInv, HasKey, Others
  <2>4. FileInv'
    <3>1. CASE UserSaves(p)
      <4>1. /\ confirmed' = mem[p] /\ stale' = Older(p)
            /\ disturbed' = (file'.kind # "settings")
        BY <1>3, <3>1 DEF Recorded
      <4>2. ASSUME NEW q \in Programs PROVE Loaded(q)'
        BY <1>1, <4>1 DEF Loaded, Others, Older, UserSaves, Sealing
      <4> QED BY <2>1, <4>1, <4>2 DEF FileInv
    <3>2. CASE ~UserSaves(p)
      <4>1. /\ confirmed' = confirmed /\ stale' = stale
            /\ disturbed' = (disturbed \/ p \in stale \/ file'.kind # "settings")
        BY <1>3, <3>2 DEF Recorded
      <4>2. ASSUME NEW q \in Programs, Loaded(q) PROVE Loaded(q)'
        BY <1>1, <4>1, <4>2 DEF Loaded, Others, UserSaves, Sealing
      <4>3. ~disturbed' /\ ~keyRaced => mem[p] = confirmed
        BY <1>1, <3>2, <4>1 DEF SInv, FileInv, Loaded, Sealing
      <4> QED BY <1>1, <2>1, <4>1, <4>2, <4>3 DEF SInv, FileInv
    <3> QED BY <3>1, <3>2
  <2> QED BY <2>2, <2>3, <2>4 DEF SInv
<1> QED BY <1>2, <1>3 DEF Write

LEMMA EndsSettings ==
    ASSUME TypesInv, SInv, NEW p \in Programs, Ends(p), UNCHANGED disk, Undisturbed(p)
    PROVE  SInv'
<1>1. Others(p) /\ at'[p] = "off" /\ doc'[p] = Plain(Defaults)
  BY DEF TypesInv, PlacesOK, CopiesOK, Ends, Goes, Others
<1> QED BY <1>1, Elsewhere DEF Sealing

\* A program that starts without a file writes the settings nobody has
\* changed.
LEMMA StartSettings ==
    ASSUME TypesInv, SInv, NEW p \in Programs, Start(p)
    PROVE  SInv'
<1> USE DEF TypesInv, PlacesOK, CopiesOK
<1>1. Others(p) /\ UNCHANGED disk /\ Undisturbed(p)
  BY DEF Start, Others, Undisturbed, Save, Goes, Begin
<1>2. CASE file.kind = "absent" /\ Save(p, Defaults)
  <2>1. at'[p] = "key" /\ mem'[p] = Defaults /\ doc'[p] = Plain(Defaults) /\ at[p] # "write"
    BY <1>2 DEF Start, Save, Goes
  <2>2. confirmed = Defaults
    BY <1>2 DEF SInv, FileInv
  <2> QED BY <1>1, <2>1, <2>2, Copied
<1>3. CASE at' = [at EXCEPT ![p] = "read"] /\ doc' = doc
  BY <1>1, <1>3, Elsewhere DEF Sealing
<1> QED BY <1>2, <1>3 DEF Start, Goes

\* The settings that are read are the confirmed ones.
LEMMA ReadSettings ==
    ASSUME TypesInv, SInv, NEW p \in Programs, Read(p)
    PROVE  SInv'
<1> USE DEF TypesInv, PlacesOK, CopiesOK
<1>1. /\ Others(p) /\ at[p] = "read" /\ UNCHANGED disk
      /\ file' = file /\ keyFile' = keyFile /\ keysMade' = keysMade /\ job' = job /\ mem' = mem
      /\ UNCHANGED <<confirmed, stale, disturbed, keyRaced>>
  BY DEF Read, Others, Goes, Returns, history, disk
<1>2. CASE file.kind = "settings" /\ doc'[p] = file /\ at'[p] = "unlock"
  <2>1. DocsInv'
    BY <1>1, <1>2 DEF SInv, DocsInv, Others, UserSaves, Sealing
  <2>2. KeyInv'
    BY <1>1, <1>2 DEF SInv, KeyInv, HasKey, Others
  <2>3. FileInv'
    <3>1. ASSUME NEW q \in Programs \ {p}, Loaded(q) PROVE Loaded(q)'
      BY <1>1, <3>1 DEF Loaded, Others, UserSaves
    <3>2. ~disturbed /\ ~keyRaced => Loaded(p)'
      BY <1>1, <1>2 DEF SInv, FileInv, Loaded, Sealing
    <3>3. ASSUME NEW q \in Programs, at[q] = "write" PROVE at'[q] = "write"
      BY <1>1, <3>3 DEF Others
    <3> QED BY <1>1, <3>1, <3>2, <3>3 DEF SInv, FileInv
  <2> QED BY <2>1, <2>2, <2>3 DEF SInv
<1>3. CASE doc'[p] = doc[p] /\ at'[p] = "back"
  BY <1>1, <1>3, Elsewhere DEF Undisturbed, Sealing
<1> QED BY <1>2, <1>3 DEF Read, Goes, Returns

\* A file that is sealed with the key that is there loses nothing.
LEMMA UnlockSettings ==
    ASSUME TypesInv, SInv, NEW p \in Programs, Unlock(p)
    PROVE  SInv'
<1> USE DEF TypesInv, PlacesOK, CopiesOK
<1>1. Others(p) /\ at[p] = "unlock" /\ UNCHANGED disk /\ Undisturbed(p)
      /\ job' = job /\ UNCHANGED <<confirmed, stale, disturbed, keyRaced>>
  BY DEF Unlock, Others, Undisturbed, Save, Goes, Returns, history
<1>2. CASE Save(p, Unsealed(doc[p], keyFile))
  <2> DEFINE s == Unsealed(doc[p], keyFile)
  <2>1. at'[p] = "key" /\ mem'[p] = s /\ doc'[p] = Plain(s) /\ at[p] # "write"
    BY <1>1, <1>2 DEF Save, Goes
  <2>2. ~keyRaced => s = doc[p].content
    BY DEF SInv, KeyInv, HasKey, Unsealed
  <2>3. ~disturbed' /\ ~keyRaced /\ ~UserSaves(p)' /\ p \notin stale' => s = confirmed
    BY <1>1, <2>2 DEF SInv, FileInv, Loaded, UserSaves
  <2> HIDE DEF s
  <2> QED BY <1>1, <2>1, <2>3, Copied
<1>3. CASE doc' = doc /\ at' = [at EXCEPT ![p] = "back"]
  BY <1>1, <1>3, Elsewhere DEF Sealing
<1> QED BY <1>2, <1>3 DEF Unlock, Goes, Returns

\* The worker thread saves what a user wants.
LEMMA SetSettings ==
    ASSUME TypesInv, SInv, NEW p \in Programs,
           SetAndSave(p) \/ (p = "gui" /\ SetLogAndSave)
    PROVE  SInv'
<1> USE DEF TypesInv, PlacesOK, CopiesOK
<1>1. Others(p) /\ at[p] = "set" /\ UNCHANGED disk /\ Undisturbed(p) /\ job' = job
  BY DEF SetAndSave, SetLogAndSave, Others, Undisturbed, Save, Goes, history
<1>2. CASE Save(p, want[p])
  <2>1. at'[p] = "key" /\ mem'[p] = want[p] /\ doc'[p] = Plain(want[p]) /\ at[p] # "write"
    BY <1>1, <1>2 DEF Save, Goes
  <2>2. UserSaves(p)'
    BY <1>1 DEF SInv, DocsInv, UserSaves
  <2> QED BY <1>1, <2>1, <2>2, Copied
<1>3. CASE doc' = doc /\ at' = [at EXCEPT ![p] = "done"]
  BY <1>1, <1>3, Elsewhere DEF Sealing
<1> QED BY <1>2, <1>3 DEF SetAndSave, SetLogAndSave, Goes

\* Steps of the page, and of the command line, that leave the disk and what
\* was read from it alone.
LEMMA PageSettings ==
    ASSUME TypesInv, SInv,
           GuiStarted \/ Settled \/ Finish \/ Reload \/ Close \/ Closed
    PROVE  SInv'
<1> USE SettingsAssumption DEF TypesInv, PlacesOK, CopiesOK
<1>1. CASE Reload \/ Close
  BY <1>1, SameSettings DEF Reload, Close, copies
<1>2. CASE GuiStarted \/ Settled \/ Finish
  <2>1. /\ Others("gui") /\ Undisturbed("gui") /\ UNCHANGED disk
        /\ doc' = doc /\ at'["gui"] \in {"idle", "done"}
    BY <1>2 DEF GuiStarted, Settled, Finish, Goes, copies, history, Others, Undisturbed
  <2> QED BY <2>1, Elsewhere DEF Sealing
<1>3. CASE Closed
  <2>1. Undisturbed("gui")
    BY <1>3 DEF Closed, history, Undisturbed
  <2> QED BY <1>3, <2>1, EndsSettings DEF Closed
<1> QED BY <1>1, <1>2, <1>3

LEMMA RequestSettings ==
    ASSUME TypesInv, SInv, NEW kind \in {"theme", "bangumi", "log"}, NEW s, NEW shows,
           Request(kind, s, shows)
    PROVE  SInv'
<1> USE SettingsAssumption DEF TypesInv, PlacesOK, CopiesOK
<1>1. /\ Others("gui") /\ Undisturbed("gui") /\ UNCHANGED disk
      /\ doc' = doc /\ at'["gui"] = "set" /\ job'["gui"] = kind
  BY DEF Request, Goes, Begin, history, Others, Undisturbed
<1> QED BY <1>1, Elsewhere DEF Sealing, UserSaves

LEMMA CommandSettings ==
    ASSUME TypesInv, SInv, "cli" \in Programs,
           CliStarted \/ Exit \/ \E secret \in Secrets : SaveOAuthApplication(secret)
    PROVE  SInv'
<1> USE DEF TypesInv, PlacesOK, CopiesOK
<1>1. /\ Undisturbed("cli") /\ UNCHANGED disk
  BY DEF CliStarted, Exit, SaveOAuthApplication, history, Undisturbed, UserSaves
<1>2. CASE Ends("cli")
  BY <1>1, <1>2, EndsSettings
<1>3. CASE CliStarted /\ ~Ends("cli")
  <2>1. Others("cli") /\ doc' = doc /\ at'["cli"] = "idle"
    BY <1>3 DEF CliStarted, Goes, copies, Others
  <2> QED BY <1>1, <2>1, Elsewhere DEF Sealing
<1>4. ASSUME NEW secret \in Secrets, SaveOAuthApplication(secret) PROVE SInv'
  <2>1. Others("cli") /\ doc' = doc /\ at'["cli"] = "set" /\ job'["cli"] = "application"
    BY <1>4 DEF SaveOAuthApplication, Goes, Begin, Others
  <2> QED BY <1>1, <2>1, Elsewhere DEF Sealing, UserSaves
<1> QED BY <1>2, <1>3, <1>4 DEF Exit

LEMMA KilledSettings ==
    ASSUME TypesInv, SInv, NEW p \in Programs, Killed(p)
    PROVE  SInv'
<1>1. Undisturbed(p)
  BY DEF Killed, Undisturbed
<1> QED BY <1>1, EndsSettings DEF Killed

LEMMA SettingsStep == IInv /\ SInv /\ [Next]_vars => SInv'
<1> SUFFICES ASSUME TypesInv, SInv, [Next]_vars PROVE SInv'
  BY DEF IInv
<1>1. ASSUME NEW p \in Programs, Work(p) PROVE SInv'
  <2>1. CASE Read(p) \/ Unlock(p) \/ SetAndSave(p)
    BY <2>1, ReadSettings, UnlockSettings, SetSettings
  <2>2. CASE SaveStep(p)
    BY <2>2, ReadKeyKeeps, MakeKeyKeeps, WriteKeyKeeps, TruncateKeeps, WriteKeeps DEF SaveStep
  <2> QED BY <1>1, <2>1, <2>2 DEF Work
<1>2. ASSUME NEW p \in Programs, Start(p) \/ Killed(p) PROVE SInv'
  BY <1>2, StartSettings, KilledSettings
<1>3. CASE GuiNext
  <2>1. CASE GuiWork
    BY <1>1, <2>1, PageSettings, SetSettings, SettingsAssumption DEF GuiWork
  <2>2. CASE Reload \/ Close
    BY <2>2, PageSettings
  <2>3. CASE \/ \E theme \in {"system", "dark"} : SetThemeMode(theme)
             \/ \E secret \in Secrets : SaveBangumiSettings(secret)
             \/ \E enabled \in BOOLEAN : SaveBangumiCacheSettings(enabled)
             \/ \E log \in {"info", "debug"} : SaveLogSettings(log)
    BY <2>3, RequestSettings
    DEF SetThemeMode, SaveBangumiSettings, SaveBangumiCacheSettings, SaveLogSettings
  <2> QED BY <1>3, <2>1, <2>2, <2>3 DEF GuiNext
<1>4. CASE "cli" \in Programs /\ CliNext
  BY <1>1, <1>4, CommandSettings DEF CliNext
<1>5. CASE UNCHANGED vars
  BY <1>5, SameSettings DEF vars, copies
<1> QED BY <1>1, <1>2, <1>3, <1>4, <1>5 DEF Next

------------------------------------------------------------------------------
(* The key with which it was saved.                                        *)

\* Steps that count no fault, or one more.
LEMMA FaultsStep ==
    ASSUME TypesInv, faults \in Nat, [Next]_vars
    PROVE  /\ faults' \in Nat
           /\ (faults' = 0 /\ ~keyRaced') => (faults = 0 /\ ~keyRaced /\ UNCHANGED faults)
<1> SUFFICES (faults' = faults \/ faults' = faults + 1) /\ (keyRaced => keyRaced')
  OBVIOUS
<1>1. ASSUME NEW p \in Programs, Start(p) \/ Killed(p)
      PROVE  /\ faults' = faults \/ faults' = faults + 1
             /\ keyRaced' = keyRaced
  BY <1>1 DEF Start, Killed, Fault
<1>2. ASSUME NEW p \in Programs, Read(p) \/ Unlock(p) \/ SetAndSave(p)
      PROVE  faults' = faults /\ keyRaced' = keyRaced
  BY <1>2 DEF Read, Unlock, SetAndSave, history
<1>3. ASSUME NEW p \in Programs, SaveStep(p)
      PROVE  /\ faults' = faults \/ faults' = faults + 1
             /\ keyRaced => keyRaced'
  <2>1. CASE ReadKey(p)
    BY <2>1 DEF ReadKey, Fault, NoFault
  <2>2. CASE MakeKey(p)
    BY <2>2 DEF MakeKey, KeyFails, Fault, NoFault
  <2>3. CASE WriteKey(p)
    BY <2>3 DEF WriteKey, KeyFails, Fault, NoFault, history
  <2>4. CASE Truncate(p)
    BY <2>4 DEF Truncate, Fault, NoFault, history
  <2>5. CASE Write(p)
    BY <2>5 DEF Write, Fault, NoFault
  <2> QED BY <1>3, <2>1, <2>2, <2>3, <2>4, <2>5 DEF SaveStep
<1>4. CASE GuiStarted \/ SetLogAndSave \/ Settled \/ Finish \/ Closed \/ Reload \/ Close
  <2>1. keyRaced' = keyRaced
    BY <1>4 DEF GuiStarted, SetLogAndSave, Settled, Finish, Closed, Reload, Close, history
  <2>2. faults' = faults \/ faults' = faults + 1
    BY <1>4 DEF GuiStarted, SetLogAndSave, Settled, Finish, Closed, Reload, Close, Configured,
       Fault, NoFault
  <2> QED BY <2>1, <2>2
<1>5. ASSUME NEW kind, NEW s, NEW shows, Request(kind, s, shows)
      PROVE  faults' = faults /\ keyRaced' = keyRaced
  BY <1>5 DEF Request, history
<1>6. CASE CliStarted \/ Exit \/ \E secret \in Secrets : SaveOAuthApplication(secret)
  BY <1>6 DEF CliStarted, Exit, SaveOAuthApplication, history
<1>7. CASE UNCHANGED vars
  BY <1>7 DEF vars, history
<1> QED
  BY <1>1, <1>2, <1>3, <1>4, <1>5, <1>6, <1>7, SettingsAssumption
  DEF Next, GuiNext, GuiWork, CliNext, Work,
      SetThemeMode, SaveBangumiSettings, SaveBangumiCacheSettings, SaveLogSettings

\* Nobody comes to write without a key, and nobody leaves a key half made.
LEMMA SealSame ==
    ASSUME SealInv, faults' \in Nat,
           (faults' = 0 /\ ~keyRaced') => (faults = 0 /\ ~keyRaced /\ UNCHANGED faults),
           UNCHANGED disk, disturbed => disturbed',
           faults' = 0 => \A q \in Programs : at[q] = "writeKey" => at'[q] = "writeKey",
           \A q \in Programs : at'[q] \in {"open", "write"} =>
               at[q] \in {"open", "write"} /\ doc'[q] = doc[q]
    PROVE  SealInv'
BY DEF SealInv, disk

LEMMA SaveSeals ==
    ASSUME TypesInv, SInv, SealInv, NEW p \in Programs, SaveStep(p), faults' \in Nat,
           (faults' = 0 /\ ~keyRaced') => (faults = 0 /\ ~keyRaced /\ UNCHANGED faults)
    PROVE  SealInv'
<1> USE SettingsAssumption DEF TypesInv, PlacesOK, CopiesOK, KeysOK
<1> SUFFICES ASSUME faults' = 0, ~keyRaced', faults = 0, ~keyRaced
             PROVE  SealInv'
  BY DEF SealInv
<1>0. /\ NoKey \notin Keys /\ BadKey \notin Keys /\ NoKey # BadKey /\ 1 \in Keys
      /\ faults' # faults + 1
  BY DEF NoKey, BadKey, Keys
<1>1. CASE ReadKey(p)
  <2>1. /\ at' = [at EXCEPT ![p] = "open"] \/ at' = [at EXCEPT ![p] = "makeKey"]
        /\ at[p] = "key" /\ UNCHANGED <<file, keyFile, disturbed>>
    BY <1>1 DEF ReadKey, Goes, disk
  <2>2. ~ \E q \in Programs : at[q] = "writeKey"
    BY <1>1 DEF ReadKey
  <2>3. keyFile # BadKey
    BY <2>2 DEF SealInv
  <2>4. \/ keyFile \in Keys /\ doc' = [doc EXCEPT ![p] = Sealed(@, keyFile)]
        \/ at'[p] = "makeKey" /\ doc' = doc
    BY <1>0, <1>1, <2>3 DEF ReadKey, SealWith, Goes, Fault
  <2>5. \A q \in Programs : at'[q] \in {"open", "write"} => doc'[q].seal # NoKey
    BY <1>0, <2>1, <2>4 DEF SealInv, Sealed, Readables
  <2> QED BY <2>1, <2>3, <2>5 DEF SealInv
<1>2. CASE MakeKey(p)
  <2>1. at' = [at EXCEPT ![p] = "writeKey"] /\ UNCHANGED <<file, doc, disturbed>>
    BY <1>0, <1>2 DEF MakeKey, KeyFails, Fault, Goes
  <2>2. at'[p] = "writeKey"
    BY <2>1
  <2> QED BY <2>1, <2>2 DEF SealInv
<1>3. CASE WriteKey(p)
  <2>1. /\ at' = [at EXCEPT ![p] = "open"] /\ UNCHANGED <<file, disturbed>>
        /\ keyFile' = keysMade + 1 /\ doc' = [doc EXCEPT ![p] = Sealed(@, keysMade + 1)]
        /\ at[p] = "writeKey"
    BY <1>0, <1>3 DEF WriteKey, KeyFails, Fault, Goes, SealWith, history
  <2>2. keysMade = 0
    BY <1>0, <2>1 DEF SInv, KeyInv
  <2>3. keyFile' # BadKey /\ keysMade + 1 # NoKey
    BY <1>0, <2>1, <2>2 DEF Keys, BadKey, NoKey
  <2>4. doc'[p].seal # NoKey
    BY <2>1, <2>3 DEF Sealed, Readables
  <2> QED BY <2>1, <2>3, <2>4 DEF SealInv
<1>4. CASE Truncate(p)
  <2>1. /\ at' = [at EXCEPT ![p] = "write"] /\ file' = NoFile("empty") /\ at[p] = "open"
        /\ UNCHANGED <<keyFile, doc, disturbed>>
    BY <1>0, <1>4 DEF Truncate, Fault, Goes, history
  <2>2. file'.kind # "settings"
    BY <2>1 DEF NoFile
  <2> QED BY <2>1, <2>2 DEF SealInv
<1>5. CASE Write(p)
  <2>1. /\ at' = [at EXCEPT ![p] = "back"] /\ at[p] = "write"
        /\ file' = doc[p] \/ file' = NoFile("torn")
        /\ UNCHANGED <<keyFile, doc>>
    BY <1>0, <1>5 DEF Write, Fault, Goes, Returns
  <2>2. file'.kind = "settings" => file'.seal # NoKey
    BY <2>1 DEF NoFile, SealInv
  <2> QED BY <2>1, <2>2 DEF SealInv
<1> QED BY <1>1, <1>2, <1>3, <1>4, <1>5 DEF SaveStep

LEMMA SealStep == IInv /\ SInv /\ SealInv /\ [Next]_vars => SealInv'
<1> SUFFICES ASSUME TypesInv, SInv, SealInv, [Next]_vars PROVE SealInv'
  BY DEF IInv
<1> USE SettingsAssumption DEF TypesInv, PlacesOK, CopiesOK
<1>0. /\ faults' \in Nat
      /\ (faults' = 0 /\ ~keyRaced') => (faults = 0 /\ ~keyRaced /\ UNCHANGED faults)
  BY FaultsStep DEF SealInv
<1> DEFINE Aside ==
         /\ UNCHANGED disk /\ (disturbed => disturbed')
         /\ faults' = 0 => \A q \in Programs : at[q] = "writeKey" => at'[q] = "writeKey"
         /\ \A q \in Programs : at'[q] \in {"open", "write"} =>
               at[q] \in {"open", "write"} /\ doc'[q] = doc[q]
<1>1. Aside => SealInv'
  BY <1>0, SealSame
<1>2. ASSUME NEW p \in Programs, Ends(p), UNCHANGED disk, disturbed => disturbed',
             faults' = 0 => at[p] # "writeKey"
      PROVE  Aside
  BY <1>2 DEF Ends, Goes
<1>3. ASSUME NEW p \in Programs, Start(p) \/ Killed(p) PROVE Aside
  <2>1. CASE Start(p)
    BY <2>1 DEF Start, Save, Goes, Begin
  <2>2. CASE Killed(p)
    <3>1. faults' # 0
      BY <2>2 DEF Killed, Fault, SealInv
    <3> QED BY <1>2, <2>2, <3>1 DEF Killed
  <2> QED BY <1>3, <2>1, <2>2
<1>4. ASSUME NEW p \in Programs, Read(p) \/ Unlock(p) \/ SetAndSave(p) PROVE Aside
  BY <1>4 DEF Read, Unlock, SetAndSave, Save, Goes, Returns, history
<1>5. ASSUME NEW p \in Programs, SaveStep(p) PROVE SealInv'
  BY <1>0, <1>5, SaveSeals
<1>6. ASSUME GuiStarted \/ Settled \/ Finish \/ Reload \/ Close PROVE Aside
  BY <1>6 DEF GuiStarted, Settled, Finish, Reload, Close, Goes, copies, history
<1>7. ASSUME SetLogAndSave PROVE Aside
  BY <1>7 DEF SetLogAndSave, Save, Goes, history
<1>8. ASSUME Closed PROVE Aside
  BY <1>2, <1>8 DEF Closed, history
<1>9. ASSUME NEW kind, NEW s, NEW shows, Request(kind, s, shows) PROVE Aside
  BY <1>9 DEF Request, Goes, history
<1>10. ASSUME "cli" \in Programs, Exit \/ CliStarted PROVE Aside
  BY <1>2, <1>10 DEF Exit, CliStarted, Goes, copies, history
<1>11. ASSUME NEW secret, SaveOAuthApplication(secret) PROVE Aside
  BY <1>11 DEF SaveOAuthApplication, Goes, history
<1>12. ASSUME UNCHANGED vars PROVE Aside
  BY <1>12 DEF vars, copies, history
<1> HIDE DEF Aside
<1> QED
  BY <1>1, <1>3, <1>4, <1>5, <1>6, <1>7, <1>8, <1>9, <1>10, <1>11, <1>12
  DEF Next, GuiNext, GuiWork, CliNext, Work,
      SetThemeMode, SaveBangumiSettings, SaveBangumiCacheSettings, SaveLogSettings

\* What a user was told is saved stays in the file, and so does the key with
\* which it was saved in the key file, so that a start reads it: through
\* restarts, loads that write it back, and saves of other programs, whatever
\* faults there are short of the excepted ones; as long as there is none, it
\* was saved with a key.
THEOREM ConfirmedStays == Spec => []ConfirmedSurvives
<1>1. SInv /\ SealInv => ConfirmedSurvives
  <2> SUFFICES ASSUME SInv, SealInv, ~disturbed, ~keyRaced,
                      \A p \in Programs : at[p] # "write"
               PROVE  /\ file.kind = "settings" /\ file.content = confirmed
                      /\ file.seal # NoKey => file.seal = keyFile /\ keyFile \in Keys
                      /\ faults = 0 => file.seal # NoKey
    BY DEF ConfirmedSurvives
  <2>1. file.kind = "settings" /\ file.content = confirmed
    BY DEF SInv, FileInv
  <2>2. file.seal # NoKey => file.seal = keyFile /\ keyFile \in Keys
    BY DEF SInv, KeyInv, HasKey
  <2>3. faults = 0 => file.seal # NoKey
    BY <2>1 DEF SealInv
  <2> QED BY <2>1, <2>2, <2>3
<1>2. Init => SealInv
  <2>1. NoKey # BadKey
    BY SettingsAssumption DEF NoKey, BadKey
  <2> QED BY <2>1 DEF Init, SealInv
<1>3. Spec => []SInv
  BY SInit, SettingsStep, Invariant, PTL DEF Spec
<1>4. Spec => []SealInv
  BY <1>2, <1>3, SealStep, Invariant, PTL DEF Spec
<1> QED BY <1>1, <1>3, <1>4, PTL

============================================================================
