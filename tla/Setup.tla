--------------------------------- MODULE Setup ---------------------------------
(***************************************************************************)
(* Setup and uninstall (src/src/setup.rs): runs that put the managed hooks *)
(* into hooks.json, the managed MCP server and the optional permission     *)
(* profile into config.toml, and a manifest beside the database, through a *)
(* recovery journal.  A run may be killed between any two file operations, *)
(* nothing keeps two runs from overlapping, and the user edits the Codex   *)
(* files at any time.                                                      *)
(*                                                                         *)
(* Kept of a Codex file: the user's part (the number of the last edit),    *)
(* and what setup manages in it.  A hash stands for the content.  Left     *)
(* out: ownership and mode checks, the archived copy of the manifest, and  *)
(* the checks of a tampered journal or manifest.                           *)
(***************************************************************************)
EXTENDS Naturals

CONSTANTS
  Run,           \* processes that run `previously setup` and `uninstall`
  Repository,
  NoRepository,
  NoFile,        \* the file does not exist
  MaxEdits,      \* bound on edits of the user
  MaxDeaths      \* bound on killed runs

ASSUME SentinelAssumption == NoRepository \notin Repository
ASSUME BoundsAssumption == MaxEdits \in Nat /\ MaxDeaths \in Nat

VARIABLES
  hooks,         \* hooks.json
  config,        \* config.toml
  manifest,      \* setup-manifest.json
  journal,       \* setup-recovery-journal.json
  pc,            \* control point of each run
  command,       \* what each run was asked to do
  plan,          \* the journal a run applies
  recovering,    \* is that journal one the run found?
  wish,          \* history: what the user last wrote
  edits,         \* history: number of edits
  deaths,        \* history: number of killed runs
  overlapped,    \* history: two runs ran at the same time
  raced,         \* history: an edit hit a run or a pending journal
  absorbed       \* history: setup was repeated over an edit

files == <<hooks, config, manifest>>
runVars == <<pc, command, plan, recovering>>
history == <<wish, edits, overlapped, raced>>
vars == <<hooks, config, manifest, journal, pc, command, plan, recovering, wish,
          edits, deaths, overlapped, raced, absorbed>>

Feature == {"unset", "off", "on"}
Profile == {"none", "managed", "user"}
HooksFile == [user : 0..MaxEdits, managed : BOOLEAN]
ConfigFile == [user : 0..MaxEdits, feature : Feature, server : {"none", "managed", "foreign"},
               profile : Profile]
AnyHooks == HooksFile \union {NoFile}
AnyConfig == ConfigFile \union {NoFile}
ManifestFile == [repo : Repository, hooksBackup : AnyHooks, configBackup : AnyConfig,
                 hooks : HooksFile, config : ConfigFile,
                 featureBefore : Feature, featureManaged : BOOLEAN,
                 ai : BOOLEAN, profile : Profile]
JournalFile == [op : {"install", "uninstall"}, hooks : AnyHooks, config : AnyConfig,
                manifest : ManifestFile \union {NoFile}]

ASSUME NoFileAssumption ==
  NoFile \notin HooksFile /\ NoFile \notin ConfigFile
  /\ NoFile \notin ManifestFile /\ NoFile \notin JournalFile

EmptyHooks == [user |-> 0, managed |-> FALSE]
EmptyConfig == [user |-> 0, feature |-> "unset", server |-> "none", profile |-> "none"]
Commands == [op : {"install"}, repo : Repository, ai : BOOLEAN]
            \union {[op |-> "uninstall", repo |-> NoRepository, ai |-> FALSE]}

HooksIn(f) == IF f = NoFile THEN EmptyHooks ELSE f
ConfigIn(f) == IF f = NoFile THEN EmptyConfig ELSE f
UserConfig(f) == [user |-> f.user, server |-> f.server = "foreign", profile |-> f.profile = "user"]
Registered(m) == m # NoFile
RepositoryOf(m) == IF Registered(m) THEN m.repo ELSE NoRepository

NoCommand == [op |-> "uninstall", repo |-> NoRepository, ai |-> FALSE]

Goto(p, l) == pc' = [pc EXCEPT ![p] = l]

(* The process is gone, and what it knew. *)
Exit(p) ==
  /\ Goto(p, "idle")
  /\ command' = [command EXCEPT ![p] = NoCommand]
  /\ plan' = [plan EXCEPT ![p] = NoFile]
  /\ recovering' = [recovering EXCEPT ![p] = FALSE]

Init ==
  /\ hooks \in {NoFile, EmptyHooks}
  /\ config \in {NoFile} \union {[EmptyConfig EXCEPT !.feature = f] : f \in Feature}
  /\ manifest = NoFile /\ journal = NoFile
  /\ pc = [p \in Run |-> "idle"]
  /\ command = [p \in Run |-> NoCommand]
  /\ plan = [p \in Run |-> NoFile]
  /\ recovering = [p \in Run |-> FALSE]
  /\ wish = [hooks |-> HooksIn(hooks).user, config |-> UserConfig(ConfigIn(config)),
            feature |-> ConfigIn(config).feature]
  /\ edits = 0 /\ deaths = 0
  /\ overlapped = FALSE /\ raced = FALSE /\ absorbed = FALSE
-------------------------------------------------------------------------------
(* Faulty variants of the definitions below.  No specification uses them:  *)
(* each one stands for a bug that a property of this module must catch.    *)

(* features.hooks is written as a string. *)
MergeConfigAsString(f, ai, m) ==
  [ConfigIn(f) EXCEPT !.feature = "string", !.server = "managed"]

(* Uninstall restores the backups whatever became of the files. *)
UninstallPlanFromBackups ==
  [op |-> "uninstall", hooks |-> manifest.hooksBackup, config |-> manifest.configBackup,
   manifest |-> NoFile]

(* The files are replaced without a journal. *)
PersistNothing(p) ==
  /\ pc[p] = "persist"
  /\ Goto(p, "hooks")
  /\ UNCHANGED <<files, journal, command, plan, recovering, history, deaths, absorbed>>

(* A recovered journal is left behind. *)
RemoveOwnJournal(p) ==
  /\ pc[p] = "unjournal"
  /\ journal' = IF recovering[p] THEN journal ELSE NoFile
  /\ IF recovering[p]
     THEN /\ Goto(p, "check")
          /\ recovering' = [recovering EXCEPT ![p] = FALSE]
          /\ plan' = [plan EXCEPT ![p] = NoFile]
          /\ UNCHANGED command
     ELSE Exit(p)
  /\ UNCHANGED <<files, history, deaths, absorbed>>

(* Any registration may be replaced. *)
ForeignRegistrationAccepted(c) == FALSE
-------------------------------------------------------------------------------
(* What a run computes.                                                    *)

(* merge_hooks replaces the managed hooks and keeps all others. *)
MergeHooks(f) == [HooksIn(f) EXCEPT !.managed = TRUE]
RemoveManagedHooks(f) == [f EXCEPT !.managed = FALSE]

(* An edited profile belongs to the user and is left as it is. *)
MergeProfile(profile, ai, m) ==
  IF ai /\ (profile = "none" \/ (Registered(m) /\ m.profile = profile))
  THEN "managed" ELSE profile

MergeConfig(f, ai, m) ==
  [ConfigIn(f) EXCEPT !.feature = "on", !.server = "managed",
                      !.profile = MergeProfile(@, ai, m)]

(* The profile a manifest owns: the one it owned, if the user changed it.  *)
OwnedProfile(f, ai, m) ==
  LET current == ConfigIn(f).profile IN
  CASE ~ai -> "none"
    [] ai /\ Registered(m) /\ m.profile # "none" /\ current \notin {"none", m.profile} -> m.profile
    [] OTHER -> MergeConfig(f, ai, m).profile

(* A change of the user wins over the restoration of features.hooks. *)
RemoveManagedConfig(f, m) ==
  [f EXCEPT !.server = IF @ = "managed" THEN "none" ELSE @,
            !.profile = IF m.ai /\ @ = m.profile THEN "none" ELSE @,
            !.feature = IF m.featureManaged /\ @ = "on" THEN m.featureBefore ELSE @]

Ai(c, m) == c.ai \/ (Registered(m) /\ m.ai)

ForeignProfile(c) ==
  /\ Ai(c, manifest)
  /\ ConfigIn(config).profile # "none"
  /\ ~(Registered(manifest) /\ manifest.ai)

ForeignRegistration(c) == Registered(manifest) /\ manifest.repo # c.repo

(* A repeated setup keeps the backups of the first one. *)
InstallPlan(c) ==
  LET ai == Ai(c, manifest)
      first == ~Registered(manifest)
      merged == [hooks |-> MergeHooks(hooks), config |-> MergeConfig(config, ai, manifest)]
  IN [op |-> "install", hooks |-> merged.hooks, config |-> merged.config,
      manifest |->
        [repo |-> c.repo,
         hooksBackup |-> IF first THEN hooks ELSE manifest.hooksBackup,
         configBackup |-> IF first THEN config ELSE manifest.configBackup,
         hooks |-> merged.hooks, config |-> merged.config,
         featureBefore |-> IF first THEN ConfigIn(config).feature ELSE manifest.featureBefore,
         featureManaged |-> IF first THEN ConfigIn(config).feature # "on"
                                     ELSE manifest.featureManaged,
         ai |-> ai,
         profile |-> OwnedProfile(config, ai, manifest)]]

(* A file that is as setup left it is restored from the backup; from any   *)
(* other only the managed parts are removed.                               *)
UninstallPlan ==
  [op |-> "uninstall",
   hooks |-> IF hooks = manifest.hooks THEN manifest.hooksBackup
             ELSE IF hooks = NoFile THEN NoFile ELSE RemoveManagedHooks(hooks),
   config |-> IF config = manifest.config THEN manifest.configBackup
              ELSE IF config = NoFile THEN NoFile
              ELSE RemoveManagedConfig(config, manifest),
   manifest |-> NoFile]
-------------------------------------------------------------------------------
(* A run.                                                                  *)

Begin(p, c) ==
  /\ pc[p] = "idle"
  /\ command' = [command EXCEPT ![p] = c]
  /\ Goto(p, "recover")
  /\ overlapped' = (overlapped \/ \E q \in Run : pc[q] # "idle")
  /\ UNCHANGED <<files, journal, plan, recovering, wish, edits, deaths, raced, absorbed>>

(* recover_setup_journal: every target is written again. *)
ReadJournal(p) ==
  /\ pc[p] = "recover"
  /\ plan' = [plan EXCEPT ![p] = journal]
  /\ recovering' = [recovering EXCEPT ![p] = (journal # NoFile)]
  /\ Goto(p, IF journal = NoFile THEN "check" ELSE "hooks")
  /\ UNCHANGED <<files, journal, command, history, deaths, absorbed>>

(* apply_setup_journal, one atomic replacement after the other. *)
ApplyHooks(p) ==
  /\ pc[p] = "hooks"
  /\ hooks' = plan[p].hooks
  /\ Goto(p, "config")
  /\ UNCHANGED <<config, manifest, journal, command, plan, recovering, history, deaths, absorbed>>

ApplyConfig(p) ==
  /\ pc[p] = "config"
  /\ config' = plan[p].config
  /\ Goto(p, "manifest")
  /\ UNCHANGED <<hooks, manifest, journal, command, plan, recovering, history, deaths, absorbed>>

ApplyManifest(p) ==
  /\ pc[p] = "manifest"
  /\ manifest' = plan[p].manifest
  /\ Goto(p, "unjournal")
  /\ UNCHANGED <<hooks, config, journal, command, plan, recovering, history, deaths, absorbed>>

(* A run that has recovered goes on with its own command. *)
RemoveJournal(p) ==
  /\ pc[p] = "unjournal"
  /\ journal' = NoFile
  /\ IF recovering[p]
     THEN /\ Goto(p, "check")
          /\ recovering' = [recovering EXCEPT ![p] = FALSE]
          /\ plan' = [plan EXCEPT ![p] = NoFile]
          /\ UNCHANGED command
     ELSE Exit(p)
  /\ UNCHANGED <<files, history, deaths, absorbed>>

(* Refusals that come before any mutation. *)
Refuse(p) ==
  /\ pc[p] = "check"
  /\ IF command[p].op = "install"
     THEN ForeignRegistration(command[p]) \/ ForeignProfile(command[p])
          \/ ConfigIn(config).server = "foreign"
     ELSE ~Registered(manifest)
  /\ Exit(p)
  /\ UNCHANGED <<files, journal, history, deaths, absorbed>>

Check(p) ==
  /\ pc[p] = "check"
  /\ IF command[p].op = "install"
     THEN ~ForeignRegistration(command[p]) /\ ~ForeignProfile(command[p])
     ELSE Registered(manifest)
  /\ Goto(p, "plan")
  /\ UNCHANGED <<files, journal, command, plan, recovering, history, deaths, absorbed>>

(* The manifest is read and validated again, and the files are read and    *)
(* backed up.                                                              *)
PlanInstall(p) ==
  /\ pc[p] = "plan"
  /\ command[p].op = "install"
  /\ ~ForeignRegistration(command[p])
  /\ ConfigIn(config).server # "foreign"
  /\ plan' = [plan EXCEPT ![p] = InstallPlan(command[p])]
  /\ absorbed' = (absorbed \/ /\ Registered(manifest)
                              /\ hooks # manifest.hooks \/ config # manifest.config)
  /\ Goto(p, "persist")
  /\ UNCHANGED <<files, journal, command, recovering, history, deaths>>

PlanUninstall(p) ==
  /\ pc[p] = "plan"
  /\ command[p].op = "uninstall"
  /\ Registered(manifest)
  /\ plan' = [plan EXCEPT ![p] = UninstallPlan]
  /\ Goto(p, "persist")
  /\ UNCHANGED <<files, journal, command, recovering, history, deaths, absorbed>>

(* What was found before is not so any more. *)
PlanFails(p) ==
  /\ pc[p] = "plan"
  /\ IF command[p].op = "install"
     THEN ForeignRegistration(command[p]) \/ ConfigIn(config).server = "foreign"
     ELSE ~Registered(manifest)
  /\ Exit(p)
  /\ UNCHANGED <<files, journal, history, deaths, absorbed>>

Persist(p) ==
  /\ pc[p] = "persist"
  /\ journal' = plan[p]
  /\ Goto(p, "hooks")
  /\ UNCHANGED <<files, command, plan, recovering, history, deaths, absorbed>>

Step(p) ==
  \/ ReadJournal(p) \/ ApplyHooks(p) \/ ApplyConfig(p) \/ ApplyManifest(p)
  \/ RemoveJournal(p) \/ Refuse(p) \/ Check(p) \/ PlanInstall(p) \/ PlanUninstall(p)
  \/ PlanFails(p) \/ Persist(p)

(* Killed, or ended by an I/O error. *)
Die(p) ==
  /\ pc[p] # "idle"
  /\ deaths < MaxDeaths
  /\ deaths' = deaths + 1
  /\ Exit(p)
  /\ UNCHANGED <<files, journal, history, absorbed>>
-------------------------------------------------------------------------------
(* The user.                                                               *)

Edit ==
  /\ edits < MaxEdits
  /\ edits' = edits + 1
  /\ raced' = (raced \/ journal # NoFile \/ \E p \in Run : pc[p] # "idle")
  /\ UNCHANGED <<manifest, journal, runVars, deaths, overlapped, absorbed>>

EditHooks ==
  /\ Edit
  /\ hooks' \in {NoFile, [HooksIn(hooks) EXCEPT !.user = edits + 1]}
  /\ wish' = [wish EXCEPT !.hooks = HooksIn(hooks').user]
  /\ UNCHANGED config

(* Turning features.hooks on is left out: setup takes it for its own value. *)
ConfigEdits ==
  LET f == ConfigIn(config) IN
  {NoFile, [f EXCEPT !.user = edits + 1], [f EXCEPT !.server = "foreign"]}
  \union {[f EXCEPT !.feature = v] : v \in {"unset", "off"}}
  \union {[f EXCEPT !.profile = v] : v \in {"none", "user"}}

EditConfig ==
  /\ Edit
  /\ config' \in ConfigEdits \ {config}
  /\ wish' = [wish EXCEPT !.config = UserConfig(ConfigIn(config')),
                          !.feature = IF ConfigIn(config').feature = ConfigIn(config).feature
                                      THEN @ ELSE ConfigIn(config').feature]
  /\ UNCHANGED hooks
-------------------------------------------------------------------------------
Next ==
  \/ \E p \in Run : Step(p) \/ Die(p) \/ \E c \in Commands : Begin(p, c)
  \/ EditHooks \/ EditConfig

Spec == Init /\ [][Next]_vars

(* A run that is not killed goes on to its end. *)
FairSpec == Spec /\ \A p \in Run : WF_vars(Step(p))
-------------------------------------------------------------------------------
(* Properties.                                                             *)

(* Every variable stays in its range. *)
TypeOK ==
  /\ hooks \in AnyHooks /\ config \in AnyConfig
  /\ manifest \in ManifestFile \union {NoFile}
  /\ journal \in JournalFile \union {NoFile}
  /\ pc \in [Run -> {"idle", "recover", "check", "plan", "persist", "hooks", "config",
                     "manifest", "unjournal"}]
  /\ command \in [Run -> Commands]
  /\ plan \in [Run -> JournalFile \union {NoFile}]
  /\ recovering \in [Run -> BOOLEAN]
  /\ wish \in [hooks : 0..MaxEdits, feature : Feature,
               config : [user : 0..MaxEdits, server : BOOLEAN, profile : BOOLEAN]]
  /\ edits \in 0..MaxEdits /\ deaths \in 0..MaxDeaths
  /\ overlapped \in BOOLEAN /\ raced \in BOOLEAN /\ absorbed \in BOOLEAN

(* The registration as of the last journal that was persisted. *)
registered == RepositoryOf(IF journal = NoFile THEN manifest ELSE journal.manifest)

R == INSTANCE Registration

(* Persisting the journal is the atomic registration, whatever kills the   *)
(* run afterwards: setup.rs:265 "Recovery safely reapplies every target".  *)
ImplementsRegistration ==
  R!Init /\ [][overlapped' \/ R!Next]_registered

(* Without a pending journal either everything is installed or nothing     *)
(* managed is left.                                                        *)
AllOrNothing ==
  journal = NoFile /\ ~overlapped /\ ~raced =>
    IF Registered(manifest)
    THEN edits = 0 => hooks = manifest.hooks /\ config = manifest.config
    ELSE /\ ~HooksIn(hooks).managed
         /\ ConfigIn(config).server # "managed" /\ ConfigIn(config).profile # "managed"

(* privacy.md:62 "so uninstall can preserve later user edits": what the    *)
(* user wrote stays, and what setup changed is as it was, once uninstalled.*)
EditsSurvive ==
  ~raced /\ ~overlapped =>
    /\ HooksIn(hooks).user = wish.hooks
    /\ UserConfig(ConfigIn(config)) = wish.config
    /\ journal = NoFile /\ ~Registered(manifest) => ConfigIn(config).feature = wish.feature

(* It holds unless setup was repeated after an edit. *)
EditsSurviveOneSetup == ~absorbed => EditsSurvive

(* As long as runs keep being started, an interrupted one is completed.    *)
JournalIsSettled ==
  []<>(\E p \in Run : pc[p] = "recover") => (journal # NoFile ~> journal = NoFile)
===============================================================================
