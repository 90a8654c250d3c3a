------------------------------- MODULE SetupProofs -------------------------------
(***************************************************************************)
(* Proofs about Setup, for any runs and repositories and any number of     *)
(* edits and kills.                                                        *)
(***************************************************************************)
EXTENDS Setup, TLAPS

Applying == {"hooks", "config", "manifest", "unjournal"}
Labels == {"idle", "recover", "check", "plan", "persist"} \union Applying

FilesOK ==
  /\ hooks \in AnyHooks /\ config \in AnyConfig
  /\ manifest \in ManifestFile \union {NoFile}
  /\ journal \in JournalFile \union {NoFile}

(* A run that has a plan has a complete one. *)
RunsOK ==
  /\ pc \in [Run -> Labels]
  /\ command \in [Run -> Commands]
  /\ plan \in [Run -> JournalFile \union {NoFile}]
  /\ recovering \in [Run -> BOOLEAN]
  /\ \A p \in Run : pc[p] \in Applying \union {"persist"} => plan[p] \in JournalFile

WishOK == wish \in [hooks : 0..MaxEdits, feature : Feature,
                    config : [user : 0..MaxEdits, server : BOOLEAN, profile : BOOLEAN]]

HistoryOK ==
  /\ edits \in 0..MaxEdits /\ deaths \in 0..MaxDeaths
  /\ overlapped \in BOOLEAN /\ raced \in BOOLEAN /\ absorbed \in BOOLEAN

(* What a run that runs alone knows of the journal and of the manifest.    *)
MayRegister(m) ==
  RepositoryOf(m) # NoRepository => RepositoryOf(manifest) \in {NoRepository, RepositoryOf(m)}

InOrder(p) ==
  /\ pc[p] \in {"check", "plan", "persist"} => journal = NoFile
  /\ pc[p] \in Applying => journal = plan[p]
  /\ pc[p] = "unjournal" => manifest = plan[p].manifest
  /\ pc[p] = "persist" => MayRegister(plan[p].manifest)

Alone == \A p, q \in Run : pc[p] # "idle" /\ pc[q] # "idle" => p = q

Ordered == ~overlapped => Alone /\ \A p \in Run : InOrder(p)

(* What the files and the manifest are to each other when nobody is at     *)
(* work, or what they will be.                                             *)
Clean(h, c) ==
  ~HooksIn(h).managed /\ ConfigIn(c).server # "managed" /\ ConfigIn(c).profile # "managed"

OwnsProfile(c, m) ==
  /\ m.profile # "user"
  /\ m.ai => m.profile = "managed"
  /\ ConfigIn(c).profile = "managed" => m.ai

Sound(h, c, m) ==
  /\ Registered(m) => /\ Clean(m.hooksBackup, m.configBackup)
                      /\ OwnsProfile(c, m)
                      /\ edits = 0 => h = m.hooks /\ c = m.config
  /\ ~Registered(m) => Clean(h, c)

(* ... and to what the user wrote, while setup is not repeated over edits. *)
SameUser(h, c) == HooksIn(h).user = wish.hooks /\ UserConfig(ConfigIn(c)) = wish.config

Backed(m) ==
  /\ m.hooks.user = HooksIn(m.hooksBackup).user
  /\ UserConfig(m.config) = UserConfig(ConfigIn(m.configBackup))
  /\ m.config.feature = "on"
  /\ ConfigIn(m.configBackup).feature = m.featureBefore
  /\ m.featureManaged = (m.featureBefore # "on")

Feels(c, before) ==
  IF ConfigIn(c).feature = "on" THEN wish.feature = before
                                ELSE wish.feature = ConfigIn(c).feature

Kept(h, c, m) ==
  /\ SameUser(h, c)
  /\ Registered(m) => Backed(m) /\ Feels(c, m.featureBefore)
  /\ ~Registered(m) => wish.feature = ConfigIn(c).feature

Faithful(h, c, m) == Sound(h, c, m) /\ (~absorbed => Kept(h, c, m))

Written(p) ==
  /\ pc[p] \in {"config", "manifest", "unjournal"} => hooks = plan[p].hooks
  /\ pc[p] \in {"manifest", "unjournal"} => config = plan[p].config
  /\ pc[p] = "plan" /\ command[p].op = "install" => ~ForeignProfile(command[p])
  /\ pc[p] = "persist" => Faithful(plan[p].hooks, plan[p].config, plan[p].manifest)

FilesIntact ==
  /\ journal = NoFile => Faithful(hooks, config, manifest)
  /\ journal # NoFile => Faithful(journal.hooks, journal.config, journal.manifest)
  /\ ~absorbed => SameUser(hooks, config)

Intact == FilesIntact /\ \A p \in Run : Written(p)

Undisturbed == ~overlapped /\ ~raced

IInv == FilesOK /\ RunsOK /\ WishOK /\ HistoryOK /\ Ordered /\ (Undisturbed => Intact)
-------------------------------------------------------------------------------
LEMMA Bounds ==
  MaxEdits \in Nat /\ MaxDeaths \in Nat /\ 0 \in 0..MaxEdits /\ 0 \in 0..MaxDeaths
  BY BoundsAssumption

LEMMA TypeSplit == FilesOK /\ RunsOK /\ WishOK /\ HistoryOK => TypeOK
  BY DEF FilesOK, RunsOK, WishOK, HistoryOK, TypeOK, Labels, Applying

LEMMA NoCommandIsCommand == NoCommand \in Commands
  BY DEF NoCommand, Commands

(* Reading a file gives a row, and a row is read as it is. *)
LEMMA Reading ==
  /\ \A h \in AnyHooks : HooksIn(h) \in HooksFile
  /\ \A c \in AnyConfig : ConfigIn(c) \in ConfigFile
  /\ \A h \in HooksFile : HooksIn(h) = h
  /\ \A c \in ConfigFile : ConfigIn(c) = c
  /\ \A m \in ManifestFile : Registered(m)
  /\ \A m \in ManifestFile \union {NoFile} : Registered(m) => m \in ManifestFile
<1>1. EmptyHooks \in HooksFile
  BY Bounds DEF EmptyHooks, HooksFile
<1>2. EmptyConfig \in ConfigFile
  BY Bounds DEF EmptyConfig, ConfigFile, Feature, Profile
<1> QED
  BY <1>1, <1>2, NoFileAssumption DEF HooksIn, ConfigIn, AnyHooks, AnyConfig, Registered

LEMMA UserConfigTyped ==
  ASSUME NEW f \in ConfigFile
  PROVE UserConfig(f) \in [user : 0..MaxEdits, server : BOOLEAN, profile : BOOLEAN]
  BY DEF UserConfig, ConfigFile

LEMMA MergedProfile ==
  ASSUME NEW m \in ManifestFile \union {NoFile}, NEW ai \in BOOLEAN, NEW f \in AnyConfig
  PROVE /\ MergeProfile(ConfigIn(f).profile, ai, m) \in Profile
        /\ OwnedProfile(f, ai, m) \in Profile
        /\ MergeConfig(f, ai, m) \in ConfigFile
<1>1. ConfigIn(f) \in ConfigFile
  BY Reading
<1>2. ConfigIn(f).profile \in Profile
  BY <1>1 DEF ConfigFile
<1>3. MergeProfile(ConfigIn(f).profile, ai, m) \in Profile
  BY <1>2 DEF MergeProfile, Profile
<1>4. MergeConfig(f, ai, m) \in ConfigFile
  BY <1>1, <1>3 DEF MergeConfig, ConfigFile, Feature
<1>5. Registered(m) => m.profile \in Profile
  BY Reading DEF ManifestFile
<1>6. MergeConfig(f, ai, m).profile \in Profile
  BY <1>4 DEF ConfigFile
<1>7. OwnedProfile(f, ai, m) \in Profile
  BY <1>5, <1>6 DEF OwnedProfile, Profile
<1> QED BY <1>3, <1>4, <1>7

(* The plan of a setup is a journal, for the repository it was asked for.  *)
LEMMA InstallTyped ==
  ASSUME FilesOK, NEW c \in Commands, c.op = "install"
  PROVE /\ InstallPlan(c) \in JournalFile
        /\ InstallPlan(c).manifest \in ManifestFile
        /\ InstallPlan(c).manifest.repo = c.repo
<1> DEFINE ai == Ai(c, manifest)
           h == MergeHooks(hooks)
           k == MergeConfig(config, ai, manifest)
           m == InstallPlan(c).manifest
<1>1. c.repo \in Repository /\ c.ai \in BOOLEAN
  BY DEF Commands
<1>2. Registered(manifest) => manifest \in ManifestFile
  BY Reading DEF FilesOK
<1>3. ai \in BOOLEAN
  BY <1>1, <1>2 DEF Ai, ManifestFile
<1>4. h \in HooksFile
  BY Reading DEF FilesOK, MergeHooks, HooksFile
<1>5. k \in ConfigFile /\ OwnedProfile(config, ai, manifest) \in Profile
  BY <1>3, MergedProfile DEF FilesOK
<1>6. ConfigIn(config).feature \in Feature
  BY Reading DEF FilesOK, ConfigFile
<1>7. /\ InstallPlan(c).op = "install" /\ InstallPlan(c).hooks = h /\ InstallPlan(c).config = k
      /\ m.repo = c.repo
  BY DEF InstallPlan
<1>8. m \in ManifestFile
  <2>1. (IF ~Registered(manifest) THEN hooks ELSE manifest.hooksBackup) \in AnyHooks
    BY <1>2 DEF FilesOK, ManifestFile
  <2>2. (IF ~Registered(manifest) THEN config ELSE manifest.configBackup) \in AnyConfig
    BY <1>2 DEF FilesOK, ManifestFile
  <2>3. (IF ~Registered(manifest) THEN ConfigIn(config).feature ELSE manifest.featureBefore)
          \in Feature
    BY <1>2, <1>6 DEF ManifestFile
  <2>4. (IF ~Registered(manifest) THEN ConfigIn(config).feature # "on"
                                  ELSE manifest.featureManaged) \in BOOLEAN
    BY <1>2 DEF ManifestFile
  <2> HIDE DEF ai, h, k
  <2>5. m = [repo |-> c.repo,
             hooksBackup |-> IF ~Registered(manifest) THEN hooks ELSE manifest.hooksBackup,
             configBackup |-> IF ~Registered(manifest) THEN config ELSE manifest.configBackup,
             hooks |-> h, config |-> k,
             featureBefore |-> IF ~Registered(manifest) THEN ConfigIn(config).feature
                               ELSE manifest.featureBefore,
             featureManaged |-> IF ~Registered(manifest) THEN ConfigIn(config).feature # "on"
                                ELSE manifest.featureManaged,
             ai |-> ai,
             profile |-> OwnedProfile(config, ai, manifest)]
    BY DEF InstallPlan, ai, h, k
  <2> HIDE DEF m
  <2> QED BY <1>1, <1>3, <1>4, <1>5, <2>1, <2>2, <2>3, <2>4, <2>5 DEF ManifestFile
<1>9. InstallPlan(c) = [op |-> "install", hooks |-> h, config |-> k, manifest |-> m]
  BY DEF InstallPlan
<1>10. InstallPlan(c) \in JournalFile
  <2> HIDE DEF h, k, m
  <2> QED BY <1>4, <1>5, <1>8, <1>9 DEF JournalFile, AnyHooks, AnyConfig
<1> QED BY <1>7, <1>8, <1>10

LEMMA UninstallTyped ==
  ASSUME FilesOK, Registered(manifest)
  PROVE UninstallPlan \in JournalFile /\ UninstallPlan.manifest = NoFile
<1>1. manifest \in ManifestFile
  BY Reading DEF FilesOK
<1>2. UninstallPlan.hooks \in AnyHooks
  BY <1>1 DEF FilesOK, UninstallPlan, ManifestFile, AnyHooks, HooksFile, RemoveManagedHooks
<1>3. UninstallPlan.config \in AnyConfig
  <2>1. ASSUME config \in ConfigFile PROVE RemoveManagedConfig(config, manifest) \in ConfigFile
    <3>1. /\ config.server \in {"none", "managed", "foreign"} /\ config.profile \in Profile
          /\ config.feature \in Feature /\ manifest.featureBefore \in Feature
      BY <1>1, <2>1 DEF ConfigFile, ManifestFile
    <3> QED BY <2>1, <3>1 DEF RemoveManagedConfig, ConfigFile, Profile
  <2>2. manifest.configBackup \in AnyConfig
    BY <1>1 DEF ManifestFile
  <2> QED BY <2>1, <2>2 DEF FilesOK, UninstallPlan, AnyConfig
<1>4. UninstallPlan = [op |-> "uninstall", hooks |-> UninstallPlan.hooks,
                       config |-> UninstallPlan.config, manifest |-> NoFile]
  BY DEF UninstallPlan
<1> QED BY <1>2, <1>3, <1>4 DEF JournalFile
-------------------------------------------------------------------------------
(* Types.                                                                  *)

LEMMA Exits ==
  ASSUME RunsOK, NEW p \in Run, Exit(p)
  PROVE /\ RunsOK'
        /\ pc' = [pc EXCEPT ![p] = "idle"]
        /\ \A q \in Run \ {p} : plan'[q] = plan[q] /\ command'[q] = command[q]
<1>1. pc' = [pc EXCEPT ![p] = "idle"]
  BY DEF Exit, Goto
<1>2. RunsOK'
  BY NoCommandIsCommand DEF Exit, Goto, RunsOK, Labels, Applying
<1> QED BY <1>1, <1>2 DEF Exit, RunsOK

(* A run that goes on to another control point, with its plan, or gets one.*)
LEMMA Moves ==
  ASSUME RunsOK, NEW p \in Run, NEW l \in Labels, Goto(p, l),
         command' \in [Run -> Commands], recovering' \in [Run -> BOOLEAN],
         NEW x \in JournalFile \union {NoFile}, plan' = [plan EXCEPT ![p] = x],
         l \in Applying \union {"persist"} => x \in JournalFile
  PROVE RunsOK'
<1>1. pc' \in [Run -> Labels] /\ plan' \in [Run -> JournalFile \union {NoFile}]
  BY DEF Goto, RunsOK
<1>2. \A q \in Run : pc'[q] \in Applying \union {"persist"} => plan'[q] \in JournalFile
  BY DEF Goto, RunsOK
<1> QED BY <1>1, <1>2 DEF RunsOK

LEMMA MovesOn ==
  ASSUME RunsOK, NEW p \in Run, NEW l \in Labels, Goto(p, l),
         UNCHANGED <<command, recovering, plan>>,
         l \in Applying \union {"persist"} => plan[p] \in JournalFile
  PROVE RunsOK'
<1>1. pc' \in [Run -> Labels]
  BY DEF Goto, RunsOK
<1>2. \A q \in Run : pc'[q] \in Applying \union {"persist"} => plan'[q] \in JournalFile
  BY DEF Goto, RunsOK
<1> QED BY <1>1, <1>2 DEF RunsOK

LEMMA Edited ==
  ASSUME FilesOK, WishOK, edits \in 0..MaxEdits, Edit
  PROVE /\ edits' \in 0..MaxEdits /\ edits' # 0
        /\ EditHooks => hooks' \in AnyHooks /\ WishOK'
        /\ EditConfig => config' \in AnyConfig /\ WishOK'
<1>1. edits' = edits + 1 /\ edits + 1 \in 0..MaxEdits /\ edits' # 0
  BY Bounds DEF Edit
<1>2. ASSUME EditHooks PROVE hooks' \in AnyHooks /\ WishOK'
  <2>1. HooksIn(hooks) \in HooksFile
    BY Reading DEF FilesOK
  <2>2. [HooksIn(hooks) EXCEPT !.user = edits + 1] \in HooksFile
    BY <1>1, <2>1 DEF HooksFile
  <2>3. hooks' \in AnyHooks
    BY <1>2, <2>2 DEF EditHooks, AnyHooks
  <2>4. HooksIn(hooks').user \in 0..MaxEdits
    BY <2>3, Reading DEF HooksFile
  <2> QED BY <1>2, <2>3, <2>4 DEF EditHooks, WishOK
<1>3. ASSUME EditConfig PROVE config' \in AnyConfig /\ WishOK'
  <2>1. ConfigIn(config) \in ConfigFile
    BY Reading DEF FilesOK
  <2> DEFINE f == ConfigIn(config)
  <2>2. [f EXCEPT !.user = edits + 1] \in ConfigFile
    BY <1>1, <2>1 DEF ConfigFile
  <2>3. [f EXCEPT !.server = "foreign"] \in ConfigFile
    BY <2>1 DEF ConfigFile
  <2>4. \A v \in {"unset", "off"} : [f EXCEPT !.feature = v] \in ConfigFile
    BY <2>1 DEF ConfigFile, Feature
  <2>5. \A v \in {"none", "user"} : [f EXCEPT !.profile = v] \in ConfigFile
    BY <2>1 DEF ConfigFile, Profile
  <2>6. config' \in AnyConfig
    BY <1>3, <2>2, <2>3, <2>4, <2>5 DEF EditConfig, ConfigEdits, AnyConfig
  <2>7. ConfigIn(config') \in ConfigFile
    BY <2>6, Reading
  <2>8. UserConfig(ConfigIn(config'))
          \in [user : 0..MaxEdits, server : BOOLEAN, profile : BOOLEAN]
    BY <2>7, UserConfigTyped
  <2>9. ConfigIn(config').feature \in Feature /\ wish.feature \in Feature
    BY <2>7 DEF ConfigFile, WishOK
  <2>10. wish' = [hooks |-> wish.hooks, config |-> UserConfig(ConfigIn(config')),
                  feature |-> IF ConfigIn(config').feature = ConfigIn(config).feature
                              THEN wish.feature ELSE ConfigIn(config').feature]
    BY <1>3 DEF EditConfig, WishOK
  <2> QED BY <2>6, <2>8, <2>9, <2>10 DEF WishOK
<1> QED BY <1>1, <1>2, <1>3

LEMMA TypesStep ==
  ASSUME FilesOK, RunsOK, WishOK, HistoryOK, [Next]_vars
  PROVE FilesOK' /\ RunsOK' /\ WishOK' /\ HistoryOK'
<1>0. CASE UNCHANGED vars
  BY <1>0 DEF vars, FilesOK, RunsOK, WishOK, HistoryOK
<1>1. ASSUME NEW p \in Run, NEW c \in Commands, Begin(p, c)
      PROVE FilesOK' /\ RunsOK' /\ WishOK' /\ HistoryOK'
  <2>1. RunsOK'
    <3>1. command' \in [Run -> Commands]
      BY <1>1 DEF Begin, RunsOK
    <3> QED BY <1>1, <3>1, MovesOn
        DEF Begin, RunsOK, Labels, Applying, Goto
  <2> QED BY <1>1, <2>1 DEF Begin, files, FilesOK, WishOK, HistoryOK
<1>2. ASSUME NEW p \in Run, ReadJournal(p)
      PROVE FilesOK' /\ RunsOK' /\ WishOK' /\ HistoryOK'
  <2> DEFINE l == IF journal = NoFile THEN "check" ELSE "hooks"
  <2>1. Goto(p, l) /\ l \in Labels
    BY <1>2 DEF ReadJournal, Labels, Applying
  <2>2. l \in Applying \union {"persist"} => journal \in JournalFile
    BY DEF FilesOK, Applying
  <2>3. recovering' \in [Run -> BOOLEAN] /\ command' \in [Run -> Commands]
    BY <1>2 DEF ReadJournal, RunsOK
  <2>4. plan' = [plan EXCEPT ![p] = journal] /\ journal \in JournalFile \union {NoFile}
    BY <1>2 DEF ReadJournal, FilesOK
  <2> HIDE DEF l
  <2>5. RunsOK'
    BY <2>1, <2>2, <2>3, <2>4, Moves
  <2> QED BY <1>2, <2>5 DEF ReadJournal, files, history, FilesOK, WishOK, HistoryOK
<1>3. ASSUME NEW p \in Run, ApplyHooks(p) \/ ApplyConfig(p) \/ ApplyManifest(p)
      PROVE FilesOK' /\ RunsOK' /\ WishOK' /\ HistoryOK'
  <2>1. plan[p] \in JournalFile
    BY <1>3 DEF RunsOK, ApplyHooks, ApplyConfig, ApplyManifest, Applying
  <2>2. /\ plan[p].hooks \in AnyHooks /\ plan[p].config \in AnyConfig
        /\ plan[p].manifest \in ManifestFile \union {NoFile}
    BY <2>1 DEF JournalFile
  <2>3. RunsOK'
    BY <1>3, <2>1, MovesOn DEF ApplyHooks, ApplyConfig, ApplyManifest, Labels, Applying
  <2> QED
    BY <1>3, <2>2, <2>3
       DEF ApplyHooks, ApplyConfig, ApplyManifest, history, FilesOK, WishOK, HistoryOK
<1>4. ASSUME NEW p \in Run, RemoveJournal(p)
      PROVE FilesOK' /\ RunsOK' /\ WishOK' /\ HistoryOK'
  <2>1. RunsOK'
    <3>1. CASE recovering[p]
      <4>1. Goto(p, "check") /\ plan' = [plan EXCEPT ![p] = NoFile] /\ "check" \in Labels
        BY <1>4, <3>1 DEF RemoveJournal, Labels
      <4>2. recovering' \in [Run -> BOOLEAN] /\ command' \in [Run -> Commands]
        BY <1>4, <3>1 DEF RemoveJournal, RunsOK
      <4> QED BY <4>1, <4>2, Moves DEF Applying
    <3>2. CASE ~recovering[p]
      BY <1>4, <3>2, Exits DEF RemoveJournal
    <3> QED BY <3>1, <3>2
  <2> QED BY <1>4, <2>1 DEF RemoveJournal, files, history, FilesOK, WishOK, HistoryOK
<1>5. ASSUME NEW p \in Run, Refuse(p) \/ PlanFails(p)
      PROVE FilesOK' /\ RunsOK' /\ WishOK' /\ HistoryOK'
  <2>1. RunsOK'
    BY <1>5, Exits DEF Refuse, PlanFails
  <2> QED BY <1>5, <2>1 DEF Refuse, PlanFails, files, history, FilesOK, WishOK, HistoryOK
<1>6. ASSUME NEW p \in Run, Check(p)
      PROVE FilesOK' /\ RunsOK' /\ WishOK' /\ HistoryOK'
  <2>1. RunsOK'
    BY <1>6, MovesOn DEF Check, Labels, Applying
  <2> QED BY <1>6, <2>1 DEF Check, files, history, FilesOK, WishOK, HistoryOK
<1>7. ASSUME NEW p \in Run, PlanInstall(p) \/ PlanUninstall(p)
      PROVE FilesOK' /\ RunsOK' /\ WishOK' /\ HistoryOK'
  <2>0. command[p] \in Commands
    BY DEF RunsOK
  <2>1. PICK x \in JournalFile : plan' = [plan EXCEPT ![p] = x]
    BY <1>7, <2>0, InstallTyped, UninstallTyped DEF PlanInstall, PlanUninstall
  <2>2. RunsOK'
    <3>1. Goto(p, "persist") /\ "persist" \in Labels
      BY <1>7 DEF PlanInstall, PlanUninstall, Labels
    <3>2. recovering' \in [Run -> BOOLEAN] /\ command' \in [Run -> Commands]
      BY <1>7 DEF PlanInstall, PlanUninstall, RunsOK
    <3> QED BY <2>1, <3>1, <3>2, Moves
  <2>3. absorbed' \in BOOLEAN
    BY <1>7 DEF PlanInstall, PlanUninstall, HistoryOK
  <2> QED
    BY <1>7, <2>2, <2>3
       DEF PlanInstall, PlanUninstall, files, history, FilesOK, WishOK, HistoryOK
<1>8. ASSUME NEW p \in Run, Persist(p)
      PROVE FilesOK' /\ RunsOK' /\ WishOK' /\ HistoryOK'
  <2>1. plan[p] \in JournalFile
    BY <1>8 DEF Persist, RunsOK
  <2>2. RunsOK'
    BY <1>8, <2>1, MovesOn DEF Persist, Labels, Applying
  <2> QED BY <1>8, <2>1, <2>2 DEF Persist, files, history, FilesOK, WishOK, HistoryOK
<1>9. ASSUME NEW p \in Run, Die(p)
      PROVE FilesOK' /\ RunsOK' /\ WishOK' /\ HistoryOK'
  <2>1. RunsOK'
    BY <1>9, Exits DEF Die
  <2>2. deaths' \in 0..MaxDeaths
    BY <1>9, Bounds DEF Die, HistoryOK
  <2> QED BY <1>9, <2>1, <2>2 DEF Die, files, history, FilesOK, WishOK, HistoryOK
<1>10. ASSUME EditHooks \/ EditConfig
       PROVE FilesOK' /\ RunsOK' /\ WishOK' /\ HistoryOK'
  <2>1. Edit
    BY <1>10 DEF EditHooks, EditConfig
  <2>2. raced' \in BOOLEAN
    BY <2>1 DEF Edit, HistoryOK
  <2>3. edits' \in 0..MaxEdits /\ WishOK' /\ hooks' \in AnyHooks /\ config' \in AnyConfig
    BY <1>10, <2>1, Edited DEF EditHooks, EditConfig, FilesOK, HistoryOK
  <2> QED BY <2>1, <2>2, <2>3 DEF Edit, runVars, FilesOK, RunsOK, HistoryOK
<1> QED
  BY <1>0, <1>1, <1>2, <1>3, <1>4, <1>5, <1>6, <1>7, <1>8, <1>9, <1>10 DEF Next, Step
-------------------------------------------------------------------------------
(* The order of a run that runs alone.                                     *)

LEMMA Position ==
  ASSUME RunsOK, Ordered, ~overlapped, NEW p \in Run, pc[p] # "idle"
  PROVE InOrder(p) /\ \A q \in Run \ {p} : pc[q] = "idle"
  BY DEF Ordered, Alone

(* What is known of the run that takes a step is enough. *)
LEMMA OnlyOne ==
  ASSUME RunsOK, Ordered, NEW p \in Run, overlapped' = overlapped, pc[p] # "idle",
         NEW l \in Labels, Goto(p, l),
         ~overlapped => InOrder(p)'
  PROVE Ordered'
<1> SUFFICES ASSUME ~overlapped PROVE Ordered'
  BY DEF Ordered
<1>1. \A q \in Run \ {p} : pc[q] = "idle"
  BY Position
<1>2. \A q \in Run \ {p} : pc'[q] = "idle"
  BY <1>1 DEF Goto, RunsOK
<1>3. \A q \in Run \ {p} : InOrder(q)'
  BY <1>2 DEF InOrder, Applying
<1> QED BY <1>2, <1>3 DEF Ordered, Alone

LEMMA Idles ==
  ASSUME RunsOK, Ordered, NEW p \in Run, overlapped' = overlapped, pc[p] # "idle", Exit(p)
  PROVE Ordered'
<1>1. Goto(p, "idle") /\ "idle" \in Labels
  BY DEF Exit, Labels
<1>2. InOrder(p)'
  BY <1>1 DEF Goto, RunsOK, InOrder, Applying
<1> QED BY <1>1, <1>2, OnlyOne

LEMMA OrderStep ==
  ASSUME FilesOK, RunsOK, Ordered, [Next]_vars
  PROVE Ordered'
<1>0. CASE UNCHANGED vars
  BY <1>0 DEF vars, Ordered, Alone, InOrder, MayRegister, RepositoryOf, Registered
<1>1. ASSUME NEW p \in Run, NEW c \in Commands, Begin(p, c) PROVE Ordered'
  <2> SUFFICES ASSUME ~overlapped' PROVE Ordered'
    BY DEF Ordered
  <2>1. \A q \in Run : pc[q] = "idle"
    BY <1>1 DEF Begin
  <2>2. \A q \in Run : pc'[q] = IF q = p THEN "recover" ELSE "idle"
    BY <1>1, <2>1 DEF Begin, Goto, RunsOK
  <2> QED BY <2>2 DEF Ordered, Alone, InOrder, Applying
<1>2. ASSUME NEW p \in Run, ReadJournal(p) PROVE Ordered'
  <2> DEFINE l == IF journal = NoFile THEN "check" ELSE "hooks"
  <2>1. Goto(p, l) /\ l \in Labels /\ pc[p] # "idle" /\ overlapped' = overlapped
    BY <1>2 DEF ReadJournal, Labels, Applying, history
  <2>2. pc'[p] = l /\ plan'[p] = journal /\ journal' = journal
    BY <1>2 DEF ReadJournal, Goto, RunsOK
  <2>3. InOrder(p)'
    BY <2>2 DEF InOrder, Applying
  <2> QED BY <2>1, <2>3, OnlyOne
<1>3. ASSUME NEW p \in Run, ApplyHooks(p) \/ ApplyConfig(p) \/ ApplyManifest(p) PROVE Ordered'
  <2>1. PICK l \in {"config", "manifest", "unjournal"} :
           Goto(p, l) /\ (l = "unjournal" => manifest' = plan[p].manifest)
    BY <1>3 DEF ApplyHooks, ApplyConfig, ApplyManifest
  <2>2. /\ pc[p] \in Applying /\ overlapped' = overlapped /\ journal' = journal /\ plan' = plan
    BY <1>3 DEF ApplyHooks, ApplyConfig, ApplyManifest, Applying, history
  <2>3. pc'[p] = l
    BY <2>1 DEF Goto, RunsOK
  <2>4. ~overlapped => journal = plan[p]
    BY <2>2 DEF Ordered, InOrder
  <2>5. ~overlapped => InOrder(p)'
    BY <2>1, <2>2, <2>3, <2>4 DEF InOrder, Applying
  <2>6. l \in Labels /\ pc[p] # "idle"
    BY <2>2 DEF Labels, Applying
  <2> QED BY <2>1, <2>2, <2>5, <2>6, OnlyOne
<1>4. ASSUME NEW p \in Run, RemoveJournal(p) PROVE Ordered'
  <2>1. pc[p] # "idle" /\ overlapped' = overlapped /\ journal' = NoFile
    BY <1>4 DEF RemoveJournal, history
  <2>2. CASE recovering[p]
    <3>1. Goto(p, "check") /\ "check" \in Labels
      BY <1>4, <2>2 DEF RemoveJournal, Labels
    <3>2. InOrder(p)'
      BY <2>1, <3>1 DEF Goto, RunsOK, InOrder, Applying
    <3> QED BY <2>1, <3>1, <3>2, OnlyOne
  <2>3. CASE ~recovering[p]
    BY <1>4, <2>1, <2>3, Idles DEF RemoveJournal
  <2> QED BY <2>2, <2>3
<1>5. ASSUME NEW p \in Run, Refuse(p) \/ PlanFails(p) \/ Die(p) PROVE Ordered'
  <2>1. pc[p] # "idle" /\ overlapped' = overlapped /\ Exit(p)
    BY <1>5 DEF Refuse, PlanFails, Die, history
  <2> QED BY <2>1, Idles
<1>6. ASSUME NEW p \in Run, Check(p) PROVE Ordered'
  <2>1. pc[p] = "check" /\ overlapped' = overlapped /\ journal' = journal /\ Goto(p, "plan")
    BY <1>6 DEF Check, history
  <2>2. ~overlapped => InOrder(p)'
    BY <2>1 DEF Ordered, Goto, RunsOK, InOrder, Applying
  <2> QED BY <2>1, <2>2, OnlyOne DEF Labels
<1>7. ASSUME NEW p \in Run, PlanInstall(p) \/ PlanUninstall(p) PROVE Ordered'
  <2>1. /\ pc[p] = "plan" /\ overlapped' = overlapped /\ Goto(p, "persist")
        /\ journal' = journal /\ manifest' = manifest
    BY <1>7 DEF PlanInstall, PlanUninstall, files, history
  <2>2. pc'[p] = "persist"
    BY <2>1 DEF Goto, RunsOK
  <2>3. MayRegister(plan[p].manifest)'
    <3>1. CASE PlanInstall(p)
      <4>1. plan'[p] = InstallPlan(command[p]) /\ command[p] \in Commands
            /\ command[p].op = "install" /\ ~ForeignRegistration(command[p])
        BY <3>1 DEF PlanInstall, RunsOK
      <4>2. plan'[p].manifest.repo = command[p].repo /\ Registered(plan'[p].manifest)
        BY <4>1, InstallTyped, Reading
      <4> QED
        BY <2>1, <4>1, <4>2 DEF MayRegister, RepositoryOf, ForeignRegistration, Registered
    <3>2. CASE PlanUninstall(p)
      <4>1. plan'[p] = UninstallPlan /\ Registered(manifest)
        BY <3>2 DEF PlanUninstall, RunsOK
      <4>2. plan'[p].manifest = NoFile
        BY <4>1, UninstallTyped
      <4> QED BY <4>2 DEF MayRegister, RepositoryOf, Registered
    <3> QED BY <1>7, <3>1, <3>2
  <2>4. ~overlapped => InOrder(p)'
    BY <2>1, <2>2, <2>3 DEF Ordered, InOrder, Applying
  <2> QED BY <2>1, <2>4, OnlyOne DEF Labels
<1>8. ASSUME NEW p \in Run, Persist(p) PROVE Ordered'
  <2>1. /\ pc[p] = "persist" /\ overlapped' = overlapped /\ journal' = plan[p]
        /\ plan' = plan /\ Goto(p, "hooks")
    BY <1>8 DEF Persist, history
  <2>2. InOrder(p)'
    BY <2>1 DEF Goto, RunsOK, InOrder, Applying
  <2> QED BY <2>1, <2>2, OnlyOne DEF Labels, Applying
<1>9. ASSUME EditHooks \/ EditConfig PROVE Ordered'
  <2>1. UNCHANGED <<manifest, journal, pc, plan, overlapped>>
    BY <1>9 DEF EditHooks, EditConfig, Edit, runVars
  <2> QED BY <2>1 DEF Ordered, Alone, InOrder, MayRegister, RepositoryOf, Registered
<1> QED
  BY <1>0, <1>1, <1>2, <1>3, <1>4, <1>5, <1>6, <1>7, <1>8, <1>9 DEF Next, Step
-------------------------------------------------------------------------------
(* What a plan makes of the files.                                         *)

(* A profile is the user's or one that setup owns, before and after. *)
LEMMA InstalledProfile ==
  ASSUME FilesOK, NEW c \in Commands, ~ForeignProfile(c),
         Registered(manifest) => OwnsProfile(config, manifest),
         ~Registered(manifest) => ConfigIn(config).profile # "managed"
  PROVE LET ai == Ai(c, manifest)
            old == ConfigIn(config).profile
            new == MergeProfile(old, ai, manifest)
            owned == OwnedProfile(config, ai, manifest)
        IN /\ owned # "user"
           /\ ai => owned = "managed"
           /\ new = "managed" => ai
           /\ new = "user" <=> old = "user"
<1> DEFINE ai == Ai(c, manifest)
           old == ConfigIn(config).profile
           new == MergeProfile(old, ai, manifest)
<1>1. old \in Profile
  BY Reading DEF FilesOK, ConfigFile
<1>2. ai /\ old # "none" => Registered(manifest) /\ manifest.ai
  BY DEF ForeignProfile
<1>3. MergeConfig(config, ai, manifest).profile = new
  BY Reading DEF FilesOK, MergeConfig, ConfigFile
<1>4. Registered(manifest) /\ manifest.ai => ai
  BY DEF Ai
<1>5. new = IF ai /\ (old = "none" \/ (Registered(manifest) /\ manifest.profile = old))
            THEN "managed" ELSE old
  BY DEF MergeProfile
<1>6. OwnedProfile(config, ai, manifest) =
        IF ~ai THEN "none"
        ELSE IF Registered(manifest) /\ manifest.profile # "none"
                /\ old \notin {"none", manifest.profile}
             THEN manifest.profile ELSE new
  BY <1>3 DEF OwnedProfile
<1> HIDE DEF ai, old, new
<1>7. /\ Registered(manifest) =>
           /\ manifest.profile # "user" /\ (manifest.ai => manifest.profile = "managed")
           /\ old = "managed" => manifest.ai
      /\ ~Registered(manifest) => old # "managed"
  BY DEF OwnsProfile, old
<1>8. /\ OwnedProfile(config, ai, manifest) # "user"
      /\ ai => OwnedProfile(config, ai, manifest) = "managed"
      /\ new = "managed" => ai
      /\ new = "user" <=> old = "user"
  BY <1>1, <1>2, <1>4, <1>5, <1>6, <1>7 DEF Profile
<1> QED BY <1>8 DEF ai, old, new

LEMMA Installs ==
  ASSUME FilesOK, NEW c \in Commands, c.op = "install", Faithful(hooks, config, manifest),
         ~ForeignProfile(c), ConfigIn(config).server # "foreign",
         NEW j, j = InstallPlan(c)
  PROVE /\ Sound(j.hooks, j.config, j.manifest)
        /\ ~absorbed /\ (Registered(manifest) => hooks = manifest.hooks /\ config = manifest.config)
             => Kept(j.hooks, j.config, j.manifest)
<1> DEFINE ai == Ai(c, manifest)
           f == ConfigIn(config)
           n == j.manifest
           owned == OwnedProfile(config, ai, manifest)
           new == MergeProfile(f.profile, ai, manifest)
<1>1. /\ j \in JournalFile /\ n \in ManifestFile /\ Registered(n)
  BY InstallTyped, Reading
<1>2. /\ n.hooks \in HooksFile /\ n.config \in ConfigFile
      /\ n.hooksBackup \in AnyHooks /\ n.configBackup \in AnyConfig
  BY <1>1 DEF ManifestFile
<1>3. f \in ConfigFile /\ HooksIn(hooks) \in HooksFile
  BY Reading DEF FilesOK
<1>4. Registered(manifest) => manifest \in ManifestFile
  BY Reading DEF FilesOK
<1>5. /\ j.hooks = n.hooks /\ j.config = n.config
      /\ n.hooks = MergeHooks(hooks) /\ n.config = MergeConfig(config, ai, manifest)
      /\ n.ai = ai /\ n.profile = owned
      /\ ~Registered(manifest) =>
           /\ n.hooksBackup = hooks /\ n.configBackup = config
           /\ n.featureBefore = f.feature /\ n.featureManaged = (f.feature # "on")
      /\ Registered(manifest) =>
           /\ n.hooksBackup = manifest.hooksBackup /\ n.configBackup = manifest.configBackup
           /\ n.featureBefore = manifest.featureBefore
           /\ n.featureManaged = manifest.featureManaged
  BY DEF InstallPlan
<1>6. n.hooks.user = HooksIn(hooks).user
  BY <1>3, <1>5 DEF MergeHooks, HooksFile
<1>7. /\ n.config.user = f.user /\ n.config.server = "managed" /\ n.config.feature = "on"
      /\ n.config.profile = new
  BY <1>3, <1>5 DEF MergeConfig, ConfigFile
<1>8. Registered(manifest) => OwnsProfile(config, manifest)
  BY DEF Faithful, Sound
<1>9. ~Registered(manifest) => Clean(hooks, config)
  BY DEF Faithful, Sound
<1>10. /\ owned # "user" /\ (ai => owned = "managed") /\ (new = "managed" => ai)
       /\ new = "user" <=> f.profile = "user"
  BY <1>8, <1>9, InstalledProfile DEF Clean
<1>11. Clean(n.hooksBackup, n.configBackup)
  BY <1>5, <1>9 DEF Faithful, Sound
<1>12. HooksIn(j.hooks) = n.hooks /\ ConfigIn(j.config) = n.config
  BY <1>2, <1>5, Reading
<1>13. OwnsProfile(j.config, n)
  BY <1>5, <1>7, <1>10, <1>12 DEF OwnsProfile
<1>14. Sound(j.hooks, j.config, n)
  BY <1>1, <1>5, <1>11, <1>13 DEF Sound
<1>15. UserConfig(n.config) = UserConfig(f)
  <2>1. n.config.server = "foreign" <=> f.server = "foreign"
    BY <1>7
  <2> QED BY <1>7, <1>10, <2>1 DEF UserConfig
<1>16. ASSUME ~absorbed,
              Registered(manifest) => hooks = manifest.hooks /\ config = manifest.config
       PROVE Kept(j.hooks, j.config, n)
  <2>1. Kept(hooks, config, manifest)
    BY <1>16 DEF Faithful
  <2>2. SameUser(j.hooks, j.config)
    BY <1>6, <1>12, <1>15, <2>1 DEF Kept, SameUser
  <2>3. CASE ~Registered(manifest)
    <3>1. Backed(n)
      BY <1>5, <1>6, <1>7, <1>15, <2>3 DEF Backed
    <3>2. Feels(j.config, n.featureBefore)
      BY <1>5, <1>7, <1>12, <2>1, <2>3 DEF Kept, Feels
    <3> QED BY <1>1, <2>2, <3>1, <3>2 DEF Kept
  <2>4. CASE Registered(manifest)
    <3>1. HooksIn(hooks) = manifest.hooks /\ f = manifest.config
      BY <1>4, <1>16, <2>4, Reading DEF ManifestFile
    <3>2. Backed(manifest) /\ Feels(config, manifest.featureBefore)
      BY <2>1, <2>4 DEF Kept
    <3>3. Backed(n)
      BY <1>5, <1>6, <1>7, <1>15, <2>4, <3>1, <3>2 DEF Backed
    <3>4. Feels(j.config, n.featureBefore)
      BY <1>5, <1>7, <1>12, <2>4, <3>1, <3>2 DEF Feels, Backed
    <3> QED BY <1>1, <2>2, <3>3, <3>4 DEF Kept
  <2> QED BY <2>3, <2>4
<1> QED BY <1>14, <1>16

LEMMA Uninstalls ==
  ASSUME FilesOK, Registered(manifest), Faithful(hooks, config, manifest),
         NEW j, j = UninstallPlan
  PROVE Faithful(j.hooks, j.config, j.manifest)
<1>1. manifest \in ManifestFile /\ manifest.hooks \in HooksFile /\ manifest.config \in ConfigFile
  BY Reading DEF FilesOK, ManifestFile
<1>2. /\ Clean(manifest.hooksBackup, manifest.configBackup)
      /\ OwnsProfile(config, manifest)
  BY DEF Faithful, Sound
<1>3. ~absorbed => SameUser(hooks, config) /\ Backed(manifest) /\ Feels(config, manifest.featureBefore)
  BY DEF Faithful, Kept
<1>4. /\ ~HooksIn(j.hooks).managed
      /\ ~absorbed => HooksIn(j.hooks).user = wish.hooks
  <2>1. CASE hooks = manifest.hooks
    <3>1. j.hooks = manifest.hooksBackup /\ HooksIn(hooks) = manifest.hooks
      BY <1>1, <2>1, Reading DEF UninstallPlan
    <3> QED BY <1>2, <1>3, <3>1 DEF Clean, SameUser, Backed
  <2>2. CASE hooks # manifest.hooks /\ hooks = NoFile
    <3>1. j.hooks = hooks /\ HooksIn(hooks) = EmptyHooks
      BY <2>2 DEF UninstallPlan, HooksIn
    <3> QED BY <1>3, <3>1 DEF EmptyHooks, SameUser
  <2>3. CASE hooks # manifest.hooks /\ hooks # NoFile
    <3>1. hooks \in HooksFile
      BY <2>3 DEF FilesOK, AnyHooks
    <3>2. j.hooks = [hooks EXCEPT !.managed = FALSE]
      BY <2>3 DEF UninstallPlan, RemoveManagedHooks
    <3>3. j.hooks \in HooksFile /\ j.hooks.user = hooks.user /\ ~j.hooks.managed
      BY <3>1, <3>2 DEF HooksFile
    <3>4. HooksIn(j.hooks) = j.hooks /\ HooksIn(hooks) = hooks
      BY <3>1, <3>3, Reading
    <3> QED BY <1>3, <3>3, <3>4 DEF SameUser
  <2> QED BY <2>1, <2>2, <2>3
<1>5. /\ ConfigIn(j.config).server # "managed" /\ ConfigIn(j.config).profile # "managed"
      /\ ~absorbed => /\ UserConfig(ConfigIn(j.config)) = wish.config
                      /\ wish.feature = ConfigIn(j.config).feature
  <2>1. CASE config = manifest.config
    <3>1. j.config = manifest.configBackup /\ ConfigIn(config) = manifest.config
      BY <1>1, <2>1, Reading DEF UninstallPlan
    <3> QED BY <1>2, <1>3, <3>1 DEF Clean, SameUser, Backed, Feels
  <2>2. CASE config # manifest.config /\ config = NoFile
    <3>1. j.config = config /\ ConfigIn(config) = EmptyConfig
      BY <2>2 DEF UninstallPlan, ConfigIn
    <3> QED BY <1>3, <3>1 DEF EmptyConfig, SameUser, Feels
  <2>3. CASE config # manifest.config /\ config # NoFile
    <3>1. config \in ConfigFile /\ ConfigIn(config) = config
      BY <2>3, Reading DEF FilesOK, AnyConfig
    <3>2. j.config = RemoveManagedConfig(config, manifest)
      BY <2>3 DEF UninstallPlan
    <3>3. /\ config.user \in 0..MaxEdits
          /\ config.server \in {"none", "managed", "foreign"} /\ config.profile \in Profile
          /\ config.feature \in Feature /\ manifest.featureBefore \in Feature
      BY <1>1, <3>1 DEF ConfigFile, ManifestFile
    <3>4. /\ j.config.user = config.user
          /\ j.config.server = IF config.server = "managed" THEN "none" ELSE config.server
          /\ j.config.profile = IF manifest.ai /\ config.profile = manifest.profile
                                THEN "none" ELSE config.profile
          /\ j.config.feature = IF manifest.featureManaged /\ config.feature = "on"
                                THEN manifest.featureBefore ELSE config.feature
          /\ j.config = [user |-> j.config.user, feature |-> j.config.feature,
                         server |-> j.config.server, profile |-> j.config.profile]
      BY <3>1, <3>2 DEF RemoveManagedConfig, ConfigFile
    <3>5. j.config \in ConfigFile
      BY <3>3, <3>4 DEF ConfigFile, Profile
    <3>6. ConfigIn(j.config) = j.config
      BY <3>5, Reading
    <3>7. j.config.server # "managed" /\ j.config.profile # "managed"
      BY <1>2, <3>1, <3>4 DEF OwnsProfile
    <3>8. UserConfig(j.config) = UserConfig(config)
      <4>1. j.config.server = "foreign" <=> config.server = "foreign"
        BY <3>4
      <4>2. j.config.profile = "user" <=> config.profile = "user"
        BY <1>2, <3>4 DEF OwnsProfile
      <4> QED BY <3>4, <4>1, <4>2 DEF UserConfig
    <3>9. ~absorbed => wish.feature = j.config.feature
      BY <1>3, <3>1, <3>4 DEF Feels, Backed
    <3> QED BY <1>3, <3>1, <3>6, <3>7, <3>8, <3>9 DEF SameUser
  <2> QED BY <2>1, <2>2, <2>3
<1>6. ~Registered(j.manifest)
  BY UninstallTyped DEF Registered
<1> QED BY <1>4, <1>5, <1>6 DEF Faithful, Sound, Kept, Clean, SameUser
-------------------------------------------------------------------------------
(* The files, while runs do not overlap and edits hit no run.              *)

LEMMA OnlyOneWrites ==
  ASSUME RunsOK, Ordered, ~overlapped, NEW p \in Run, pc[p] # "idle",
         NEW l \in Labels, Goto(p, l), FilesIntact', Written(p)'
  PROVE Intact'
<1>1. \A q \in Run \ {p} : pc'[q] = "idle"
  BY Position DEF Goto, RunsOK
<1>2. \A q \in Run \ {p} : Written(q)'
  BY <1>1 DEF Written
<1> QED BY <1>2 DEF Intact

LEMMA FilesSame ==
  ASSUME FilesIntact, UNCHANGED <<files, journal, wish, edits, absorbed>>
  PROVE FilesIntact'
  BY DEF FilesIntact, files, Faithful, Sound, Clean, OwnsProfile, Kept, SameUser, Backed, Feels,
         HooksIn, ConfigIn, UserConfig, Registered

LEMMA IntactExit ==
  ASSUME RunsOK, Ordered, ~overlapped, NEW p \in Run, pc[p] # "idle", Exit(p), FilesIntact'
  PROVE Intact'
<1>1. Goto(p, "idle") /\ "idle" \in Labels
  BY DEF Exit, Labels
<1>2. Written(p)'
  BY <1>1 DEF Goto, RunsOK, Written
<1> QED BY <1>1, <1>2, OnlyOneWrites

(* The user only changes what is the user's. *)
LEMMA EditOfHooks ==
  ASSUME FilesOK, WishOK, EditHooks
  PROVE /\ HooksIn(hooks').managed => HooksIn(hooks).managed
        /\ wish' = [wish EXCEPT !.hooks = HooksIn(hooks').user]
        /\ config' = config
<1>1. HooksIn(hooks) \in HooksFile
  BY Reading DEF FilesOK
<1>2. CASE hooks' = NoFile
  BY <1>2 DEF EditHooks, HooksIn, EmptyHooks
<1>3. CASE hooks' = [HooksIn(hooks) EXCEPT !.user = edits + 1]
  <2>1. hooks'.managed = HooksIn(hooks).managed
    BY <1>1, <1>3 DEF HooksFile
  <2>2. HooksIn(hooks').managed => HooksIn(hooks).managed
    BY <2>1 DEF HooksIn, EmptyHooks
  <2> QED BY <2>2 DEF EditHooks
<1> QED BY <1>2, <1>3 DEF EditHooks

LEMMA EditOfConfig ==
  ASSUME FilesOK, WishOK, edits \in 0..MaxEdits, EditConfig
  PROVE LET f == ConfigIn(config)
            g == ConfigIn(config')
        IN /\ g.server = "managed" => f.server = "managed"
           /\ g.profile = "managed" => f.profile = "managed"
           /\ g.feature = f.feature \/ g.feature # "on"
           /\ wish' = [wish EXCEPT !.config = UserConfig(g),
                                   !.feature = IF g.feature = f.feature THEN @ ELSE g.feature]
           /\ hooks' = hooks
<1> DEFINE f == ConfigIn(config)
           g == ConfigIn(config')
<1>1. f \in ConfigFile
  BY Reading DEF FilesOK
<1>2. config' \in AnyConfig
  BY Edited DEF EditConfig
<1>3. /\ g.server = "managed" => f.server = "managed"
      /\ g.profile = "managed" => f.profile = "managed"
      /\ g.feature = f.feature \/ g.feature # "on"
  <2>1. CASE config' = NoFile
    BY <2>1 DEF ConfigIn, EmptyConfig
  <2>2. CASE config' # NoFile
    <3>1. g = config'
      BY <2>2 DEF ConfigIn
    <3>2. \/ g = [f EXCEPT !.user = edits + 1]
          \/ g = [f EXCEPT !.server = "foreign"]
          \/ \E v \in {"unset", "off"} : g = [f EXCEPT !.feature = v]
          \/ \E v \in {"none", "user"} : g = [f EXCEPT !.profile = v]
      BY <2>2, <3>1 DEF EditConfig, ConfigEdits
    <3> HIDE DEF f, g
    <3> QED BY <1>1, <3>2 DEF ConfigFile
  <2> QED BY <2>1, <2>2
<1> QED BY <1>3 DEF EditConfig

LEMMA EditIntact ==
  ASSUME FilesOK, RunsOK, WishOK, edits \in 0..MaxEdits, Intact, EditHooks \/ EditConfig, ~raced'
  PROVE Intact'
<1>1. Edit
  BY DEF EditHooks, EditConfig
<1>2. /\ journal = NoFile /\ \A p \in Run : pc'[p] = "idle"
      /\ UNCHANGED <<manifest, journal, absorbed>> /\ edits' # 0
  BY <1>1, Edited DEF Edit, runVars
<1>3. Sound(hooks, config, manifest) /\ (~absorbed => Kept(hooks, config, manifest))
  BY <1>2 DEF Intact, FilesIntact, Faithful
<1>4. \A p \in Run : Written(p)'
  BY <1>2 DEF Written
<1>5. Sound(hooks, config, manifest)'
  <2>1. CASE EditHooks
    <3>1. (HooksIn(hooks').managed => HooksIn(hooks).managed) /\ config' = config
      BY <2>1, EditOfHooks
    <3> QED BY <1>2, <1>3, <3>1 DEF Sound, Clean, OwnsProfile, Registered
  <2>2. CASE EditConfig
    <3>1. /\ ConfigIn(config').server = "managed" => ConfigIn(config).server = "managed"
          /\ ConfigIn(config').profile = "managed" => ConfigIn(config).profile = "managed"
          /\ hooks' = hooks
      BY <2>2, EditOfConfig
    <3> QED BY <1>2, <1>3, <3>1 DEF Sound, Clean, OwnsProfile, Registered
  <2> QED BY <2>1, <2>2
<1>6. ASSUME ~absorbed PROVE Kept(hooks, config, manifest)'
  <2>0. Kept(hooks, config, manifest)
    BY <1>3, <1>6
  <2>1. CASE EditHooks
    <3>1. wish' = [wish EXCEPT !.hooks = HooksIn(hooks').user] /\ config' = config
      BY <2>1, EditOfHooks
    <3>2. /\ wish'.hooks = HooksIn(hooks').user /\ wish'.config = wish.config
          /\ wish'.feature = wish.feature
      BY <3>1 DEF WishOK
    <3> QED
      BY <1>2, <2>0, <3>1, <3>2
         DEF Kept, SameUser, Backed, Feels, Registered, UserConfig, ConfigIn, HooksIn
  <2>2. CASE EditConfig
    <3> DEFINE f == ConfigIn(config)
               g == ConfigIn(config')
    <3>1. /\ g.feature = f.feature \/ g.feature # "on"
          /\ wish' = [wish EXCEPT !.config = UserConfig(g),
                                  !.feature = IF g.feature = f.feature THEN @ ELSE g.feature]
          /\ hooks' = hooks
      BY <2>2, EditOfConfig
    <3>2. /\ wish'.hooks = wish.hooks /\ wish'.config = UserConfig(g)
          /\ wish'.feature = IF g.feature = f.feature THEN wish.feature ELSE g.feature
      <4> HIDE DEF f, g
      <4> QED BY <3>1 DEF WishOK
    <3>3. SameUser(hooks, config)'
      BY <2>0, <3>1, <3>2 DEF Kept, SameUser
    <3>4. /\ Registered(manifest)' => Backed(manifest)' /\ Feels(config, manifest.featureBefore)'
          /\ ~Registered(manifest)' => wish'.feature = g.feature
      BY <1>2, <2>0, <3>1, <3>2 DEF Kept, Registered, Backed, Feels
    <3> QED BY <3>3, <3>4 DEF Kept
  <2> QED BY <2>1, <2>2
<1>7. FilesIntact'
  BY <1>2, <1>5, <1>6 DEF FilesIntact, Faithful, Kept
<1> QED BY <1>4, <1>7 DEF Intact
LEMMA IntactStep ==
  ASSUME FilesOK, RunsOK, WishOK, HistoryOK, Ordered, Undisturbed => Intact, [Next]_vars
  PROVE Undisturbed' => Intact'
<1>0. CASE UNCHANGED vars
  BY <1>0 DEF vars, Undisturbed, Intact, FilesIntact, Written, Faithful, Sound, Clean,
              OwnsProfile, Kept, SameUser, Backed, Feels, HooksIn, ConfigIn, UserConfig,
              Registered, ForeignProfile, Ai
<1> SUFFICES ASSUME Next, Undisturbed' PROVE Intact'
  BY <1>0
<1>1. ASSUME NEW p \in Run, NEW c \in Commands, Begin(p, c) PROVE Intact'
  <2>1. Undisturbed /\ Intact
    BY <1>1 DEF Begin, Undisturbed
  <2>2. \A q \in Run : pc[q] = "idle"
    BY <1>1 DEF Begin, Undisturbed
  <2>3. \A q \in Run : pc'[q] = IF q = p THEN "recover" ELSE "idle"
    BY <1>1, <2>2 DEF Begin, Goto, RunsOK
  <2>4. \A q \in Run : Written(q)'
    BY <2>3 DEF Written
  <2>5. FilesIntact'
    BY <1>1, <2>1, FilesSame DEF Begin, Intact
  <2> QED BY <2>4, <2>5 DEF Intact
<1>2. ASSUME EditHooks \/ EditConfig PROVE Intact'
  <2>0. Edit
    BY <1>2 DEF EditHooks, EditConfig
  <2>1. ~raced' /\ ~overlapped'
    BY DEF Undisturbed
  <2>2. ~raced /\ overlapped' = overlapped
    BY <2>0, <2>1 DEF Edit
  <2>3. Intact
    BY <2>1, <2>2 DEF Undisturbed
  <2> QED BY <1>2, <2>1, <2>3, EditIntact DEF HistoryOK
<1>3. ASSUME NEW p \in Run, Step(p) \/ Die(p) PROVE Intact'
  <2>1. /\ pc[p] # "idle"
        /\ UNCHANGED <<overlapped, raced, wish, edits>>
    BY <1>3 DEF Step, Die, history, ReadJournal, ApplyHooks, ApplyConfig, ApplyManifest,
                RemoveJournal, Refuse, Check, PlanInstall, PlanUninstall, PlanFails, Persist
  <2>2. /\ Undisturbed /\ ~overlapped /\ Intact /\ FilesIntact /\ Written(p)
    BY <2>1 DEF Undisturbed, Intact
  <2>3. InOrder(p)
    BY <2>1, <2>2, Position
  <2>4. CASE ReadJournal(p)
    <3> DEFINE l == IF journal = NoFile THEN "check" ELSE "hooks"
    <3>1. Goto(p, l) /\ l \in Labels
      BY <2>4 DEF ReadJournal, Labels, Applying
    <3>2. Written(p)'
      BY <3>1 DEF Goto, RunsOK, Written
    <3>3. FilesIntact'
      BY <2>2, <2>4, FilesSame DEF ReadJournal, history
    <3> HIDE DEF l
    <3> QED BY <2>1, <2>2, <3>1, <3>2, <3>3, OnlyOneWrites
  <2>5. CASE ApplyHooks(p) \/ ApplyConfig(p) \/ ApplyManifest(p)
    <3>1. PICK l \in {"config", "manifest", "unjournal"} :
             /\ Goto(p, l)
             /\ l = "config" => hooks' = plan[p].hooks /\ config' = config
             /\ l = "manifest" => /\ pc[p] = "config" /\ hooks' = hooks
                                  /\ config' = plan[p].config
             /\ l = "unjournal" => pc[p] = "manifest" /\ hooks' = hooks /\ config' = config
      BY <2>5 DEF ApplyHooks, ApplyConfig, ApplyManifest
    <3>2. /\ pc[p] \in Applying /\ UNCHANGED <<journal, plan, absorbed>>
      BY <2>5 DEF ApplyHooks, ApplyConfig, ApplyManifest, Applying
    <3>3. journal = plan[p] /\ plan[p] \in JournalFile /\ journal # NoFile
      BY <2>3, <3>2, NoFileAssumption DEF InOrder, RunsOK
    <3>4. pc'[p] = l
      BY <3>1 DEF Goto, RunsOK
    <3>5. Written(p)'
      BY <2>2, <3>1, <3>2, <3>4 DEF Written
    <3>6. Faithful(journal.hooks, journal.config, journal.manifest)
      BY <2>2, <3>3 DEF FilesIntact
    <3>7. Faithful(journal.hooks, journal.config, journal.manifest)'
      BY <2>1, <3>2, <3>6
         DEF Faithful, Sound, Clean, OwnsProfile, Kept, SameUser, Backed, Feels, HooksIn,
             ConfigIn, UserConfig, Registered
    <3>8. ~absorbed => SameUser(journal.hooks, journal.config) /\ SameUser(hooks, config)
      BY <2>2, <3>6 DEF FilesIntact, Faithful, Kept
    <3>9. /\ hooks' = hooks \/ hooks' = journal.hooks
          /\ config' = config \/ config' = journal.config
      BY <3>1, <3>3
    <3>10. ~absorbed' => SameUser(hooks, config)'
      BY <2>1, <3>2, <3>8, <3>9 DEF SameUser
    <3>11. FilesIntact'
      BY <3>2, <3>3, <3>7, <3>10 DEF FilesIntact
    <3>12. l \in Labels
      BY DEF Labels, Applying
    <3> QED BY <2>1, <2>2, <3>1, <3>5, <3>11, <3>12, OnlyOneWrites
  <2>6. CASE RemoveJournal(p)
    <3>1. /\ pc[p] = "unjournal" /\ journal' = NoFile
          /\ UNCHANGED <<hooks, config, manifest, absorbed>>
      BY <2>6 DEF RemoveJournal, files
    <3>2. /\ journal = plan[p] /\ plan[p] \in JournalFile /\ journal # NoFile
          /\ hooks = journal.hooks /\ config = journal.config /\ manifest = journal.manifest
      BY <2>2, <2>3, <3>1, NoFileAssumption DEF InOrder, Written, RunsOK, Applying
    <3>3. Faithful(hooks, config, manifest)
      BY <2>2, <3>2 DEF FilesIntact
    <3>4. Faithful(hooks, config, manifest)'
      BY <2>1, <3>1, <3>3
         DEF Faithful, Sound, Clean, OwnsProfile, Kept, SameUser, Backed, Feels, HooksIn,
             ConfigIn, UserConfig, Registered
    <3>5. FilesIntact'
      BY <3>1, <3>4 DEF FilesIntact, Faithful, Kept
    <3>6. CASE recovering[p]
      <4>1. Goto(p, "check") /\ "check" \in Labels
        BY <2>6, <3>6 DEF RemoveJournal, Labels
      <4>2. Written(p)'
        BY <4>1 DEF Goto, RunsOK, Written
      <4> QED BY <2>1, <2>2, <3>5, <4>1, <4>2, OnlyOneWrites
    <3>7. CASE ~recovering[p]
      <4>1. Exit(p)
        BY <2>6, <3>7 DEF RemoveJournal
      <4> QED BY <2>1, <2>2, <3>5, <4>1, IntactExit
    <3> QED BY <3>6, <3>7
  <2>7. CASE Refuse(p) \/ PlanFails(p) \/ Die(p)
    <3>1. FilesIntact' /\ Exit(p)
      BY <2>2, <2>7, FilesSame DEF Refuse, PlanFails, Die, history
    <3> QED BY <2>1, <2>2, <3>1, IntactExit
  <2>8. CASE Check(p)
    <3>1. Goto(p, "plan") /\ "plan" \in Labels /\ command' = command
          /\ UNCHANGED <<manifest, config>>
      BY <2>8 DEF Check, Labels, files
    <3>2. FilesIntact'
      BY <2>2, <2>8, FilesSame DEF Check, history
    <3>3. command[p].op = "install" => ~ForeignProfile(command[p])
      BY <2>8 DEF Check
    <3>4. Written(p)'
      BY <3>1, <3>3 DEF Goto, RunsOK, Written, ForeignProfile, Ai, Registered, ConfigIn
    <3> QED BY <2>1, <2>2, <3>1, <3>2, <3>4, OnlyOneWrites
  <2>9. CASE PlanInstall(p) \/ PlanUninstall(p)
    <3>0. /\ pc[p] = "plan" /\ Goto(p, "persist")
          /\ UNCHANGED <<hooks, config, manifest, journal>>
      BY <2>9 DEF PlanInstall, PlanUninstall, files
    <3>a. absorbed => absorbed'
      BY <2>9 DEF PlanInstall, PlanUninstall
    <3>1. /\ pc[p] = "plan" /\ Goto(p, "persist") /\ "persist" \in Labels
          /\ UNCHANGED <<hooks, config, manifest, journal>>
          /\ absorbed => absorbed'
      BY <3>0, <3>a DEF Labels
    <3>2. journal = NoFile /\ pc'[p] = "persist"
      BY <2>3, <3>1 DEF InOrder, Goto, RunsOK
    <3>3. Faithful(hooks, config, manifest)
      BY <2>2, <3>2 DEF FilesIntact
    <3>4. FilesIntact'
      <4>1. Faithful(hooks, config, manifest)'
        BY <2>1, <3>1, <3>3
           DEF Faithful, Sound, Clean, OwnsProfile, Kept, SameUser, Backed, Feels, HooksIn,
               ConfigIn, UserConfig, Registered
      <4> QED BY <3>1, <3>2, <4>1 DEF FilesIntact, Faithful, Kept
    <3>5. /\ Sound(plan'[p].hooks, plan'[p].config, plan'[p].manifest)
          /\ ~absorbed' => Kept(plan'[p].hooks, plan'[p].config, plan'[p].manifest)
      <4>1. CASE PlanInstall(p)
        <5>1. /\ plan'[p] = InstallPlan(command[p]) /\ command[p] \in Commands
              /\ command[p].op = "install" /\ ConfigIn(config).server # "foreign"
          BY <4>1 DEF PlanInstall, RunsOK
        <5>2. ~ForeignProfile(command[p])
          BY <2>2, <3>1, <5>1 DEF Written
        <5>3. ~absorbed' => /\ ~absorbed
                            /\ Registered(manifest) =>
                                 hooks = manifest.hooks /\ config = manifest.config
          BY <4>1 DEF PlanInstall
        <5> QED BY <3>3, <5>1, <5>2, <5>3, Installs
      <4>2. CASE PlanUninstall(p)
        <5>1. plan'[p] = UninstallPlan /\ Registered(manifest) /\ absorbed' = absorbed
          BY <4>2 DEF PlanUninstall, RunsOK
        <5> QED BY <3>3, <5>1, Uninstalls DEF Faithful
      <4> QED BY <2>9, <4>1, <4>2
    <3>6. Written(p)'
      BY <2>1, <3>2, <3>5
         DEF Written, Faithful, Sound, Clean, OwnsProfile, Kept, SameUser, Backed, Feels,
             HooksIn, ConfigIn, UserConfig, Registered
    <3> QED BY <2>1, <2>2, <3>1, <3>4, <3>6, OnlyOneWrites
  <2>10. CASE Persist(p)
    <3>1. /\ pc[p] = "persist" /\ journal' = plan[p] /\ Goto(p, "hooks") /\ "hooks" \in Labels
          /\ UNCHANGED <<hooks, config, manifest, plan, absorbed>>
      BY <2>10 DEF Persist, Labels, Applying, files
    <3>2. plan[p] \in JournalFile /\ journal' # NoFile
      BY <3>1, NoFileAssumption DEF RunsOK
    <3>3. Faithful(plan[p].hooks, plan[p].config, plan[p].manifest)
      BY <2>2, <3>1 DEF Written
    <3>4. Faithful(journal.hooks, journal.config, journal.manifest)'
      BY <2>1, <3>1, <3>3
         DEF Faithful, Sound, Clean, OwnsProfile, Kept, SameUser, Backed, Feels, HooksIn,
             ConfigIn, UserConfig, Registered
    <3>5. ~absorbed' => SameUser(hooks, config)'
      BY <2>1, <2>2, <3>1 DEF FilesIntact, SameUser
    <3>6. FilesIntact'
      BY <3>2, <3>4, <3>5 DEF FilesIntact
    <3>7. Written(p)'
      BY <3>1 DEF Goto, RunsOK, Written
    <3> QED BY <2>1, <2>2, <3>1, <3>6, <3>7, OnlyOneWrites
  <2> QED BY <1>3, <2>4, <2>5, <2>6, <2>7, <2>8, <2>9, <2>10 DEF Step
<1> QED BY <1>1, <1>2, <1>3 DEF Next
-------------------------------------------------------------------------------
(* The theorems.                                                           *)

LEMMA Initially == Init => IInv
<1> SUFFICES ASSUME Init PROVE IInv
  OBVIOUS
<1>1. FilesOK
  <2>1. hooks \in AnyHooks
    <3>1. EmptyHooks \in HooksFile
      BY Bounds DEF EmptyHooks, HooksFile
    <3> QED BY <3>1 DEF Init, AnyHooks
  <2>2. config \in AnyConfig
    <3>1. \A f \in Feature : [EmptyConfig EXCEPT !.feature = f] \in ConfigFile
      BY Bounds DEF EmptyConfig, ConfigFile, Feature, Profile
    <3> QED BY <3>1 DEF Init, AnyConfig
  <2> QED BY <2>1, <2>2 DEF Init, FilesOK
<1>2. RunsOK
  BY NoCommandIsCommand DEF Init, RunsOK, Labels, Applying
<1>3. WishOK
  <2>1. HooksIn(hooks).user \in 0..MaxEdits /\ ConfigIn(config) \in ConfigFile
    BY <1>1, Reading DEF FilesOK, HooksFile
  <2>2. ConfigIn(config).feature \in Feature
    BY <2>1 DEF ConfigFile
  <2> QED BY <2>1, <2>2, UserConfigTyped DEF Init, WishOK
<1>4. HistoryOK
  BY Bounds DEF Init, HistoryOK
<1>5. Ordered
  BY DEF Init, Ordered, Alone, InOrder, Applying
<1>6. Clean(hooks, config)
  <2>1. ~HooksIn(hooks).managed
    BY DEF Init, HooksIn, EmptyHooks
  <2>2. ConfigIn(config).server = "none" /\ ConfigIn(config).profile = "none"
    BY DEF Init, ConfigIn, EmptyConfig
  <2> QED BY <2>1, <2>2 DEF Clean
<1>7. /\ manifest = NoFile /\ journal = NoFile /\ \A p \in Run : pc[p] = "idle"
      /\ wish.hooks = HooksIn(hooks).user /\ wish.config = UserConfig(ConfigIn(config))
      /\ wish.feature = ConfigIn(config).feature
  BY DEF Init
<1>8. Intact
  BY <1>6, <1>7
     DEF Intact, FilesIntact, Written, Faithful, Sound, Kept, SameUser, Registered
<1> QED BY <1>1, <1>2, <1>3, <1>4, <1>5, <1>8 DEF IInv

(* What every step of setup, uninstall and the user keeps. *)
THEOREM Invariance == Spec => []IInv
<1>1. IInv /\ [Next]_vars => IInv'
  BY TypesStep, OrderStep, IntactStep DEF IInv
<1> QED BY <1>1, Initially, PTL DEF Spec

(* Every variable of setup stays in its range. *)
THEOREM TypeCorrect == Spec => []TypeOK
<1>1. IInv => TypeOK
  BY TypeSplit DEF IInv
<1> QED BY <1>1, Invariance, PTL

(* Whatever kills setup, without a pending journal everything is installed *)
(* or nothing managed is left (setup.rs:532). *)
THEOREM InstalledOrNot == Spec => []AllOrNothing
<1>1. IInv => AllOrNothing
  BY DEF IInv, Undisturbed, Intact, FilesIntact, Faithful, Sound, Clean, AllOrNothing
<1> QED BY <1>1, Invariance, PTL

(* What the user wrote into the Codex files is there as long as setup was  *)
(* not repeated over it (setup.rs:548). *)
THEOREM EditsAreKept == Spec => []EditsSurviveOneSetup
<1>1. IInv => EditsSurviveOneSetup
  BY DEF IInv, Undisturbed, Intact, FilesIntact, Faithful, Kept, SameUser,
         EditsSurvive, EditsSurviveOneSetup
<1> QED BY <1>1, Invariance, PTL

(* Persisting the journal is the registration (setup.rs:265): a step of a  *)
(* run that runs alone registers or unregisters one repository, or nothing.*)
LEMMA RegistrationStep ==
  ASSUME IInv, [Next]_vars
  PROVE [overlapped' \/ R!Next]_registered
<1> SUFFICES ASSUME ~overlapped', registered' # registered PROVE R!Next
  OBVIOUS
<1>0. CASE UNCHANGED vars
  BY <1>0 DEF vars, registered, RepositoryOf, Registered
<1>1. ASSUME NEW p \in Run, Persist(p) PROVE R!Next
  <2>1. /\ ~overlapped /\ pc[p] = "persist" /\ journal' = plan[p]
    BY <1>1 DEF Persist, history
  <2>2. plan[p] \in JournalFile /\ journal' # NoFile
    BY <2>1, NoFileAssumption DEF IInv, RunsOK
  <2>3. journal = NoFile /\ MayRegister(plan[p].manifest)
    BY <2>1 DEF IInv, Ordered, InOrder
  <2>4. registered = RepositoryOf(manifest) /\ registered' = RepositoryOf(plan[p].manifest)
    BY <2>1, <2>2, <2>3 DEF registered, RepositoryOf, Registered
  <2>5. RepositoryOf(plan[p].manifest) \in Repository \union {NoRepository}
    BY <2>2 DEF JournalFile, ManifestFile, RepositoryOf, Registered
  <2> QED BY <2>3, <2>4, <2>5 DEF MayRegister, R!Next, R!Install, R!Uninstall
<1>2. ASSUME NEW p \in Run, RemoveJournal(p) PROVE FALSE
  <2>1. ~overlapped /\ pc[p] = "unjournal" /\ journal' = NoFile /\ manifest' = manifest
    BY <1>2 DEF RemoveJournal, history, files
  <2>2. journal = plan[p] /\ plan[p] \in JournalFile /\ manifest = plan[p].manifest
    BY <2>1 DEF IInv, RunsOK, Ordered, InOrder, Applying
  <2> QED BY <2>1, <2>2, NoFileAssumption DEF registered, RepositoryOf, Registered
<1>3. ASSUME NEW p \in Run, ApplyManifest(p) PROVE FALSE
  <2>1. ~overlapped /\ pc[p] = "manifest" /\ journal' = journal
    BY <1>3 DEF ApplyManifest, history
  <2>2. journal = plan[p] /\ plan[p] \in JournalFile
    BY <2>1 DEF IInv, RunsOK, Ordered, InOrder, Applying
  <2> QED BY <2>1, <2>2, NoFileAssumption DEF registered, RepositoryOf, Registered
<1>4. ASSUME UNCHANGED <<manifest, journal>> PROVE FALSE
  BY <1>4 DEF registered, RepositoryOf, Registered
<1>5. ASSUME NEW p \in Run,
             \/ ReadJournal(p) \/ ApplyHooks(p) \/ ApplyConfig(p) \/ Refuse(p) \/ Check(p)
             \/ PlanInstall(p) \/ PlanUninstall(p) \/ PlanFails(p) \/ Die(p)
             \/ \E c \in Commands : Begin(p, c)
      PROVE UNCHANGED <<manifest, journal>>
  BY <1>5 DEF ReadJournal, ApplyHooks, ApplyConfig, Refuse, Check, PlanInstall, PlanUninstall,
              PlanFails, Die, Begin, files
<1>6. ASSUME EditHooks \/ EditConfig PROVE UNCHANGED <<manifest, journal>>
  BY <1>6 DEF EditHooks, EditConfig, Edit
<1> QED BY <1>0, <1>1, <1>2, <1>3, <1>4, <1>5, <1>6 DEF Next, Step

(* Setup implements the atomic registration for any number of kills.       *)
THEOREM Refinement == Spec => ImplementsRegistration
<1>1. Init => R!Init
  BY DEF Init, R!Init, registered, RepositoryOf, Registered
<1> QED BY <1>1, RegistrationStep, Invariance, PTL DEF Spec, ImplementsRegistration
================================================================================
