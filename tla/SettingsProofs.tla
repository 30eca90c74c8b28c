--------------------------- MODULE SettingsProofs ---------------------------
(***************************************************************************)
(* What the operator sets and what follows from it.  A restart finds       *)
(* accepted settings, for any settings, sections and requests, disk faults *)
(* and crashes included.  What the process starts with, for every set of   *)
(* fields, files and variables; what is decided about a request, for every *)
(* set of policies, tiers, floors and toggles; what the middle-out cut     *)
(* leaves, for texts of every length and every limit; and what the engines *)
(* that rewrite prose leave as it was, for any lines, terms and            *)
(* dictionaries.                                                           *)
(***************************************************************************)
EXTENDS RuntimeSettings, Calls, SequenceLemmas

\* Between the two halves of a save the tmp file holds what is live, which the
\* POST that is being saved found acceptable.
SavePending ==
  /\ pc \in {"write", "rename"} => mem \in accepted
  /\ pc = "rename" => tmp = mem

IInv == TypeOK /\ RestartFindsAccepted /\ SavePending

\* A configured start is a snapshot.
LEMMA ConfiguredType ==
  ASSUME NEW b \in BOOLEAN
  PROVE  Configured(b) \in Snapshots
  BY SettingsAssumption DEF Configured, Snapshots

\* Whatever a request holds, what it leaves in memory is a snapshot: a section
\* is applied only after the check that would have refused it.
LEMMA AppliedType ==
  ASSUME NEW req \in Requests, mem \in Snapshots
  PROVE  Applied(req) \in Snapshots
<1>1. ASSUME NEW f \in Flags, f \in DOMAIN req.flag
      PROVE  req.flag[f] \in BOOLEAN
  BY <1>1 DEF Requests
<1>2. ASSUME NEW s \in Sections, s \in DOMAIN req.section, Reaches(req, s)
      PROVE  req.section[s] \in Values
  <2>1. req.section[s] \in Values \cup {Bad}
    BY <1>2 DEF Requests
  <2>2. req.section[s] # Bad
    BY <1>2 DEF Reaches, Sections
  <2> QED
    BY <2>1, <2>2
<1>3. mem.flag \in [Flags -> BOOLEAN] /\ mem.section \in [Sections -> Values]
  BY DEF Snapshots
<1>4. [f \in Flags |-> IF f \in DOMAIN req.flag THEN req.flag[f] ELSE mem.flag[f]]
        \in [Flags -> BOOLEAN]
  BY <1>1, <1>3
<1>5. [s \in Sections |-> IF s \in DOMAIN req.section /\ Reaches(req, s)
                            THEN req.section[s] ELSE mem.section[s]]
        \in [Sections -> Values]
  BY <1>2, <1>3
<1> QED
  BY <1>4, <1>5 DEF Applied, Snapshots

LEMMA InitInv == SettingsInit => IInv
<1> SUFFICES ASSUME SettingsInit PROVE IInv
  OBVIOUS
<1>1. mem \in Snapshots
  BY ConfiguredType DEF SettingsInit
<1>2. mem.flag[L2] \in BOOLEAN
  BY <1>1, SettingsAssumption DEF Snapshots
<1>3. l2live \in BOOLEAN
  BY <1>2 DEF SettingsInit
<1>4. refused \in BOOLEAN /\ l2built \in BOOLEAN
  BY DEF SettingsInit
<1>5. /\ disk = NoFile /\ tmp = NoFile /\ pc = "up"
      /\ posts \in 0..MaxPosts /\ accepted \subseteq Snapshots
  BY SettingsAssumption DEF SettingsInit
<1>6. TypeOK
  BY <1>1, <1>3, <1>4, <1>5 DEF TypeOK
<1> QED
  BY <1>5, <1>6 DEF IInv, RestartFindsAccepted, SavePending

LEMMA StepInv == IInv /\ [SettingsNext]_vars => IInv'
<1> SUFFICES ASSUME IInv, [SettingsNext]_vars PROVE IInv'
  OBVIOUS
<1> USE SettingsAssumption DEF IInv, TypeOK, RestartFindsAccepted, SavePending
<1>1. CASE UNCHANGED vars
  BY <1>1 DEF vars
<1>2. ASSUME NEW req \in Requests, Post(req) PROVE IInv'
  <2>1. Applied(req) \in Snapshots
    BY AppliedType
  <2>2. mem' \in Snapshots /\ mem' = Applied(req)
    BY <1>2, <2>1 DEF Post
  <2>3. CASE Acceptable(req)
    <3>1. /\ pc' = "write" /\ mem' \in accepted' /\ accepted' \subseteq Snapshots
          /\ accepted \subseteq accepted'
      BY <1>2, <2>1, <2>2, <2>3 DEF Post, Verdict
    <3>2. refused' \in BOOLEAN
      BY <1>2, <2>3 DEF Post
    <3>3. disk' = disk /\ tmp' = tmp /\ l2built' = l2built /\ l2live' = l2live
      BY <1>2 DEF Post
    <3>4. posts' \in 0..MaxPosts
      BY <1>2 DEF Post
    <3>5. TypeOK'
      BY <2>2, <3>1, <3>2, <3>3, <3>4
    <3> QED
      BY <3>1, <3>3, <3>5
  <2>4. CASE ~Acceptable(req)
    BY <1>2, <2>1, <2>2, <2>4 DEF Post, Verdict
  <2> QED
    BY <2>3, <2>4
<1>3. CASE WriteTmp
  BY <1>3 DEF WriteTmp, Written
<1>4. CASE Rename
  BY <1>4 DEF Rename
<1>5. CASE SaveFails
  BY <1>5 DEF SaveFails, Written
<1>6. CASE SyncL2
  <2>1. Synced \in BOOLEAN
    BY DEF Synced, Snapshots
  <2> QED
    BY <1>6, <2>1 DEF SyncL2
<1>7. CASE Crash
  BY <1>7 DEF Crash, Written
<1>8. CASE Boot
  <2>1. mem' \in Snapshots
    BY <1>8, ConfiguredType DEF Boot, AtBoot
  <2>2. l2live' \in BOOLEAN
    BY <1>8, <2>1 DEF Boot, Snapshots
  <2> QED
    BY <1>8, <2>1, <2>2 DEF Boot
<1> QED
  BY <1>1, <1>2, <1>3, <1>4, <1>5, <1>6, <1>7, <1>8 DEF SettingsNext

\* However POSTs are refused, fail to save or are cut short by a crash, the
\* file a restart reads is absent or a snapshot accepted as a whole.
THEOREM RestartSafe == SettingsSpec => [](TypeOK /\ RestartFindsAccepted)
<1>1. SettingsInit => IInv
  BY InitInv
<1>2. IInv /\ [SettingsNext]_vars => IInv'
  BY StepInv
<1> QED
  BY <1>1, <1>2, PTL DEF SettingsSpec, IInv

\* Whatever is refused, lost or restarted: as long as the last POST was not
\* refused, the L2 cache of a process that built one is on the side of its flag.
THEOREM OnlyRefusalsDesync == SettingsSpec => []SyncedUnlessRefused
<1>1. SettingsInit => SyncedUnlessRefused
  BY DEF SettingsInit, SyncedUnlessRefused
<1>2. SyncedUnlessRefused /\ [SettingsNext]_vars => SyncedUnlessRefused'
  <2> SUFFICES ASSUME SyncedUnlessRefused, [SettingsNext]_vars
               PROVE  SyncedUnlessRefused'
    OBVIOUS
  <2> USE DEF SyncedUnlessRefused
  <2>1. CASE UNCHANGED vars
    BY <2>1 DEF vars
  <2>2. ASSUME NEW req \in Requests, Post(req) PROVE SyncedUnlessRefused'
    BY <2>2 DEF Post, Verdict
  <2>3. CASE WriteTmp \/ Rename \/ SaveFails
    BY <2>3 DEF WriteTmp, Rename, SaveFails
  <2>4. CASE SyncL2
    BY <2>4 DEF SyncL2, Synced
  <2>5. CASE Crash
    BY <2>5 DEF Crash
  <2>6. CASE Boot
    BY <2>6 DEF Boot
  <2> QED
    BY <2>1, <2>2, <2>3, <2>4, <2>5, <2>6 DEF SettingsNext
<1> QED
  BY <1>1, <1>2, PTL DEF SettingsSpec

\* A step of the code is a step of DurableSettings, or none: a save is a commit
\* when its rename is, and of what is live because nothing else runs between.
LEMMA StepDurable ==
  IInv /\ [SettingsNext]_vars =>
    [Durable!Change \/ Durable!Commit \/ Durable!Stop \/ Durable!Restart]_<<mem, disk, pc # "down">>
<1> SUFFICES ASSUME IInv, [SettingsNext]_vars
             PROVE  \/ Durable!Change \/ Durable!Commit
                    \/ Durable!Stop \/ Durable!Restart
                    \/ UNCHANGED <<mem, disk, pc # "down">>
  OBVIOUS
<1> USE DEF IInv, TypeOK
<1>1. CASE UNCHANGED vars
  BY <1>1 DEF vars
<1>2. ASSUME NEW req \in Requests, Post(req) PROVE Durable!Change
  <2>1. mem' \in Snapshots
    BY <1>2, AppliedType DEF Post
  <2>2. pc = "up" /\ pc' \in {"write", "up"} /\ disk' = disk
    BY <1>2 DEF Post, Verdict
  <2> QED
    BY <2>1, <2>2 DEF Durable!Change
<1>3. CASE WriteTmp \/ SaveFails \/ SyncL2
  BY <1>3 DEF WriteTmp, SaveFails, SyncL2, Written
<1>4. CASE Rename
  <2>1. Durable!Commit
    BY <1>4 DEF Rename, SavePending, Durable!Commit
  <2> QED
    BY <2>1
<1>5. CASE Crash
  <2>1. Durable!Stop
    BY <1>5 DEF Crash, Written, Durable!Stop
  <2> QED
    BY <2>1
<1>6. CASE Boot
  <2>1. disk # Torn
    BY SettingsAssumption
  <2>2. mem' \in IF disk = NoFile THEN {Configured(b) : b \in BOOLEAN} ELSE {disk}
    BY <1>6, <2>1 DEF Boot, AtBoot
  <2>3. Durable!Restart
    BY <1>6, <2>2 DEF Boot, Durable!Restart
  <2> QED
    BY <2>3
<1> QED
  BY <1>1, <1>2, <1>3, <1>4, <1>5, <1>6 DEF SettingsNext

\* RuntimeSettings implements DurableSettings for every setting, request and
\* pattern of faults.
THEOREM SettingsDurable == SettingsSpec => ImplementsDurable
<1>1. SettingsInit => Durable!Init
  BY DEF SettingsInit, Durable!Init
<1>2. SettingsInit => IInv
  BY InitInv
<1>3. IInv /\ [SettingsNext]_vars => IInv'
  BY StepInv
<1> QED
  BY <1>1, <1>2, <1>3, StepDurable, PTL DEF SettingsSpec, ImplementsDurable, Durable!Spec

-----------------------------------------------------------------------------
\* Calls of load_settings(), of what decides about a request, and of the cut.


\* A call of load_settings() or of what decides about a request is recorded
\* with its arguments and its result.
Recorded ==
  /\ call.fn = "options" =>
       /\ call.rt \in Snapshot /\ call.chars \in Nat
       /\ call.result = Options(call.rt, call.model, call.endpoint, call.chars)
  /\ call.fn = "load" =>
       /\ call.named \in BOOLEAN
       /\ call.result = Load(call.names, call.env, call.named, call.files)

LEMMA CallsRecorded == Spec => []Recorded
<1>1. Init => Recorded
  BY CallsAssumption DEF Init, Idle, Recorded
<1>2. ASSUME Recorded, [Next]_call PROVE Recorded'
  <2>1. CASE CallMiddleOut
    BY <2>1 DEF CallMiddleOut, Recorded
  <2>2. CASE CallProse
    BY <2>2 DEF CallProse, Recorded
  <2>3. CASE CallLoad
    BY <2>3 DEF CallLoad, Recorded
  <2>4. CASE CallOptions
    <3>1. PICK rt \in Toggles, model \in Models \cup {NoModel}, endpoint \in Endpoints,
               n \in Sizes :
            call' = [fn |-> "options", rt |-> rt, model |-> model, endpoint |-> endpoint,
                     chars |-> n, result |-> Options(rt, model, endpoint, n)]
      BY <2>4 DEF CallOptions
    <3>2. rt \in Snapshot /\ n \in Nat
      BY CallsAssumption
    <3> QED
      BY <3>1, <3>2 DEF Recorded
  <2>5. CASE Return
    BY <2>5, CallsAssumption DEF Return, Idle, Recorded
  <2>6. CASE UNCHANGED call
    BY <1>2, <2>6 DEF Recorded
  <2> QED
    BY <1>2, <2>1, <2>2, <2>3, <2>4, <2>5, <2>6 DEF Next
<1> QED
  BY <1>1, <1>2, PTL DEF Spec

-----------------------------------------------------------------------------
\* A variable that says something is all that counts.
LEMMA EnvDecides ==
  ASSUME NEW f \in Fields, NEW raw, raw \notin {Unset, Blank}, NEW a, NEW b
  PROVE  FromEnv(f, raw, a) = FromEnv(f, raw, b)
<1>1. Kind[f] \in {"int", "float", "bool", "str", "path"}
  BY ConfigurationAssumption
<1>2. CASE Kind[f] = "int"
  BY <1>2, Zenon DEF FromEnv
<1>3. CASE Kind[f] = "float"
  BY <1>3, Zenon DEF FromEnv
<1>4. CASE Kind[f] = "bool"
  BY <1>4, Zenon DEF FromEnv
<1>5. CASE Kind[f] = "str"
  BY <1>5, Zenon DEF FromEnv
<1>6. CASE Kind[f] = "path"
  BY <1>6, Zenon DEF FromEnv
<1> QED
  BY <1>1, <1>2, <1>3, <1>4, <1>5, <1>6

\* A process that starts has resolved its settings from the file found.
LEMMA StartedIs ==
  ASSUME NEW names, NEW env, NEW named, NEW files, Load(names, env, named, files).started
  PROVE  Load(names, env, named, files).settings = Resolved(env, Found(named, files))
<1> DEFINE s == Resolved(env, Found(named, files))
           r == Load(names, env, named, files)
<1>1. r = Refused \/ r = [started |-> TRUE, settings |-> s]
  BY Zenon DEF Load
<1>2. Refused.started = FALSE
  BY DEF Refused
<1> HIDE DEF r, s
<1>3. r # Refused
  BY <1>2 DEF r
<1> QED
  BY <1>1, <1>3 DEF r, s

\* The file that counts is the first that is there.
LEMMA FirstFound ==
  ASSUME NEW named \in BOOLEAN, NEW files, NEW others,
         NEW i \in (IF named THEN 1 ELSE 2)..3, files[i] # Absent,
         \A j \in (IF named THEN 1 ELSE 2)..i : others[j] = files[j]
  PROVE  Found(named, files) = Found(named, others)
<1> DEFINE k == IF named THEN 1 ELSE 2
           there(g) == {j \in k..3 : g[j] # Absent}
<1>1. k \in 1..2 /\ i \in k..3 /\ \A j \in k..i : others[j] = files[j]
  OBVIOUS
<1> HIDE DEF k
<1>2. PICK m \in there(files) : \A j \in there(files) : m <= j
  <2>1. CASE files[k] # Absent
    BY <1>1, <2>1
  <2>2. CASE files[k] = Absent /\ k + 1 \in there(files)
    BY <1>1, <2>2
  <2>3. CASE files[k] = Absent /\ k + 1 \notin there(files)
    <3>1. k + 2 \in there(files) /\ k = 1
      BY <1>1, <2>3
    <3> QED
      BY <1>1, <2>3, <3>1
  <2> QED
    BY <2>1, <2>2, <2>3
<1>3. m \in k..i /\ m \in there(others) /\ \A j \in there(others) : m <= j
  BY <1>1, <1>2
<1>4. Min(there(files)) = m /\ Min(there(others)) = m
  BY <1>1, <1>2, <1>3 DEF Min
<1>5. others[m] = files[m]
  BY <1>1, <1>3
<1>6. /\ Found(named, files) = IF there(files) = {} THEN Absent ELSE files[Min(there(files))]
      /\ Found(named, others) = IF there(others) = {} THEN Absent ELSE others[Min(there(others))]
  BY DEF Found, k
<1> HIDE DEF there
<1> QED
  BY <1>2, <1>3, <1>4, <1>5, <1>6

\* Neither another file nor another layer below shows through a variable, and
\* nothing behind the first file found has any influence
\* (config.py:3-13, 193-214).
THEOREM LayersKept == Spec => []LayersInOrder
<1>1. Recorded => EnvShields
  <2> SUFFICES ASSUME Recorded, Loaded, NEW files \in Directories,
                      Started(call.env, files).started,
                      NEW f \in Fields, call.env[f] \notin {Unset, Blank}
               PROVE  Started(call.env, files).settings[f] = call.result.settings[f]
    BY DEF EnvShields
  <2> DEFINE s(g) == Resolved(call.env, Found(call.named, g))
  <2>1. call.result = Load(call.names, call.env, call.named, call.files)
        /\ call.result.started
    BY DEF Recorded, Loaded
  <2>2. Started(call.env, files).settings = s(files) /\ call.result.settings = s(call.files)
    BY <2>1, StartedIs DEF Started
  <2>3. s(files)[f] = s(call.files)[f]
    BY EnvDecides DEF Resolved
  <2> QED
    BY <2>2, <2>3
<1>2. Recorded => FirstFileOnly
  <2> SUFFICES ASSUME Recorded, call.fn = "load", NEW files \in Directories,
                      NEW i \in (IF call.named THEN 1 ELSE 2)..3,
                      call.files[i] # Absent,
                      \A j \in (IF call.named THEN 1 ELSE 2)..i : files[j] = call.files[j]
               PROVE  Started(call.env, files) = call.result
    BY DEF FirstFileOnly
  <2>1. /\ call.named \in BOOLEAN
        /\ call.result = Load(call.names, call.env, call.named, call.files)
    BY DEF Recorded
  <2>2. Found(call.named, call.files) = Found(call.named, files)
    BY <2>1, FirstFound
  <2> QED
    BY <2>1, <2>2 DEF Started, Load
<1> QED
  BY <1>1, <1>2, CallsRecorded, PTL DEF LayersInOrder

-----------------------------------------------------------------------------
LEMMA OverriddenIs ==
  ASSUME NEW rt \in Snapshot, NEW p
  PROVE  /\ Overridden(rt, p).input = rt.input
         /\ Overridden(rt, p).adaptive = rt.adaptive
BY DEF Overridden, Governed, Snapshot

LEMMA SameOverridden ==
  ASSUME NEW rt \in Snapshot, NEW other \in Snapshot, NEW p,
         rt.input = other.input, rt.adaptive = other.adaptive,
         rt.json_aware = other.json_aware, rt.lsh = other.lsh
  PROVE  Overridden(rt, p) = Overridden(other, p)
<1>1. /\ DOMAIN rt = {"input", "output", "jl", "adaptive", "caveman", "rtk", "json_aware", "lsh"}
      /\ DOMAIN other = DOMAIN rt
  BY DEF Snapshot
<1>2. ASSUME NEW f \in DOMAIN rt PROVE f \in Governed \/ rt[f] = other[f]
  BY <1>1 DEF Governed
<1> QED
  BY <1>1, <1>2 DEF Overridden

\* No toggle of what a policy governs shows through it (server.py:836-870).
THEOREM PoliciesGovern == Spec => []PolicyGoverns
<1>1. Recorded => PolicyGoverns
  <2> SUFFICES ASSUME Recorded, call.fn = "options", PolicyActive,
                      NEW rt \in Toggles,
                      rt.input = call.rt.input, rt.input,
                      rt.adaptive = call.rt.adaptive,
                      rt.json_aware = call.rt.json_aware, rt.lsh = call.rt.lsh
               PROVE  Options(rt, call.model, call.endpoint, call.chars) = call.result
    BY DEF PolicyGoverns
  <2> DEFINE p == Resolve(call.model, call.endpoint)
  <2>1. rt \in Snapshot /\ call.rt \in Snapshot
        /\ call.result = Options(call.rt, call.model, call.endpoint, call.chars)
    BY CallsAssumption DEF Recorded
  <2>2. Overridden(rt, p) = Overridden(call.rt, p)
    <3> HIDE DEF p
    <3> QED
      BY <2>1, SameOverridden
  <2> QED
    BY <2>1, <2>2 DEF Options
<1> QED
  BY <1>1, CallsRecorded, PTL

-----------------------------------------------------------------------------
\* Every list of levels names three or four different ones.
LEMMA LevelsDiffer ==
  ASSUME NEW e \in Engines
  PROVE  /\ Len(Levels[e]) \in 3..4 /\ DOMAIN Levels[e] = 1..Len(Levels[e])
         /\ \A i, j \in DOMAIN Levels[e] : Levels[e][i] = Levels[e][j] => i = j
<1>1. CASE e = "caveman"
  <2>1. Levels[e] = <<"lite", "standard", "aggressive", "ultra">>
    BY <1>1 DEF Levels
  <2> QED
    BY <2>1
<1>2. CASE e = "rtk"
  <2>1. Levels[e] = <<"minimal", "standard", "aggressive">>
    BY <1>2 DEF Levels
  <2> QED
    BY <2>1
<1>3. CASE e = "json_aware"
  <2>1. Levels[e] = <<"safe", "standard", "aggressive">>
    BY <1>3 DEF Levels
  <2> QED
    BY <2>1
<1>4. CASE e = "lsh"
  <2>1. Levels[e] = <<"conservative", "standard", "aggressive">>
    BY <1>4 DEF Levels
  <2> QED
    BY <2>1
<1> QED
  BY <1>1, <1>2, <1>3, <1>4 DEF Engines

\* The level at place t of the table, or the last one.
Place(e, t) == IF t > Len(Levels[e]) THEN Len(Levels[e]) ELSE t

LEMMA RankOfPlace ==
  ASSUME NEW e \in Engines, NEW t \in 1..4
  PROVE  Rank(e, [enabled |-> TRUE, level |-> Levels[e][Place(e, t)]]) = Place(e, t)
<1> DEFINE L == Levels[e]
           k == Place(e, t)
           setting == [enabled |-> TRUE, level |-> L[k]]
<1>1. /\ Len(L) \in 3..4 /\ DOMAIN L = 1..Len(L)
      /\ \A i, j \in DOMAIN L : L[i] = L[j] => i = j
  BY LevelsDiffer
<1>2. k \in DOMAIN L
  <2>1. k = IF t > Len(L) THEN Len(L) ELSE t
    BY DEF Place
  <2> HIDE DEF k, L
  <2>2. k \in 1..Len(L)
    BY <1>1, <2>1
  <2> QED
    BY <1>1, <2>2
<1>3. setting.enabled = TRUE /\ setting.level = L[k]
  OBVIOUS
<1> HIDE DEF L, k, setting
<1>4. Runs(e, setting)
  BY <1>2, <1>3 DEF Runs, Known, L
<1>5. (CHOOSE i \in DOMAIN L : L[i] = L[k]) = k
  BY <1>1, <1>2
<1>6. Rank(e, setting) = k
  BY <1>3, <1>4, <1>5 DEF Rank, L
<1> QED
  BY <1>6 DEF setting, k, L

LEMMA TierGrows ==
  ASSUME NEW m \in Nat, NEW n \in Nat, m <= n
  PROVE  Tier(m) \in 1..4 /\ Tier(n) \in 1..4 /\ Tier(m) <= Tier(n)
<1> DEFINE K(i) == Tiers[i] * CharsPerToken * Context
<1>1. K(1) \in Nat /\ K(2) \in Nat /\ K(3) \in Nat
  <2>1. Tiers[1] \in Nat /\ Tiers[2] \in Nat /\ Tiers[3] \in Nat
    BY OptionsAssumption
  <2>2. CharsPerToken \in Nat /\ Context \in Nat
    BY OptionsAssumption
  <2> QED
    BY <2>1, <2>2
<1> HIDE DEF K
<1>2. \A c \in Nat : Tier(c) = IF c * 100 < K(1) THEN 1 ELSE IF c * 100 < K(2) THEN 2
                               ELSE IF c * 100 < K(3) THEN 3 ELSE 4
  BY DEF Tier, K
<1> QED
  BY <1>1, <1>2

LEMMA DecidedRank ==
  ASSUME NEW e \in Engines, NEW n \in Nat
  PROVE  Rank(e, Decided(n)[e]) = Place(e, Tier(n))
<1>1. Tier(n) \in 1..4
  BY TierGrows
<1>2. Decided(n)[e] = [enabled |-> TRUE, level |-> Levels[e][Place(e, Tier(n))]]
  <2> DEFINE At(f) == [enabled |-> TRUE, level |-> Levels[f][Place(f, Tier(n))]]
             d == [caveman |-> At("caveman"), rtk |-> At("rtk"),
                   json_aware |-> At("json_aware"), lsh |-> At("lsh"), jl |-> Tier(n) > 1]
  <2>1. Decided(n) = d
    BY Zenon DEF Decided, Place
  <2> HIDE DEF At
  <2>2. d[e] = At(e)
    BY DEF Engines
  <2> QED
    BY <2>1, <2>2 DEF At
<1> QED
  BY <1>1, <1>2, RankOfPlace

LEMMA DecidedGrows ==
  ASSUME NEW m \in Nat, NEW n \in Nat, m <= n, NEW e \in Engines
  PROVE  Rank(e, Decided(m)[e]) <= Rank(e, Decided(n)[e])
<1>1. Tier(m) \in 1..4 /\ Tier(n) \in 1..4 /\ Tier(m) <= Tier(n)
  BY TierGrows
<1>2. Len(Levels[e]) \in 3..4
  BY LevelsDiffer
<1>3. Place(e, Tier(m)) <= Place(e, Tier(n))
  BY <1>1, <1>2 DEF Place
<1> QED
  BY <1>3, DecidedRank

\* Under the adaptive policy a longer payload gets at least the compression of
\* a shorter one, whatever the floor, the tiers and the context
\* (adaptive.py:78-159).
THEOREM LongerCompressedMore == Spec => []LargerNeverGentler
<1>1. Recorded => LargerNeverGentler
  <2> SUFFICES ASSUME Recorded, call.fn = "options", call.rt.adaptive,
                      NEW n \in Sizes, n >= call.chars
               PROVE  Gentler(call.result, Options(call.rt, call.model, call.endpoint, n))
    BY DEF LargerNeverGentler
  <2> DEFINE rt == call.rt
             m == call.chars
             p == Resolve(call.model, call.endpoint)
             now == IF PolicyActive THEN Overridden(rt, p) ELSE rt
             x == Options(rt, call.model, call.endpoint, m)
             y == Options(rt, call.model, call.endpoint, n)
  <2>1. rt \in Snapshot /\ m \in Nat /\ n \in Nat /\ call.result = x
    BY CallsAssumption DEF Recorded
  <2>2. now.adaptive
    <3> HIDE DEF p
    <3> QED
      BY <2>1, OverriddenIs
  <2> HIDE DEF p, now
  <2>3. CASE ~rt.input \/ (PolicyActive /\ ~p.input) \/ ~ShouldCompress(m)
    <3>1. x.raw
      BY <2>2, <2>3, Zenon DEF Options, AsItCame, p, now
    <3> QED
      BY <2>1, <3>1 DEF Gentler
  <2>4. CASE rt.input /\ ~(PolicyActive /\ ~p.input) /\ ShouldCompress(m)
    <3>1. ShouldCompress(n)
      BY <2>1, <2>4, OptionsAssumption DEF ShouldCompress
    <3>2. x = Engaged(now, Decided(m)) /\ y = Engaged(now, Decided(n))
      BY <2>2, <2>4, <3>1, Zenon DEF Options, p, now
    <3> HIDE DEF x, y
    <3>3. y.raw = FALSE
      BY <3>2 DEF Engaged
    <3>4. ASSUME NEW e \in Engines
          PROVE  x.engines[e] = Decided(m)[e] /\ y.engines[e] = Decided(n)[e]
      BY <3>2 DEF Engaged
    <3>5. \A e \in Engines : Rank(e, x.engines[e]) <= Rank(e, y.engines[e])
      BY <2>1, <3>4, DecidedGrows
    <3> QED
      BY <2>1, <3>3, <3>5 DEF Gentler, x, y
  <2> QED
    BY <2>3, <2>4
<1> QED
  BY <1>1, CallsRecorded, PTL

-----------------------------------------------------------------------------
\* The middle-out cut, for texts of every length and every limit.

LEMMA DigitsRange ==
  ASSUME NEW k \in Int
  PROVE  Digits(k) \in 1..9
BY DEF Digits

\* Digits grow with the number, and where they have just grown they stay for
\* a while.
LEMMA DigitsGrow ==
  ASSUME NEW a \in Int, NEW b \in Int, a <= b
  PROVE  Digits(a) <= Digits(b)
BY DEF Digits

LEMMA DigitsSettle ==
  ASSUME NEW a \in Int, NEW b \in Int, NEW c \in Int,
         a <= b, b <= a + 8, b <= c, c <= b + 8, Digits(a) # Digits(b)
  PROVE  Digits(b) = Digits(c)
BY DEF Digits

LEMMA LimitTypes ==
  ASSUME NEW o \in Limits
  PROVE  o.max \in Int /\ o.omit \in Nat /\ o.percent \in 5..95
BY MiddleOutAssumption

-----------------------------------------------------------------------------
\* The head's share grows with the budget, but not faster.
LEMMA HeadShareGrows ==
  ASSUME NEW o \in Limits, NEW a \in Nat, NEW b \in Nat, 128 <= a, a <= b
  PROVE  /\ HeadShare(a, o) \in Nat /\ HeadShare(b, o) \in Nat
         /\ HeadShare(a, o) <= HeadShare(b, o)
         /\ HeadShare(b, o) <= HeadShare(a, o) + (b - a)
<1> DEFINE p == o.percent
           x == a * p
           y == b * p
           w == (b - a) * p
           u == IF a \in o.short THEN 1 ELSE 0
           v == IF b \in o.short THEN 1 ELSE 0
<1>1. p \in 5..95
  BY LimitTypes
<1>2. x \in Nat /\ y \in Nat /\ u \in 0..1 /\ v \in 0..1 /\ x >= 640
  BY <1>1
<1>3. y = x + w
  BY <1>1
<1>4. w \in Int /\ w <= (b - a) * 95 /\ w >= (b - a) * 5
  BY <1>1
<1> HIDE DEF p, x, y, w
<1>5. a = b => u = v
  OBVIOUS
<1>6. HeadShare(a, o) = (x - u) \div 100 /\ HeadShare(b, o) = (y - v) \div 100
  BY DEF HeadShare, x, y, p
<1> HIDE DEF u, v
<1>7. CASE a = b
  BY <1>2, <1>3, <1>4, <1>5, <1>6, <1>7
<1>8. CASE a < b
  <2>1. x - u <= y - v /\ y - v <= x - u + 100 * (b - a)
    BY <1>2, <1>3, <1>4, <1>8
  <2> QED
    BY <2>1, <1>2, <1>6
<1> QED
  BY <1>7, <1>8

LEMMA HeadShareBounds ==
  ASSUME NEW o \in Limits, NEW b \in Nat, 128 <= b
  PROVE  HeadShare(b, o) \in 0..b
<1>1. o.percent \in 5..95
  BY LimitTypes
<1>2. b * o.percent <= b * 100 /\ b * o.percent >= 640 /\ b * o.percent \in Nat
  BY <1>1
<1> QED
  BY <1>2 DEF HeadShare

\* What is kept beside a marker that shows s.
KeptBeside(s, n, o) == Shared(s, n, o).head + Shared(s, n, o).tail

LEMMA BudgetType ==
  ASSUME NEW o \in Limits, NEW n \in Int, NEW s \in Int
  PROVE  Budget(s, n, o) \in Nat /\ Budget(s, n, o) >= 128
BY LimitTypes, DigitsRange DEF Budget, Larger, MarkerLength, MarkerWords

LEMMA SharedType ==
  ASSUME NEW o \in Limits, NEW n \in Int, NEW s \in Int
  PROVE  LET c == Shared(s, n, o)
         IN /\ c.shown = s /\ c.settled = FALSE /\ c.head \in Nat /\ c.tail \in Nat
            /\ c = [shown |-> s, head |-> c.head, tail |-> c.tail, settled |-> FALSE]
BY BudgetType, HeadShareBounds DEF Shared, Larger

LEMMA KeptIs ==
  ASSUME NEW o \in Limits, NEW n \in Int, NEW s \in Int
  PROVE  LET b == Budget(s, n, o)
         IN /\ KeptBeside(s, n, o) = Larger(b, HeadShare(b, o) + 64)
            /\ KeptBeside(s, n, o) \in Nat
<1> DEFINE b == Budget(s, n, o)
<1>1. b \in Nat /\ b >= 128 /\ HeadShare(b, o) \in 0..b
  BY BudgetType, HeadShareBounds
<1> HIDE DEF b
<1>2. KeptBeside(s, n, o) = Larger(64, HeadShare(b, o)) + Larger(64, b - Larger(64, HeadShare(b, o)))
  BY DEF KeptBeside, Shared, b
<1> QED
  BY <1>1, <1>2 DEF Larger, b

LEMMA KeptFalls ==
  ASSUME NEW o \in Limits, NEW n \in Int, NEW s \in Int, NEW t \in Int, s <= t
  PROVE  /\ KeptBeside(t, n, o) <= KeptBeside(s, n, o)
         /\ KeptBeside(s, n, o) <= KeptBeside(t, n, o) + 8
<1> DEFINE b == Budget(s, n, o)
           c == Budget(t, n, o)
<1>1. c <= b /\ b <= c + 8
  BY DigitsRange, DigitsGrow, LimitTypes, SMTT(20)
  DEF Budget, MarkerLength, MarkerWords, Larger
<1>2. b \in Nat /\ b >= 128 /\ c \in Nat /\ c >= 128
  BY BudgetType
<1>3. /\ KeptBeside(s, n, o) = Larger(b, HeadShare(b, o) + 64)
      /\ KeptBeside(t, n, o) = Larger(c, HeadShare(c, o) + 64)
  BY KeptIs
<1> HIDE DEF b, c
<1>4. /\ HeadShare(c, o) \in Nat /\ HeadShare(b, o) \in Nat
      /\ HeadShare(c, o) <= HeadShare(b, o)
      /\ HeadShare(b, o) <= HeadShare(c, o) + (b - c)
  BY <1>1, <1>2, HeadShareGrows
<1> QED
  BY <1>1, <1>2, <1>3, <1>4 DEF Larger

LEMMA SameDigitsSameShares ==
  ASSUME NEW o \in Limits, NEW n \in Int, NEW s \in Int, NEW t \in Int,
         Digits(s) = Digits(t)
  PROVE  /\ Shared(s, n, o).head = Shared(t, n, o).head
         /\ Shared(s, n, o).tail = Shared(t, n, o).tail
         /\ Budget(s, n, o) = Budget(t, n, o)
BY DEF Shared, Budget, MarkerLength

\* Under a small limit the marker is not paid for, and its digits do not
\* matter.
LEMMA SmallLimit ==
  ASSUME NEW o \in Limits, NEW n \in Int, NEW s \in Int, NEW t \in Int, o.max <= 260
  PROVE  KeptBeside(s, n, o) = KeptBeside(t, n, o)
<1>1. Budget(s, n, o) = 128 /\ Budget(t, n, o) = 128
  BY DigitsRange, LimitTypes DEF Budget, MarkerLength, MarkerWords, Larger
<1> QED
  BY <1>1, KeptIs

\* Otherwise the first number is too small.
LEMMA LargeLimit ==
  ASSUME NEW o \in Limits, NEW n \in Int, NEW s \in Int, o.max > 260
  PROVE  KeptBeside(s, n, o) < o.max
<1> DEFINE b == Budget(s, n, o)
<1>1. b \in Nat /\ b >= 128 /\ (b = 128 \/ b <= o.max - 132)
  <2>1. Digits(s) \in 1..9 /\ Digits(n) \in 1..9 /\ o.max \in Int
    BY DigitsRange, LimitTypes
  <2> QED
    BY <2>1 DEF Budget, MarkerLength, MarkerWords, Larger
<1>2. KeptBeside(s, n, o) = Larger(b, HeadShare(b, o) + 64)
  BY KeptIs
<1>3. HeadShare(b, o) \in 0..b
  BY <1>1, HeadShareBounds
<1> HIDE DEF b
<1> QED
  BY <1>1, <1>2, <1>3, LimitTypes DEF Larger

\* One turn of the loop at s, of which m is what is really omitted.
LEMMA RoundRests ==
  ASSUME NEW o \in Limits, NEW n \in Int, NEW s \in Int,
         NEW m, m = n - KeptBeside(s, n, o), Digits(m) = Digits(s)
  PROVE  LET c == Round(Shared(s, n, o), n, o)
         IN /\ c.settled /\ c.shown = m /\ m = n - c.head - c.tail
            /\ c.head = Shared(m, n, o).head /\ c.tail = Shared(m, n, o).tail
<1> DEFINE c == Shared(s, n, o)
<1>1. /\ c.shown = s /\ c.settled = FALSE /\ c.head \in Nat /\ c.tail \in Nat
      /\ c = [shown |-> s, head |-> c.head, tail |-> c.tail, settled |-> FALSE]
  BY SharedType
<1>2. m = n - c.head - c.tail /\ m \in Int
  BY <1>1 DEF KeptBeside
<1>3. c.head = Shared(m, n, o).head /\ c.tail = Shared(m, n, o).tail
  BY <1>2, SameDigitsSameShares
<1> HIDE DEF c
<1>4. Round(c, n, o) = [c EXCEPT !.shown = m, !.settled = TRUE]
  BY <1>1, <1>2 DEF Round
<1>5. Round(c, n, o) = [shown |-> m, head |-> c.head, tail |-> c.tail, settled |-> TRUE]
  BY <1>1, <1>4
<1> DEFINE d == Round(c, n, o)
<1>6. d.settled = TRUE /\ d.shown = m /\ d.head = c.head /\ d.tail = c.tail
  BY <1>5
<1> HIDE DEF d
<1>7. /\ d.settled /\ d.shown = m /\ m = n - d.head - d.tail
      /\ d.head = Shared(m, n, o).head /\ d.tail = Shared(m, n, o).tail
  BY <1>2, <1>3, <1>6
<1> QED
  BY <1>7 DEF c, d

LEMMA RoundGoesOn ==
  ASSUME NEW o \in Limits, NEW n \in Int, NEW s \in Int,
         NEW m, m = n - KeptBeside(s, n, o), Digits(m) # Digits(s)
  PROVE  Round(Shared(s, n, o), n, o) = Shared(m, n, o)
<1> DEFINE c == Shared(s, n, o)
<1>1. c.shown = s /\ c.settled = FALSE /\ c.head \in Nat /\ c.tail \in Nat
  BY SharedType
<1>2. m = n - c.head - c.tail
  BY <1>1 DEF KeptBeside
<1> HIDE DEF c
<1>3. Round(c, n, o) = Shared(m, n, o)
  BY <1>1, <1>2 DEF Round
<1> QED
  BY <1>3 DEF c

LEMMA RoundStays ==
  ASSUME NEW c, NEW n, NEW o, c.settled
  PROVE  Round(c, n, o) = c
BY DEF Round

\* The loop comes to rest within its three turns: what it shows is what it
\* omits, beside the shares cut for a marker of that length, and at least
\* what was omitted at first.
LEMMA LoopSettles ==
  ASSUME NEW o \in Limits, NEW n \in Int, ~LeftAlone(n, o)
  PROVE  LET c == Stabilised(n, o)
         IN /\ c.shown \in Int
            /\ c.head = Shared(c.shown, n, o).head
            /\ c.tail = Shared(c.shown, n, o).tail
            /\ c.shown = n - c.head - c.tail
            /\ c.shown > o.omit
<1> DEFINE s0 == n - o.max
           s1 == n - KeptBeside(s0, n, o)
           s2 == n - KeptBeside(s1, n, o)
           s3 == n - KeptBeside(s2, n, o)
           c0 == Shared(s0, n, o)
           c1 == Round(c0, n, o)
           c2 == Round(c1, n, o)
           c3 == Round(c2, n, o)
<1>1. s0 \in Int /\ s1 \in Int /\ s2 \in Int /\ s3 \in Int
  <2>1. s0 \in Int
    BY LimitTypes
  <2> HIDE DEF s0
  <2>2. s1 \in Int
    BY <2>1, KeptIs
  <2> HIDE DEF s1
  <2>3. s2 \in Int
    BY <2>2, KeptIs
  <2> HIDE DEF s2
  <2>4. s3 \in Int
    BY <2>3, KeptIs
  <2> QED
    BY <2>1, <2>2, <2>3, <2>4
<1>2. s1 > o.omit
  <2>1. c0.head \in Nat /\ c0.tail \in Nat /\ o.omit \in Nat /\ s1 = n - (c0.head + c0.tail)
    BY <1>1, SharedType, LimitTypes DEF KeptBeside
  <2>2. ~(c0.head + c0.tail >= n - o.omit)
    BY DEF LeftAlone, First
  <2> HIDE DEF c0, s1
  <2> QED
    BY <2>1, <2>2
<1>3. s1 <= s2 /\ (Digits(s1) = Digits(s2) \/ Digits(s2) = Digits(s3)) /\ s2 <= s3
  <2>1. CASE o.max <= 260
    BY <1>1, <2>1, SmallLimit
  <2>2. CASE o.max > 260
    <3>1. s0 <= s1
      BY <1>1, <2>2, LargeLimit, LimitTypes, KeptIs
    <3>2. s1 <= s2 /\ s2 <= s1 + 8
      BY <1>1, <3>1, KeptFalls, KeptIs
    <3>3. s2 <= s3 /\ s3 <= s2 + 8
      BY <1>1, <3>2, KeptFalls, KeptIs
    <3> HIDE DEF s0, s1, s2, s3
    <3> QED
      BY <1>1, <3>2, <3>3, DigitsSettle
  <2> QED
    BY <2>1, <2>2, LimitTypes
<1>4. Stabilised(n, o) = c3
  BY DEF Stabilised, First
<1> DEFINE Rests(c, m) == /\ c.shown = m /\ m = n - c.head - c.tail
                          /\ c.head = Shared(m, n, o).head /\ c.tail = Shared(m, n, o).tail
<1>5. Rests(c3, s1) \/ Rests(c3, s2) \/ Rests(c3, s3)
  <2> HIDE DEF s0
  <2>1. CASE Digits(s1) = Digits(s0)
    <3>1. c1.settled /\ Rests(c1, s1)
      BY <1>1, <2>1, RoundRests
    <3>2. c2 = c1 /\ c3 = c2
      <4> HIDE DEF c1
      <4> QED BY <3>1, RoundStays
    <3> QED
      BY <3>1, <3>2
  <2>2. CASE Digits(s1) # Digits(s0) /\ Digits(s2) = Digits(s1)
    <3>1. c1 = Shared(s1, n, o)
      BY <1>1, <2>2, RoundGoesOn
    <3> HIDE DEF s1
    <3>2. c2.settled /\ Rests(c2, s2)
      <4> HIDE DEF c1
      <4> QED BY <1>1, <2>2, <3>1, RoundRests
    <3>3. c3 = c2
      <4> HIDE DEF c2
      <4> QED BY <3>2, RoundStays
    <3> QED
      BY <3>2, <3>3
  <2>3. CASE /\ Digits(s1) # Digits(s0) /\ Digits(s2) # Digits(s1)
             /\ Digits(s3) = Digits(s2)
    <3>1. c1 = Shared(s1, n, o)
      BY <1>1, <2>3, RoundGoesOn
    <3> HIDE DEF s1, c1
    <3>2. c2 = Shared(s2, n, o)
      BY <1>1, <2>3, <3>1, RoundGoesOn
    <3> HIDE DEF s2, c2
    <3>3. Rests(c3, s3)
      BY <1>1, <2>3, <3>2, RoundRests
    <3> QED
      BY <3>3
  <2> QED
    BY <1>3, <2>1, <2>2, <2>3
<1>6. s1 <= s2 /\ s2 <= s3 /\ o.omit \in Nat
  BY <1>3, LimitTypes
<1> HIDE DEF s0, s1, s2, s3, c0, c1, c2, c3
<1> QED
  BY <1>1, <1>2, <1>4, <1>5, <1>6

\* What is known of every cut, for one without blanks next to the marker and
\* one with.
LEMMA CutKnown ==
  ASSUME NEW o \in Limits, NEW text, text.length \in Int,
         text.from \in Int, text.to \in Int,
         MiddleOutText(text, o).cut
  PROVE  LET r == MiddleOutText(text, o)
             n == text.length
             blank == text.from..text.to
         IN /\ ~LeftAlone(n, o)
            /\ r.shown \in Int /\ r.shown > o.omit
            /\ r.head = Shared(r.shown, n, o).head /\ r.tail = Shared(r.shown, n, o).tail
            /\ r.head \in Nat /\ r.tail \in Nat
            /\ r.shown = n - r.head - r.tail
            /\ r.upto = IF r.head \in blank THEN text.from - 1 ELSE r.head
            /\ r.onwards = IF n - r.tail + 1 \in blank THEN text.to + 1 ELSE n - r.tail + 1
<1> DEFINE n == text.length
           c == Stabilised(n, o)
           start == n - c.tail + 1
           blank == text.from..text.to
           r == MiddleOutText(text, o)
<1>1. ~LeftAlone(n, o)
  <2>1. ASSUME LeftAlone(n, o) PROVE r.cut = FALSE
    <3>1. r = [cut |-> FALSE]
      BY <2>1, Zenon DEF MiddleOutText
    <3> QED
      BY <3>1
  <2> HIDE DEF r
  <2> QED
    BY <2>1 DEF r
<1>2. /\ c.shown \in Int
      /\ c.head = Shared(c.shown, n, o).head /\ c.tail = Shared(c.shown, n, o).tail
      /\ c.shown = n - c.head - c.tail /\ c.shown > o.omit
  BY <1>1, LoopSettles
<1>3. c.head \in Nat /\ c.tail \in Nat
  <2>1. n \in Int /\ c.shown \in Int
    BY <1>2
  <2> HIDE DEF c, n
  <2>2. Shared(c.shown, n, o).head \in Nat /\ Shared(c.shown, n, o).tail \in Nat
    BY <2>1, SharedType
  <2> QED
    BY <1>2, <2>2
<1>4. r = [cut |-> TRUE, shown |-> c.shown, head |-> c.head, tail |-> c.tail,
           upto |-> IF c.head \in blank THEN text.from - 1 ELSE c.head,
           onwards |-> IF start \in blank THEN text.to + 1 ELSE start]
  BY <1>1, Zenon DEF MiddleOutText
<1> HIDE DEF r, c
<1>5. /\ r.shown = c.shown /\ r.head = c.head /\ r.tail = c.tail
      /\ r.upto = (IF r.head \in blank THEN text.from - 1 ELSE r.head)
      /\ r.onwards = (IF n - r.tail + 1 \in blank THEN text.to + 1 ELSE n - r.tail + 1)
  BY <1>4
<1>6. /\ r.shown \in Int /\ r.shown > o.omit
      /\ r.head = Shared(r.shown, n, o).head /\ r.tail = Shared(r.shown, n, o).tail
      /\ r.head \in Nat /\ r.tail \in Nat
      /\ r.shown = n - r.head - r.tail
  BY <1>2, <1>3, <1>5
<1> QED
  BY <1>1, <1>5, <1>6 DEF r

\* The call is none, or of one of the four functions, and a cut is the one of
\* middle_out_text().
CallIs ==
  call.fn = "middle_out" =>
    /\ call.o \in Limits
    /\ call.text.length \in Int /\ call.text.from \in Int /\ call.text.to \in Int
    /\ call.result = MiddleOutText(call.text, call.o)

LEMMA CallsMade == Spec => []CallIs
<1>1. Init => CallIs
  BY CallsAssumption DEF Init, Idle, CallIs
<1>2. ASSUME CallIs, [Next]_call PROVE CallIs'
  <2>1. CASE CallMiddleOut
    <3>1. PICK o \in Limits, extra \in Lengths, b \in Blanks :
            \E n \in {Larger(o.max, 0) + extra} : \E at \in {First(n, o).head} :
              \E text \in {[length |-> n, from |-> at - b + 1, to |-> at + b]} :
                call' = [fn |-> "middle_out", text |-> text, o |-> o,
                         result |-> MiddleOutText(text, o)]
      BY <2>1 DEF CallMiddleOut
    <3> DEFINE n == Larger(o.max, 0) + extra
               at == First(n, o).head
               text == [length |-> n, from |-> at - b + 1, to |-> at + b]
    <3>2. n \in Int /\ b \in Int
      BY LimitTypes, CallsAssumption DEF Larger
    <3>3. at \in Int
      <4> HIDE DEF n
      <4>1. n - o.max \in Int
        BY <3>2, LimitTypes
      <4>2. Shared(n - o.max, n, o).head \in Nat
        BY <3>2, <4>1, SharedType
      <4> QED
        BY <4>2 DEF First
    <3>4. call' = [fn |-> "middle_out", text |-> text, o |-> o,
                   result |-> MiddleOutText(text, o)]
      BY <3>1
    <3> HIDE DEF n, at
    <3>5. text.length \in Int /\ text.from \in Int /\ text.to \in Int
      BY <3>2, <3>3
    <3> HIDE DEF text
    <3> QED
      BY <3>4, <3>5 DEF CallIs
  <2>2. CASE CallProse
    BY <2>2 DEF CallProse, CallIs
  <2>3. CASE CallLoad
    BY <2>3 DEF CallLoad, CallIs
  <2>4. CASE CallOptions
    BY <2>4 DEF CallOptions, CallIs
  <2>5. CASE Return
    BY <2>5, CallsAssumption DEF Return, Idle, CallIs
  <2>6. CASE UNCHANGED call
    BY <1>2, <2>6 DEF CallIs
  <2> QED
    BY <1>2, <2>1, <2>2, <2>3, <2>4, <2>5, <2>6 DEF Next
<1> QED
  BY <1>1, <1>2, PTL DEF Spec

LEMMA CutIs ==
  ASSUME CallIs, WasCut
  PROVE  LET o == call.o
             r == call.result
             n == call.text.length
             blank == call.text.from..call.text.to
         IN /\ o \in Limits /\ n \in Int
            /\ call.text.from \in Int /\ call.text.to \in Int
            /\ r.shown \in Int /\ r.shown > o.omit
            /\ r.head = Shared(r.shown, n, o).head /\ r.tail = Shared(r.shown, n, o).tail
            /\ r.head \in Nat /\ r.tail \in Nat
            /\ r.shown = n - r.head - r.tail
            /\ r.upto = IF r.head \in blank THEN call.text.from - 1 ELSE r.head
            /\ r.onwards = IF n - r.tail + 1 \in blank THEN call.text.to + 1 ELSE n - r.tail + 1
<1>1. /\ call.o \in Limits
      /\ call.text.length \in Int /\ call.text.from \in Int /\ call.text.to \in Int
      /\ call.result = MiddleOutText(call.text, call.o) /\ call.result.cut
  BY DEF CallIs, WasCut
<1> DEFINE o == call.o
           text == call.text
<1>2. o \in Limits /\ text.length \in Int /\ text.from \in Int /\ text.to \in Int
      /\ MiddleOutText(text, o).cut
  BY <1>1
<1> HIDE DEF o, text
<1>3. LET r == MiddleOutText(text, o)
          n == text.length
          blank == text.from..text.to
      IN /\ r.shown \in Int /\ r.shown > o.omit
         /\ r.head = Shared(r.shown, n, o).head /\ r.tail = Shared(r.shown, n, o).tail
         /\ r.head \in Nat /\ r.tail \in Nat
         /\ r.shown = n - r.head - r.tail
         /\ r.upto = IF r.head \in blank THEN text.from - 1 ELSE r.head
         /\ r.onwards = IF n - r.tail + 1 \in blank THEN text.to + 1 ELSE n - r.tail + 1
  BY <1>2, CutKnown
<1> QED
  BY <1>1, <1>3 DEF o, text

\* Every cut text, of any length and under any limit, states exactly what is
\* missing (middle_out_text()): no second loop is needed for the digits.
THEOREM CutsCounted == Spec => []CountExact
<1>1. CallIs => CountExact
  <2> SUFFICES ASSUME CallIs, WasCut PROVE CountExact
    BY DEF CountExact
  <2> DEFINE r == call.result
             n == call.text.length
             from == call.text.from
             to == call.text.to
             start == n - r.tail + 1
  <2>1. /\ call.o.omit \in Nat /\ n \in Int /\ from \in Int /\ to \in Int
        /\ r.shown \in Int /\ r.shown > call.o.omit
        /\ r.head \in Nat /\ r.tail \in Nat
        /\ r.shown = n - r.head - r.tail
        /\ r.upto = IF r.head \in from..to THEN from - 1 ELSE r.head
        /\ r.onwards = IF start \in from..to THEN to + 1 ELSE start
    BY CutIs, LimitTypes
  <2> HIDE DEF r, n, from, to
  <2>2. r.shown = n - r.head - r.tail /\ r.shown > 0
    BY <2>1
  <2>3. ASSUME NEW i \in (r.upto + 1)..r.head PROVE i \in from..to
    BY <2>1
  <2>4. ASSUME NEW i \in start..(r.onwards - 1) PROVE i \in from..to
    BY <2>1
  <2> QED
    BY <2>2, <2>3, <2>4 DEF CountExact, r, n, from, to
<1> QED
  BY <1>1, CallsMade, PTL

\* No limit, however small, is overrun by more than the floors of head and
\* tail, and where a marker's length has to be won, cutting always wins.
THEOREM CutsNearLimit == Spec => []NearLimit
<1>1. CallIs => NearLimit
  <2> SUFFICES ASSUME CallIs, WasCut PROVE NearLimit
    BY DEF NearLimit
  <2> DEFINE r == call.result
             n == call.text.length
             o == call.o
             start == n - r.tail + 1
             mark == MarkerLength(r.shown, n)
             b == Budget(r.shown, n, o)
             from == call.text.from
             to == call.text.to
  <2>1. /\ o \in Limits /\ n \in Int /\ from \in Int /\ to \in Int
        /\ r.shown \in Int /\ r.shown > o.omit
        /\ r.head = Shared(r.shown, n, o).head /\ r.tail = Shared(r.shown, n, o).tail
        /\ r.head \in Nat /\ r.tail \in Nat
        /\ r.shown = n - r.head - r.tail
        /\ r.upto = IF r.head \in from..to THEN from - 1 ELSE r.head
        /\ r.onwards = IF start \in from..to THEN to + 1 ELSE start
    BY CutIs
  <2>2. r.cut /\ ResultLength(call.text, r) = r.upto + mark + n - r.onwards + 1
    BY DEF WasCut, ResultLength
  <2> HIDE DEF r, n, from, to, o
  <2>3. r.upto <= r.head /\ r.onwards >= start /\ r.upto \in Int /\ r.onwards \in Int
    <3>1. r.head \in Nat /\ start \in Int /\ from \in Int /\ to \in Int
      BY <2>1
    <3>2. r.upto = IF r.head \in from..to THEN from - 1 ELSE r.head
      BY <2>1
    <3>3. r.onwards = IF start \in from..to THEN to + 1 ELSE start
      BY <2>1
    <3> HIDE DEF start
    <3> QED
      BY <3>1, <3>2, <3>3
  <2>4. mark \in 132..148
    BY <2>1, DigitsRange DEF MarkerLength, MarkerWords
  <2>5. b = Larger(128, o.max - mark) /\ o.max \in Int /\ o.omit \in Nat
    BY <2>1, LimitTypes DEF Budget
  <2> HIDE DEF mark
  <2>6. r.head + r.tail <= b + 64
    <3>1. b \in Nat /\ b >= 128
      BY <2>1, BudgetType
    <3>2. KeptBeside(r.shown, n, o) = Larger(b, HeadShare(b, o) + 64)
      BY <2>1, KeptIs
    <3>3. r.head + r.tail = Larger(b, HeadShare(b, o) + 64)
      BY <2>1, <3>2 DEF KeptBeside
    <3> HIDE DEF b
    <3>4. HeadShare(b, o) \in 0..b
      BY <2>1, <3>1, HeadShareBounds
    <3> QED
      BY <3>1, <3>3, <3>4 DEF Larger
  <2> HIDE DEF b
  <2> DEFINE length == r.upto + mark + n - r.onwards + 1
  <2>7. length <= r.head + mark + r.tail
    BY <2>1, <2>3, <2>4
  <2>8. length <= Larger(o.max, 128 + mark) + 64
    BY <2>1, <2>3, <2>4, <2>5, <2>6, <2>7 DEF Larger
  <2>9. o.omit >= MarkerWords + 18 => length < n
    BY <2>1, <2>3, <2>4, <2>5, <2>7 DEF MarkerWords
  <2> QED
    BY <2>2, <2>8, <2>9 DEF NearLimit, r, n, o, mark
<1> QED
  BY <1>1, CallsMade, PTL

-----------------------------------------------------------------------------
\* A piece of a word on its way through an engine.
Bit ==
  Piece \cup [kind : {"short"}, of : Terms] \cup [kind : {"stump"}, at : Nat] \cup {Nul}

\* A word,
BitWord == Seq(Bit)
\* and a line of them.
BitLine == Seq(BitWord)

\* What Sheltered() keeps of a piece,
Keep == [p \in Bit |-> IF Loose(p) THEN <<>> ELSE <<p>>]
\* and Protected() of a word.
KeepWord == [w \in BitWord |-> Sheltered(w)]

\* The kinds of pieces, and what those that carry something carry.
LEMMA BitParts ==
  ASSUME NEW p \in Bit
  PROVE  /\ p.kind \in {"term", "ident", "slash", "url", "mark", "hole", "short", "stump", "nul"}
         /\ p.kind \in {"term", "short"} => p.of \in Terms
         /\ p.kind \in {"hole", "stump"} => p.at \in Nat
BY DEF Bit, Piece, Nul

\* What the engines make are pieces.
LEMMA MadeBits ==
  /\ \A t \in Terms : Term(t) \in Bit /\ Short(t) \in Bit
  /\ \A k \in Nat : Hole(k) \in Bit /\ Stump(k) \in Bit
  /\ Nul \in Bit /\ Piece \subseteq Bit
BY DEF Bit, Piece, Nul, Term, Short, Hole, Stump

\* Keep makes words of pieces.
LEMMA KeepTyped == Keep \in [Bit -> BitWord]
<1>1. \A p \in Bit : (IF Loose(p) THEN <<>> ELSE <<p>>) \in Seq(Bit)
  OBVIOUS
<1> QED
  BY <1>1 DEF Keep, BitWord

\* Sheltered() is a spread,
LEMMA ShelteredIs ==
  ASSUME NEW w \in BitWord
  PROVE  Sheltered(w) = Spread(w, Keep) /\ Sheltered(w) \in BitWord
<1>1. w \in Seq(Bit)
  BY DEF BitWord
<1>2. \A i \in DOMAIN w : w[i] \in Bit
  BY <1>1, LenProperties, ElementOfSeq
<1>3. [j \in DOMAIN w |-> IF Loose(w[j]) THEN <<>> ELSE <<w[j]>>]
        = [j \in DOMAIN w |-> Keep[w[j]]]
  BY <1>2 DEF Keep
<1>4. Spread(w, Keep) \in Seq(Bit)
  BY <1>1, KeepTyped, SpreadTyped DEF BitWord
<1> QED
  BY <1>3, <1>4 DEF Sheltered, Spread, BitWord

\* KeepWord makes words of words,
LEMMA KeepWordTyped == KeepWord \in [BitWord -> BitWord]
BY ShelteredIs DEF KeepWord

\* and Protected() is a spread of them.
LEMMA ProtectedIs ==
  ASSUME NEW line \in BitLine
  PROVE  Protected(line) = Spread(line, KeepWord) /\ Protected(line) \in BitWord
<1>1. line \in Seq(BitWord)
  BY DEF BitLine
<1>2. \A i \in DOMAIN line : line[i] \in BitWord
  BY <1>1, LenProperties, ElementOfSeq
<1>3. [i \in DOMAIN line |-> Sheltered(line[i])] = [i \in DOMAIN line |-> KeepWord[line[i]]]
  BY <1>2 DEF KeepWord
<1>4. KeepWord \in [BitWord -> Seq(Bit)]
  BY KeepWordTyped DEF BitWord
<1>5. Spread(line, KeepWord) \in Seq(Bit)
  BY <1>1, <1>4, SpreadTyped
<1> QED
  BY <1>3, <1>5 DEF Protected, Spread, BitWord

\* What a word shelters, part by part.
LEMMA ShelteredParts ==
  /\ Sheltered(<<>>) = <<>>
  /\ \A p \in Bit : Sheltered(<<p>>) = IF Loose(p) THEN <<>> ELSE <<p>>
  /\ \A u, v \in BitWord : Sheltered(u \o v) = Sheltered(u) \o Sheltered(v) /\ u \o v \in BitWord
<1>0. Keep \in [Bit -> Seq(Bit)]
  BY KeepTyped DEF BitWord
<1>1. Sheltered(<<>>) = <<>>
  <2>1. <<>> \in BitWord
    BY DEF BitWord
  <2>2. Spread(<<>>, Keep) = <<>>
    BY SpreadEmpty
  <2> QED
    BY <2>1, <2>2, ShelteredIs
<1>2. ASSUME NEW p \in Bit
      PROVE  Sheltered(<<p>>) = IF Loose(p) THEN <<>> ELSE <<p>>
  <2>1. <<p>> \in BitWord
    BY DEF BitWord
  <2>2. Spread(<<p>>, Keep) = Keep[p]
    BY <1>0, SpreadOne
  <2> QED
    BY <2>1, <2>2, ShelteredIs DEF Keep
<1>3. ASSUME NEW u \in BitWord, NEW v \in BitWord
      PROVE  Sheltered(u \o v) = Sheltered(u) \o Sheltered(v) /\ u \o v \in BitWord
  <2>1. u \in Seq(Bit) /\ v \in Seq(Bit)
    BY DEF BitWord
  <2>2. u \o v \in Seq(Bit)
    BY <2>1, ConcatProperties
  <2>3. Spread(u \o v, Keep) = Spread(u, Keep) \o Spread(v, Keep)
    BY <1>0, <2>1, SpreadConcat
  <2>4. u \o v \in BitWord
    BY <2>2 DEF BitWord
  <2> QED
    BY <2>3, <2>4, ShelteredIs
<1> QED
  BY <1>1, <1>2, <1>3

\* A word in which nothing is protected shelters nothing.
LEMMA LooseWord ==
  ASSUME NEW w \in BitWord, \A i \in DOMAIN w : Loose(w[i])
  PROVE  Sheltered(w) = <<>>
<1>1. w \in Seq(Bit) /\ \A j \in 1..Len(w) : w[j] \in Bit /\ Loose(w[j])
  BY LenProperties, ElementOfSeq DEF BitWord
<1>2. \A j \in 1..Len(w) : Keep[w[j]] = <<>>
  BY <1>1 DEF Keep
<1>3. Keep \in [Bit -> Seq(Bit)]
  BY KeepTyped DEF BitWord
<1>4. PICK t : t = Spread(w, Keep)
  OBVIOUS
<1>5. t \in Seq(Bit)
  BY <1>1, <1>3, <1>4, SpreadTyped
<1>6. ASSUME NEW y PROVE ~Has(t, y)
  <2>1. \A j \in 1..Len(w) : ~Has(Keep[w[j]], y)
    BY <1>2 DEF Has
  <2>2. ~HasOneOf(w, Keep, y)
    BY <2>1 DEF HasOneOf
  <2>3. Has(Spread(w, Keep), y) <=> HasOneOf(w, Keep, y)
    BY <1>1, <1>3, SpreadElements
  <2> QED
    BY <1>4, <2>2, <2>3
<1>7. Len(t) = 0
  <2>1. Len(t) \in Nat
    BY <1>5, LenProperties
  <2>2. ~Has(t, t[1])
    BY <1>6
  <2> QED
    BY <2>1, <2>2 DEF Has
<1>8. t = <<>>
  BY <1>5, <1>7, EmptySeq
<1> QED
  BY <1>4, <1>8, ShelteredIs

\* The terms of the tables are loose wherever they stand.
LEMMA NamedAreLoose ==
  /\ Filler \cup Articles \subseteq Named /\ Pleasantries \subseteq Named
  /\ Clausal \subseteq Named /\ Copulas \subseteq Named /\ Abbreviated \subseteq Named
  /\ \A l \in RtkLevels : Dictionary[l] \subseteq Named
  /\ \A p \in Bit : p.kind = "term" /\ p.of \in Named => Loose(p)
<1>1. /\ Filler \cup Articles \subseteq Named /\ Pleasantries \subseteq Named
      /\ Clausal \subseteq Named /\ Copulas \subseteq Named /\ Abbreviated \subseteq Named
  BY DEF Named
<1>2. ASSUME NEW l \in RtkLevels PROVE Dictionary[l] \subseteq Named
  <2>1. Dictionary[l] \in {Dictionary[k] : k \in RtkLevels}
    OBVIOUS
  <2> QED
    BY <2>1 DEF Named
<1>3. \A p \in Bit : p.kind = "term" /\ p.of \in Named => Loose(p)
  BY DEF Loose
<1> QED
  BY <1>1, <1>2, <1>3

\* A word that is one term of a table shelters nothing, whatever marks it has.
LEMMA TermsAreNotKept ==
  ASSUME NEW w \in BitWord, NEW T, T \subseteq Named, IsTerm(w, T)
  PROVE  /\ Sheltered(w) = <<>>
         /\ \A i \in DOMAIN w : Loose(w[i]) /\ w[i] \in Bit
         /\ \A i \in Core(w) : i \in DOMAIN w /\ w[i].of \in Terms
<1>1. PICK i \in DOMAIN w : Core(w) = {i} /\ w[i].kind = "term" /\ w[i].of \in T
  BY DEF IsTerm
<1>2. \A j \in DOMAIN w : w[j] \in Bit
  BY LenProperties, ElementOfSeq DEF BitWord
<1>3. Loose(w[i])
  BY <1>1, <1>2, NamedAreLoose
<1>4. ASSUME NEW j \in DOMAIN w, j # i PROVE Loose(w[j])
  <2>1. w[j].kind = "mark"
    BY <1>1, <1>4 DEF Core
  <2> QED
    BY <2>1 DEF Loose
<1>5. \A j \in DOMAIN w : Loose(w[j])
  BY <1>3, <1>4
<1>6. w[i].of \in Terms
  BY <1>1, <1>2, BitParts
<1> QED
  BY <1>1, <1>2, <1>5, <1>6, LooseWord

\* What a line protects, word by word.
LEMMA ProtectedParts ==
  /\ Protected(<<>>) = <<>>
  /\ \A l \in BitLine : \A w \in BitWord :
       /\ Append(l, w) \in BitLine
       /\ Protected(Append(l, w)) = Protected(l) \o Sheltered(w)
<1>0. KeepWord \in [BitWord -> Seq(Bit)]
  BY KeepWordTyped DEF BitWord
<1>1. Protected(<<>>) = <<>>
  <2>1. <<>> \in BitLine
    BY DEF BitLine
  <2>2. Spread(<<>>, KeepWord) = <<>>
    BY SpreadEmpty
  <2> QED
    BY <2>1, <2>2, ProtectedIs
<1>2. ASSUME NEW l \in BitLine, NEW w \in BitWord
      PROVE  /\ Append(l, w) \in BitLine
             /\ Protected(Append(l, w)) = Protected(l) \o Sheltered(w)
  <2>1. l \in Seq(BitWord)
    BY DEF BitLine
  <2>2. Append(l, w) \in BitLine
    BY <2>1, AppendProperties DEF BitLine
  <2>3. Spread(Append(l, w), KeepWord) = Spread(l, KeepWord) \o KeepWord[w]
    BY <1>0, <2>1, SpreadAppend
  <2> QED
    BY <2>2, <2>3, ProtectedIs DEF KeepWord
<1> QED
  BY <1>1, <1>2

\* One turn of Collapsed(),
CollapseWord(acc, word) ==
  IF acc # <<>> /\ Phrase(Last(acc), word)
    THEN Append(Front(acc), Seam(Last(acc), word))
    ELSE Append(acc, word)

\* one of PulledUp(),
PullWord(acc, word) ==
  IF acc # <<>> /\ Last(acc) # <<>> /\ Pleasant(Last(Last(acc)))
    THEN Append(Front(acc), Last(acc) \o word)
    ELSE Append(acc, word)

\* and one of Glued().
GlueWord(acc, word) ==
  IF acc # <<>> /\ word[1] \in {Mark("./"), Mark(",")}
    THEN Append(Front(acc), Last(acc) \o word)
    ELSE Append(acc, word)

\* A sequence that is not empty is its first element and the others.
LEMMA HeadAndTail ==
  ASSUME NEW S, NEW s \in Seq(S), s # <<>>
  PROVE  Head(s) \in S /\ Tail(s) \in Seq(S) /\ s = <<Head(s)>> \o Tail(s)
<1>1. Head(s) \in S /\ Tail(s) \in Seq(S) /\ Len(Tail(s)) = Len(s) - 1
      /\ \A i \in 1..Len(Tail(s)) : Tail(s)[i] = s[i + 1]
  BY HeadTailProperties
<1>2. Len(s) \in Nat /\ Len(s) >= 1 /\ Head(s) = s[1]
  BY EmptySeq, LenProperties
<1>3. PICK t, u : t = Tail(s) /\ u = <<Head(s)>>
  OBVIOUS
<1>4. u \in Seq(S) /\ Len(u) = 1 /\ u[1] = s[1]
  BY <1>1, <1>2, <1>3
<1>5. u \o t \in Seq(S) /\ Len(u \o t) = Len(s)
      /\ \A i \in 1..Len(s) : (u \o t)[i] = IF i <= 1 THEN u[i] ELSE t[i - 1]
  BY <1>1, <1>2, <1>3, <1>4, ConcatProperties
<1>6. \A i \in 1..Len(s) : (u \o t)[i] = s[i]
  <2> SUFFICES ASSUME NEW i \in 1..Len(s) PROVE (u \o t)[i] = s[i]
    OBVIOUS
  <2>1. CASE i = 1
    BY <1>2, <1>4, <1>5, <2>1
  <2>2. CASE i # 1
    <3>1. i - 1 \in 1..Len(t) /\ (u \o t)[i] = t[i - 1]
      BY <1>1, <1>2, <1>3, <1>5, <2>2
    <3> QED
      BY <1>1, <1>2, <1>3, <3>1
  <2> QED
    BY <2>1, <2>2
<1>7. u \o t = s
  BY <1>5, <1>6, SeqEqual
<1> QED
  BY <1>1, <1>3, <1>7

\* Where two words meet in a phrase, only the phrase changes.
LEMMA SeamKeeps ==
  ASSUME NEW u \in BitWord, NEW v \in BitWord, Phrase(u, v)
  PROVE  Seam(u, v) \in BitWord /\ Sheltered(Seam(u, v)) = Sheltered(u) \o Sheltered(v)
<1>1. u \in Seq(Bit) /\ v \in Seq(Bit) /\ u # <<>> /\ v # <<>>
  BY DEF BitWord, Phrase
<1>2. PICK f, x : f = Front(u) /\ x = Last(u)
  OBVIOUS
<1>3. f \in Seq(Bit) /\ x \in Bit /\ u = Append(f, x)
  BY <1>1, <1>2, FrontAndLast
<1>4. PICK y, t : y = Head(v) /\ t = Tail(v)
  OBVIOUS
<1>5. y \in Bit /\ t \in Seq(Bit) /\ v = <<y>> \o t
  BY <1>1, <1>4, HeadAndTail
<1>6. x.kind = "term" /\ y.kind = "term" /\ <<x.of, y.of>> \in DOMAIN Collapses
  BY <1>2, <1>4 DEF Phrase
<1>7. PICK c : c = Collapses[<<x.of, y.of>>]
  OBVIOUS
<1>8. c \in Terms
  BY <1>6, <1>7, ProseAssumption DEF ProseAssumption
<1>9. x.of \in Named /\ y.of \in Named /\ c \in Named
  <2>1. PICK p \in DOMAIN Collapses : p = <<x.of, y.of>>
    BY <1>6
  <2>2. PICK all : all = {{q[1], q[2], Collapses[q]} : q \in DOMAIN Collapses}
    OBVIOUS
  <2>3. {p[1], p[2], Collapses[p]} \in all
    BY <2>2
  <2>4. {p[1], p[2], Collapses[p]} \subseteq UNION all
    BY <2>3
  <2>5. UNION all \subseteq Named
    BY <2>2 DEF Named
  <2>6. p[1] = x.of /\ p[2] = y.of /\ Collapses[p] = c
    BY <1>7, <2>1
  <2> QED
    BY <2>4, <2>5, <2>6
<1>10. PICK z : z = Term(c)
  OBVIOUS
<1>11. z \in Bit /\ z.kind = "term" /\ z.of = c
  BY <1>8, <1>10, MadeBits DEF Term
<1>12. Loose(x) /\ Loose(y) /\ Loose(z)
  BY <1>3, <1>5, <1>6, <1>9, <1>11, NamedAreLoose
<1>13. <<x>> \in BitWord /\ <<y>> \in BitWord /\ <<z>> \in BitWord /\ f \in BitWord /\ t \in BitWord
  BY <1>3, <1>5, <1>11 DEF BitWord
<1>14. Sheltered(<<x>>) = <<>> /\ Sheltered(<<y>>) = <<>> /\ Sheltered(<<z>>) = <<>>
  BY <1>3, <1>5, <1>11, <1>12, ShelteredParts
<1>15. PICK a, b : a = Sheltered(f) /\ b = Sheltered(t)
  OBVIOUS
<1>16. a \in Seq(Bit) /\ b \in Seq(Bit) /\ a \o <<>> = a /\ <<>> \o b = b
  <2>1. a \in Seq(Bit) /\ b \in Seq(Bit)
    BY <1>13, <1>15, ShelteredIs DEF BitWord
  <2> QED
    BY <2>1, ConcatEmptySeq
<1>17. Sheltered(u) = a
  <2>1. u = f \o <<x>>
    BY <1>3, AppendIsConcat
  <2>2. Sheltered(f \o <<x>>) = Sheltered(f) \o Sheltered(<<x>>)
    BY <1>13, ShelteredParts
  <2> QED
    BY <1>14, <1>15, <1>16, <2>1, <2>2
<1>18. Sheltered(v) = b
  <2>1. Sheltered(<<y>> \o t) = Sheltered(<<y>>) \o Sheltered(t)
    BY <1>13, ShelteredParts
  <2> QED
    BY <1>5, <1>14, <1>15, <1>16, <2>1
<1>19. Seam(u, v) = (f \o <<z>>) \o t
  BY <1>2, <1>4, <1>7, <1>10 DEF Seam
<1>20. f \o <<z>> \in BitWord /\ Sheltered(f \o <<z>>) = a
  <2>1. f \o <<z>> \in BitWord /\ Sheltered(f \o <<z>>) = Sheltered(f) \o Sheltered(<<z>>)
    BY <1>13, ShelteredParts
  <2> QED
    BY <1>14, <1>15, <1>16, <2>1
<1>21. /\ (f \o <<z>>) \o t \in BitWord
       /\ Sheltered((f \o <<z>>) \o t) = Sheltered(f \o <<z>>) \o Sheltered(t)
  BY <1>13, <1>20, ShelteredParts
<1> QED
  BY <1>15, <1>17, <1>18, <1>19, <1>20, <1>21

\* Collapsing a phrase takes nothing away that is protected.
LEMMA CollapsedTyped ==
  ASSUME NEW acc \in BitLine, NEW word \in BitWord
  PROVE  /\ CollapseWord(acc, word) \in BitLine
         /\ Protected(CollapseWord(acc, word)) = Protected(acc) \o Sheltered(word)
<1>1. CASE acc # <<>> /\ Phrase(Last(acc), word)
  <2>1. PICK f, x : f = Front(acc) /\ x = Last(acc)
    OBVIOUS
  <2>2. f \in BitLine /\ x \in BitWord /\ acc = Append(f, x)
    BY <1>1, <2>1, FrontAndLast DEF BitLine
  <2>3. PICK m : m = Seam(x, word)
    OBVIOUS
  <2>4. m \in BitWord /\ Sheltered(m) = Sheltered(x) \o Sheltered(word)
    BY <1>1, <2>1, <2>2, <2>3, SeamKeeps
  <2>5. CollapseWord(acc, word) = Append(f, m)
    BY <1>1, <2>1, <2>3 DEF CollapseWord
  <2>6. /\ Append(f, m) \in BitLine
        /\ Protected(Append(f, m)) = Protected(f) \o (Sheltered(x) \o Sheltered(word))
        /\ Protected(acc) = Protected(f) \o Sheltered(x)
    BY <2>2, <2>4, ProtectedParts
  <2>7. Protected(f) \in Seq(Bit) /\ Sheltered(x) \in Seq(Bit) /\ Sheltered(word) \in Seq(Bit)
    BY <2>2, ProtectedIs, ShelteredIs DEF BitWord
  <2>8. (Protected(f) \o Sheltered(x)) \o Sheltered(word)
          = Protected(f) \o (Sheltered(x) \o Sheltered(word))
    BY <2>7, ConcatAssociative
  <2> QED
    BY <2>5, <2>6, <2>8
<1>2. CASE ~(acc # <<>> /\ Phrase(Last(acc), word))
  <2>1. CollapseWord(acc, word) = Append(acc, word)
    BY <1>2 DEF CollapseWord
  <2> QED
    BY <2>1, ProtectedParts
<1> QED
  BY <1>1, <1>2

\* Nor does moving a word up to the one before it.
LEMMA GluedTyped ==
  ASSUME NEW acc \in BitLine, NEW word \in BitWord
  PROVE  /\ GlueWord(acc, word) \in BitLine
         /\ Protected(GlueWord(acc, word)) = Protected(acc) \o Sheltered(word)
<1>1. CASE acc # <<>> /\ word[1] \in {Mark("./"), Mark(",")}
  <2>1. PICK f, x : f = Front(acc) /\ x = Last(acc)
    OBVIOUS
  <2>2. f \in BitLine /\ x \in BitWord /\ acc = Append(f, x)
    BY <1>1, <2>1, FrontAndLast DEF BitLine
  <2>3. x \o word \in BitWord /\ Sheltered(x \o word) = Sheltered(x) \o Sheltered(word)
    BY <2>2, ShelteredParts
  <2>4. GlueWord(acc, word) = Append(f, x \o word)
    BY <1>1, <2>1 DEF GlueWord
  <2>5. /\ Append(f, x \o word) \in BitLine
        /\ Protected(Append(f, x \o word)) = Protected(f) \o (Sheltered(x) \o Sheltered(word))
        /\ Protected(acc) = Protected(f) \o Sheltered(x)
    BY <2>2, <2>3, ProtectedParts
  <2>6. Protected(f) \in Seq(Bit) /\ Sheltered(x) \in Seq(Bit) /\ Sheltered(word) \in Seq(Bit)
    BY <2>2, ProtectedIs, ShelteredIs DEF BitWord
  <2>7. (Protected(f) \o Sheltered(x)) \o Sheltered(word)
          = Protected(f) \o (Sheltered(x) \o Sheltered(word))
    BY <2>6, ConcatAssociative
  <2> QED
    BY <2>4, <2>5, <2>7
<1>2. CASE ~(acc # <<>> /\ word[1] \in {Mark("./"), Mark(",")})
  <2>1. GlueWord(acc, word) = Append(acc, word)
    BY <1>2 DEF GlueWord
  <2> QED
    BY <2>1, ProtectedParts
<1> QED
  BY <1>1, <1>2

\* Nor does pulling a word up behind a pleasantry.
LEMMA PulledTyped ==
  ASSUME NEW acc \in BitLine, NEW word \in BitWord
  PROVE  /\ PullWord(acc, word) \in BitLine
         /\ Protected(PullWord(acc, word)) = Protected(acc) \o Sheltered(word)
<1>1. CASE acc # <<>> /\ Last(acc) # <<>> /\ Pleasant(Last(Last(acc)))
  <2>1. PICK f, x : f = Front(acc) /\ x = Last(acc)
    OBVIOUS
  <2>2. f \in BitLine /\ x \in BitWord /\ acc = Append(f, x)
    BY <1>1, <2>1, FrontAndLast DEF BitLine
  <2>3. x \o word \in BitWord /\ Sheltered(x \o word) = Sheltered(x) \o Sheltered(word)
    BY <2>2, ShelteredParts
  <2>4. PullWord(acc, word) = Append(f, x \o word)
    BY <1>1, <2>1 DEF PullWord
  <2>5. /\ Append(f, x \o word) \in BitLine
        /\ Protected(Append(f, x \o word)) = Protected(f) \o (Sheltered(x) \o Sheltered(word))
        /\ Protected(acc) = Protected(f) \o Sheltered(x)
    BY <2>2, <2>3, ProtectedParts
  <2>6. Protected(f) \in Seq(Bit) /\ Sheltered(x) \in Seq(Bit) /\ Sheltered(word) \in Seq(Bit)
    BY <2>2, ProtectedIs, ShelteredIs DEF BitWord
  <2>7. (Protected(f) \o Sheltered(x)) \o Sheltered(word)
          = Protected(f) \o (Sheltered(x) \o Sheltered(word))
    BY <2>6, ConcatAssociative
  <2> QED
    BY <2>4, <2>5, <2>7
<1>2. CASE ~(acc # <<>> /\ Last(acc) # <<>> /\ Pleasant(Last(Last(acc))))
  <2>1. PullWord(acc, word) = Append(acc, word)
    BY <1>2 DEF PullWord
  <2> QED
    BY <2>1, ProtectedParts
<1> QED
  BY <1>1, <1>2

\* Collapsed() goes over a line word by word.
LEMMA CollapsedIsFold ==
  ASSUME NEW s \in Seq(BitWord)
  PROVE  \E G \in [0..Len(s) -> BitLine] :
           /\ G[0] = <<>>
           /\ \A k \in 1..Len(s) : G[k] = CollapseWord(G[k - 1], s[k])
           /\ Collapsed(s) = G[Len(s)]
<1> DEFINE Good(h) == h = [t \in SUBSET DOMAIN s |->
                             IF t = {} THEN <<>>
                             ELSE CollapseWord(h[t \ {Max(t)}], s[Max(t)])]
<1>1. PICK F : F = [p \in BitLine \X BitWord |-> CollapseWord(p[1], p[2])]
  OBVIOUS
<1>2. /\ F \in [BitLine \X BitWord -> BitLine]
      /\ \A a \in BitLine : \A b \in BitWord : F[a, b] = CollapseWord(a, b)
  <2>1. \A p \in BitLine \X BitWord : p[1] \in BitLine /\ p[2] \in BitWord
    OBVIOUS
  <2>2. \A p \in BitLine \X BitWord : CollapseWord(p[1], p[2]) \in BitLine
    BY <2>1, CollapsedTyped
  <2> QED
    BY <1>1, <2>2
<1>3. <<>> \in BitLine
  BY DEF BitLine, BitWord
<1>4. PICK g \in [SUBSET DOMAIN s -> BitLine] : FoldTable(g, F, <<>>, s)
  BY <1>2, <1>3, FoldTableExists
<1>5. ASSUME NEW t \in SUBSET DOMAIN s, t # {}
      PROVE  Max(t) \in DOMAIN s /\ t \ {Max(t)} \in SUBSET DOMAIN s /\ s[Max(t)] \in BitWord
  <2>1. Len(s) \in Nat /\ DOMAIN s = 1..Len(s)
    BY LenProperties
  <2>2. Max(t) \in t
    BY <1>5, <2>1, MaxIn
  <2> QED
    BY <2>1, <2>2, ElementOfSeq
<1>6. Good(g)
  <2>1. \A t \in SUBSET DOMAIN s :
          g[t] = IF t = {} THEN <<>> ELSE CollapseWord(g[t \ {Max(t)}], s[Max(t)])
    <3> SUFFICES ASSUME NEW t \in SUBSET DOMAIN s
                 PROVE  g[t] = IF t = {} THEN <<>>
                               ELSE CollapseWord(g[t \ {Max(t)}], s[Max(t)])
      OBVIOUS
    <3>1. CASE t = {}
      BY <1>4, <3>1 DEF FoldTable
    <3>2. CASE t # {}
      <4>1. g[t] = F[g[t \ {Max(t)}], s[Max(t)]]
        BY <1>4, <3>2 DEF FoldTable
      <4>2. g[t \ {Max(t)}] \in BitLine /\ s[Max(t)] \in BitWord
        BY <1>5, <3>2
      <4> QED
        BY <1>2, <3>2, <4>1, <4>2
    <3> QED
      BY <3>1, <3>2
  <2> QED
    BY <2>1, Zenon
<1>7. PICK h : h = CHOOSE f : Good(f)
  OBVIOUS
<1>8. Good(h)
  <2> HIDE DEF Good
  <2> QED
    BY <1>6, <1>7, Zenon
<1>9. Collapsed(s) = h[DOMAIN s]
  BY <1>7 DEF Collapsed, CollapseWord, FoldLeft, MapThenFoldSet
<1>10. FilledBy(h, BitLine, F, <<>>, s)
  <2>1. h[{}] = <<>>
    BY <1>8
  <2>2. ASSUME NEW t \in SUBSET DOMAIN s, t # {}, h[t \ {Max(t)}] \in BitLine
        PROVE  h[t] = F[h[t \ {Max(t)}], s[Max(t)]]
    <3>1. h[t] = CollapseWord(h[t \ {Max(t)}], s[Max(t)])
      BY <1>8, <2>2
    <3> HIDE DEF Good
    <3> QED
      BY <1>2, <1>5, <2>2, <3>1
  <2> QED
    BY <2>1, <2>2 DEF FilledBy
<1> HIDE DEF Good
<1>11. PICK G \in [0..Len(s) -> BitLine] : Fold(G, F, <<>>, s) /\ h[DOMAIN s] = G[Len(s)]
  <2>1. F \in [BitLine \X BitWord -> BitLine]
    BY <1>2
  <2>2. Folded(h, BitLine, F, <<>>, s)
    BY <1>3, <1>10, <2>1, FoldOfTable
  <2> QED
    BY <2>2 DEF Folded
<1>12. ASSUME NEW k \in 1..Len(s) PROVE G[k] = CollapseWord(G[k - 1], s[k])
  <2>1. k - 1 \in 0..Len(s)
    BY LenProperties
  <2>2. G[k - 1] \in BitLine /\ s[k] \in BitWord
    BY <2>1, ElementOfSeq
  <2>3. G[k] = F[G[k - 1], s[k]]
    BY <1>11 DEF Fold
  <2> QED
    BY <1>2, <2>2, <2>3
<1>13. G[0] = <<>>
  BY <1>11 DEF Fold
<1> QED
  BY <1>9, <1>11, <1>12, <1>13

\* So does Glued().
LEMMA GluedIsFold ==
  ASSUME NEW s \in Seq(BitWord)
  PROVE  \E G \in [0..Len(s) -> BitLine] :
           /\ G[0] = <<>>
           /\ \A k \in 1..Len(s) : G[k] = GlueWord(G[k - 1], s[k])
           /\ Glued(s) = G[Len(s)]
<1> DEFINE Good(h) == h = [t \in SUBSET DOMAIN s |->
                             IF t = {} THEN <<>>
                             ELSE GlueWord(h[t \ {Max(t)}], s[Max(t)])]
<1>1. PICK F : F = [p \in BitLine \X BitWord |-> GlueWord(p[1], p[2])]
  OBVIOUS
<1>2. /\ F \in [BitLine \X BitWord -> BitLine]
      /\ \A a \in BitLine : \A b \in BitWord : F[a, b] = GlueWord(a, b)
  <2>1. \A p \in BitLine \X BitWord : p[1] \in BitLine /\ p[2] \in BitWord
    OBVIOUS
  <2>2. \A p \in BitLine \X BitWord : GlueWord(p[1], p[2]) \in BitLine
    BY <2>1, GluedTyped
  <2> QED
    BY <1>1, <2>2
<1>3. <<>> \in BitLine
  BY DEF BitLine, BitWord
<1>4. PICK g \in [SUBSET DOMAIN s -> BitLine] : FoldTable(g, F, <<>>, s)
  BY <1>2, <1>3, FoldTableExists
<1>5. ASSUME NEW t \in SUBSET DOMAIN s, t # {}
      PROVE  Max(t) \in DOMAIN s /\ t \ {Max(t)} \in SUBSET DOMAIN s /\ s[Max(t)] \in BitWord
  <2>1. Len(s) \in Nat /\ DOMAIN s = 1..Len(s)
    BY LenProperties
  <2>2. Max(t) \in t
    BY <1>5, <2>1, MaxIn
  <2> QED
    BY <2>1, <2>2, ElementOfSeq
<1>6. Good(g)
  <2>1. \A t \in SUBSET DOMAIN s :
          g[t] = IF t = {} THEN <<>> ELSE GlueWord(g[t \ {Max(t)}], s[Max(t)])
    <3> SUFFICES ASSUME NEW t \in SUBSET DOMAIN s
                 PROVE  g[t] = IF t = {} THEN <<>>
                               ELSE GlueWord(g[t \ {Max(t)}], s[Max(t)])
      OBVIOUS
    <3>1. CASE t = {}
      BY <1>4, <3>1 DEF FoldTable
    <3>2. CASE t # {}
      <4>1. g[t] = F[g[t \ {Max(t)}], s[Max(t)]]
        BY <1>4, <3>2 DEF FoldTable
      <4>2. g[t \ {Max(t)}] \in BitLine /\ s[Max(t)] \in BitWord
        BY <1>5, <3>2
      <4> QED
        BY <1>2, <3>2, <4>1, <4>2
    <3> QED
      BY <3>1, <3>2
  <2> QED
    BY <2>1, Zenon
<1>7. PICK h : h = CHOOSE f : Good(f)
  OBVIOUS
<1>8. Good(h)
  <2> HIDE DEF Good
  <2> QED
    BY <1>6, <1>7, Zenon
<1>9. Glued(s) = h[DOMAIN s]
  BY <1>7 DEF Glued, GlueWord, FoldLeft, MapThenFoldSet
<1>10. FilledBy(h, BitLine, F, <<>>, s)
  <2>1. h[{}] = <<>>
    BY <1>8
  <2>2. ASSUME NEW t \in SUBSET DOMAIN s, t # {}, h[t \ {Max(t)}] \in BitLine
        PROVE  h[t] = F[h[t \ {Max(t)}], s[Max(t)]]
    <3>1. h[t] = GlueWord(h[t \ {Max(t)}], s[Max(t)])
      BY <1>8, <2>2
    <3> HIDE DEF Good
    <3> QED
      BY <1>2, <1>5, <2>2, <3>1
  <2> QED
    BY <2>1, <2>2 DEF FilledBy
<1> HIDE DEF Good
<1>11. PICK G \in [0..Len(s) -> BitLine] : Fold(G, F, <<>>, s) /\ h[DOMAIN s] = G[Len(s)]
  <2>1. F \in [BitLine \X BitWord -> BitLine]
    BY <1>2
  <2>2. Folded(h, BitLine, F, <<>>, s)
    BY <1>3, <1>10, <2>1, FoldOfTable
  <2> QED
    BY <2>2 DEF Folded
<1>12. ASSUME NEW k \in 1..Len(s) PROVE G[k] = GlueWord(G[k - 1], s[k])
  <2>1. k - 1 \in 0..Len(s)
    BY LenProperties
  <2>2. G[k - 1] \in BitLine /\ s[k] \in BitWord
    BY <2>1, ElementOfSeq
  <2>3. G[k] = F[G[k - 1], s[k]]
    BY <1>11 DEF Fold
  <2> QED
    BY <1>2, <2>2, <2>3
<1>13. G[0] = <<>>
  BY <1>11 DEF Fold
<1> QED
  BY <1>9, <1>11, <1>12, <1>13

\* And PulledUp().
LEMMA PulledIsFold ==
  ASSUME NEW s \in Seq(BitWord)
  PROVE  \E G \in [0..Len(s) -> BitLine] :
           /\ G[0] = <<>>
           /\ \A k \in 1..Len(s) : G[k] = PullWord(G[k - 1], s[k])
           /\ PulledUp(s) = G[Len(s)]
<1> DEFINE Good(h) == h = [t \in SUBSET DOMAIN s |->
                             IF t = {} THEN <<>>
                             ELSE PullWord(h[t \ {Max(t)}], s[Max(t)])]
<1>1. PICK F : F = [p \in BitLine \X BitWord |-> PullWord(p[1], p[2])]
  OBVIOUS
<1>2. /\ F \in [BitLine \X BitWord -> BitLine]
      /\ \A a \in BitLine : \A b \in BitWord : F[a, b] = PullWord(a, b)
  <2>1. \A p \in BitLine \X BitWord : p[1] \in BitLine /\ p[2] \in BitWord
    OBVIOUS
  <2>2. \A p \in BitLine \X BitWord : PullWord(p[1], p[2]) \in BitLine
    BY <2>1, PulledTyped
  <2> QED
    BY <1>1, <2>2
<1>3. <<>> \in BitLine
  BY DEF BitLine, BitWord
<1>4. PICK g \in [SUBSET DOMAIN s -> BitLine] : FoldTable(g, F, <<>>, s)
  BY <1>2, <1>3, FoldTableExists
<1>5. ASSUME NEW t \in SUBSET DOMAIN s, t # {}
      PROVE  Max(t) \in DOMAIN s /\ t \ {Max(t)} \in SUBSET DOMAIN s /\ s[Max(t)] \in BitWord
  <2>1. Len(s) \in Nat /\ DOMAIN s = 1..Len(s)
    BY LenProperties
  <2>2. Max(t) \in t
    BY <1>5, <2>1, MaxIn
  <2> QED
    BY <2>1, <2>2, ElementOfSeq
<1>6. Good(g)
  <2>1. \A t \in SUBSET DOMAIN s :
          g[t] = IF t = {} THEN <<>> ELSE PullWord(g[t \ {Max(t)}], s[Max(t)])
    <3> SUFFICES ASSUME NEW t \in SUBSET DOMAIN s
                 PROVE  g[t] = IF t = {} THEN <<>>
                               ELSE PullWord(g[t \ {Max(t)}], s[Max(t)])
      OBVIOUS
    <3>1. CASE t = {}
      BY <1>4, <3>1 DEF FoldTable
    <3>2. CASE t # {}
      <4>1. g[t] = F[g[t \ {Max(t)}], s[Max(t)]]
        BY <1>4, <3>2 DEF FoldTable
      <4>2. g[t \ {Max(t)}] \in BitLine /\ s[Max(t)] \in BitWord
        BY <1>5, <3>2
      <4> QED
        BY <1>2, <3>2, <4>1, <4>2
    <3> QED
      BY <3>1, <3>2
  <2> QED
    BY <2>1, Zenon
<1>7. PICK h : h = CHOOSE f : Good(f)
  OBVIOUS
<1>8. Good(h)
  <2> HIDE DEF Good
  <2> QED
    BY <1>6, <1>7, Zenon
<1>9. PulledUp(s) = h[DOMAIN s]
  BY <1>7 DEF PulledUp, PullWord, FoldLeft, MapThenFoldSet
<1>10. FilledBy(h, BitLine, F, <<>>, s)
  <2>1. h[{}] = <<>>
    BY <1>8
  <2>2. ASSUME NEW t \in SUBSET DOMAIN s, t # {}, h[t \ {Max(t)}] \in BitLine
        PROVE  h[t] = F[h[t \ {Max(t)}], s[Max(t)]]
    <3>1. h[t] = PullWord(h[t \ {Max(t)}], s[Max(t)])
      BY <1>8, <2>2
    <3> HIDE DEF Good
    <3> QED
      BY <1>2, <1>5, <2>2, <3>1
  <2> QED
    BY <2>1, <2>2 DEF FilledBy
<1> HIDE DEF Good
<1>11. PICK G \in [0..Len(s) -> BitLine] : Fold(G, F, <<>>, s) /\ h[DOMAIN s] = G[Len(s)]
  <2>1. F \in [BitLine \X BitWord -> BitLine]
    BY <1>2
  <2>2. Folded(h, BitLine, F, <<>>, s)
    BY <1>3, <1>10, <2>1, FoldOfTable
  <2> QED
    BY <2>2 DEF Folded
<1>12. ASSUME NEW k \in 1..Len(s) PROVE G[k] = PullWord(G[k - 1], s[k])
  <2>1. k - 1 \in 0..Len(s)
    BY LenProperties
  <2>2. G[k - 1] \in BitLine /\ s[k] \in BitWord
    BY <2>1, ElementOfSeq
  <2>3. G[k] = F[G[k - 1], s[k]]
    BY <1>11 DEF Fold
  <2> QED
    BY <1>2, <2>2, <2>3
<1>13. G[0] = <<>>
  BY <1>11 DEF Fold
<1> QED
  BY <1>9, <1>11, <1>12, <1>13

\* A pass over the words that takes nothing protected out of any of them.
LEMMA PassKeeps ==
  ASSUME NEW s \in BitLine, NEW G \in [0..Len(s) -> BitLine], G[0] = <<>>,
         \A k \in 1..Len(s) : Protected(G[k]) = Protected(G[k - 1]) \o Sheltered(s[k])
  PROVE  Protected(G[Len(s)]) = Protected(s)
<1>1. s \in Seq(BitWord)
  BY DEF BitLine
<1>2. PICK n : n = Len(s)
  OBVIOUS
<1>3. n \in Nat
  BY <1>1, <1>2, LenProperties
<1> DEFINE P == {k \in 0..n : Protected(G[k]) = Protected(SubSeq(s, 1, k))}
<1>4. 0 \in P
  <2>1. SubSeq(s, 1, 0) = <<>>
    BY SubSeqEmpty
  <2>2. Protected(G[0]) = Protected(SubSeq(s, 1, 0))
    BY <2>1
  <2>3. 0 \in 0..n
    BY <1>3
  <2> QED
    BY <2>2, <2>3
<1>5. ASSUME NEW k \in 1..n, k - 1 \in P PROVE k \in P
  <2>1. Protected(G[k]) = Protected(G[k - 1]) \o Sheltered(s[k])
    BY <1>2
  <2>2. /\ SubSeq(s, 1, k - 1) \in BitLine /\ s[k] \in BitWord
        /\ SubSeq(s, 1, k) = Append(SubSeq(s, 1, k - 1), s[k])
    BY <1>1, <1>2, PrefixGrows DEF BitLine
  <2>3. Protected(SubSeq(s, 1, k)) = Protected(SubSeq(s, 1, k - 1)) \o Sheltered(s[k])
    BY <2>2, ProtectedParts
  <2>4. Protected(G[k - 1]) = Protected(SubSeq(s, 1, k - 1))
    BY <1>5
  <2>5. k \in 0..n
    BY <1>3
  <2> QED
    BY <2>1, <2>3, <2>4, <2>5
<1>6. n \in 0..n
  BY <1>3
<1>7. n \in P
  <2> HIDE DEF P
  <2> QED
    BY <1>3, <1>4, <1>5, <1>6, UpTo
<1>8. SubSeq(s, 1, n) = s
  BY <1>1, <1>2, SubSeqFull
<1> QED
  BY <1>2, <1>7, <1>8

\* Collapsed() takes nothing protected out of a line,
LEMMA CollapsedKeeps ==
  ASSUME NEW s \in BitLine
  PROVE  Collapsed(s) \in BitLine /\ Protected(Collapsed(s)) = Protected(s)
<1>1. s \in Seq(BitWord)
  BY DEF BitLine
<1>2. PICK G \in [0..Len(s) -> BitLine] :
        /\ G[0] = <<>>
        /\ \A k \in 1..Len(s) : G[k] = CollapseWord(G[k - 1], s[k])
        /\ Collapsed(s) = G[Len(s)]
  BY <1>1, CollapsedIsFold
<1>3. Len(s) \in Nat /\ Len(s) \in 0..Len(s)
  BY <1>1, LenProperties
<1>4. ASSUME NEW k \in 1..Len(s)
      PROVE  Protected(G[k]) = Protected(G[k - 1]) \o Sheltered(s[k])
  <2>1. k - 1 \in 0..Len(s) /\ s[k] \in BitWord
    BY <1>1, <1>3, ElementOfSeq
  <2>2. G[k - 1] \in BitLine
    BY <2>1
  <2> QED
    BY <1>2, <2>1, <2>2, CollapsedTyped
<1>5. Protected(G[Len(s)]) = Protected(s)
  BY <1>2, <1>4, PassKeeps
<1> QED
  BY <1>2, <1>3, <1>5

\* and neither does Glued(),
LEMMA GluedKeeps ==
  ASSUME NEW s \in BitLine
  PROVE  Glued(s) \in BitLine /\ Protected(Glued(s)) = Protected(s)
<1>1. s \in Seq(BitWord)
  BY DEF BitLine
<1>2. PICK G \in [0..Len(s) -> BitLine] :
        /\ G[0] = <<>>
        /\ \A k \in 1..Len(s) : G[k] = GlueWord(G[k - 1], s[k])
        /\ Glued(s) = G[Len(s)]
  BY <1>1, GluedIsFold
<1>3. Len(s) \in Nat /\ Len(s) \in 0..Len(s)
  BY <1>1, LenProperties
<1>4. ASSUME NEW k \in 1..Len(s)
      PROVE  Protected(G[k]) = Protected(G[k - 1]) \o Sheltered(s[k])
  <2>1. k - 1 \in 0..Len(s) /\ s[k] \in BitWord
    BY <1>1, <1>3, ElementOfSeq
  <2>2. G[k - 1] \in BitLine
    BY <2>1
  <2> QED
    BY <1>2, <2>1, <2>2, GluedTyped
<1>5. Protected(G[Len(s)]) = Protected(s)
  BY <1>2, <1>4, PassKeeps
<1> QED
  BY <1>2, <1>3, <1>5

\* nor PulledUp().
LEMMA PulledKeeps ==
  ASSUME NEW s \in BitLine
  PROVE  PulledUp(s) \in BitLine /\ Protected(PulledUp(s)) = Protected(s)
<1>1. s \in Seq(BitWord)
  BY DEF BitLine
<1>2. PICK G \in [0..Len(s) -> BitLine] :
        /\ G[0] = <<>>
        /\ \A k \in 1..Len(s) : G[k] = PullWord(G[k - 1], s[k])
        /\ PulledUp(s) = G[Len(s)]
  BY <1>1, PulledIsFold
<1>3. Len(s) \in Nat /\ Len(s) \in 0..Len(s)
  BY <1>1, LenProperties
<1>4. ASSUME NEW k \in 1..Len(s)
      PROVE  Protected(G[k]) = Protected(G[k - 1]) \o Sheltered(s[k])
  <2>1. k - 1 \in 0..Len(s) /\ s[k] \in BitWord
    BY <1>1, <1>3, ElementOfSeq
  <2>2. G[k - 1] \in BitLine
    BY <2>1
  <2> QED
    BY <1>2, <2>1, <2>2, PulledTyped
<1>5. Protected(G[Len(s)]) = Protected(s)
  BY <1>2, <1>4, PassKeeps
<1> QED
  BY <1>2, <1>3, <1>5

\* A line made word by word, each with what it shelters, keeps what is protected.
LEMMA WordsKeep ==
  ASSUME NEW s \in BitLine, NEW t, DOMAIN t = DOMAIN s,
         \A i \in DOMAIN s : t[i] \in BitWord /\ Sheltered(t[i]) = Sheltered(s[i]),
         t = [i \in DOMAIN t |-> t[i]]
  PROVE  t \in BitLine /\ Protected(t) = Protected(s)
<1>1. s \in Seq(BitWord)
  BY DEF BitLine
<1>2. PICK n : n = Len(s)
  OBVIOUS
<1>3. n \in Nat /\ DOMAIN s = 1..n
  BY <1>1, <1>2, LenProperties
<1>4. t \in [1..n -> BitWord]
  BY <1>3
<1>5. t \in Seq(BitWord)
  BY <1>3, <1>4, SeqDef
<1>6. [i \in DOMAIN t |-> Sheltered(t[i])] = [i \in DOMAIN s |-> Sheltered(s[i])]
  OBVIOUS
<1> QED
  BY <1>5, <1>6 DEF BitLine, Protected

\* Pleasantries are terms.
LEMMA PoliteKeeps ==
  ASSUME NEW w \in BitWord
  PROVE  Polite(w) \in BitWord /\ Sheltered(Polite(w)) = Sheltered(w)
<1>1. w \in Seq(Bit) /\ \A i \in DOMAIN w : w[i] \in Bit
  BY LenProperties, ElementOfSeq DEF BitWord
<1>2. PICK F : F = [p \in Bit |-> IF Pleasant(p) THEN <<>> ELSE <<p>>]
  OBVIOUS
<1>3. F \in [Bit -> Seq(Bit)]
  <2>1. \A p \in Bit :
          (IF Pleasant(p) THEN <<>> ELSE <<p>>) \in Seq(Bit)
    OBVIOUS
  <2> QED
    BY <1>2, <2>1
<1>4. Polite(w) = Spread(w, F)
  <2>1. [j \in DOMAIN w |->
           IF Pleasant(w[j]) THEN <<>> ELSE <<w[j]>>]
          = [j \in DOMAIN w |-> F[w[j]]]
    BY <1>1, <1>2
  <2> QED
    BY <2>1 DEF Polite, Spread
<1>5. Spread(w, F) \in Seq(Bit)
  BY <1>1, <1>3, SpreadTyped
<1>6. Keep \in [Bit -> Seq(Bit)]
  BY KeepTyped DEF BitWord
<1>7. ASSUME NEW p \in Bit PROVE Keep[p] = Spread(F[p], Keep)
  <2>1. CASE Pleasant(p)
    <3>1. Loose(p)
      BY <2>1, NamedAreLoose DEF Pleasant
    <3>2. F[p] = <<>> /\ Keep[p] = <<>>
      BY <1>2, <2>1, <3>1 DEF Keep
    <3> QED
      BY <3>2, SpreadEmpty
  <2>2. CASE ~Pleasant(p)
    <3>1. F[p] = <<p>>
      BY <1>2, <2>2
    <3>2. Spread(<<p>>, Keep) = Keep[p]
      BY <1>6, SpreadOne
    <3> QED
      BY <3>1, <3>2
  <2> QED
    BY <2>1, <2>2
<1>8. Spread(Spread(w, F), Keep) = Spread(w, Keep)
  <2>1. Composes(Keep, F, Keep, Bit, Bit, Bit)
    BY <1>3, <1>6, <1>7 DEF Composes
  <2> QED
    BY <1>1, <2>1, SpreadOfSpread
<1> QED
  BY <1>4, <1>5, <1>8, ShelteredIs DEF BitWord

\* A line loses nothing protected with its pleasantries.
LEMMA WithoutPleasantriesKeeps ==
  ASSUME NEW s \in BitLine
  PROVE  /\ WithoutPleasantries(s) \in BitLine
         /\ Protected(WithoutPleasantries(s)) = Protected(s)
<1>1. PICK l : l = PulledUp(s)
  OBVIOUS
<1>2. l \in BitLine /\ Protected(l) = Protected(s)
  BY <1>1, PulledKeeps
<1>3. \A i \in DOMAIN l : l[i] \in BitWord
  BY <1>2, LenProperties, ElementOfSeq DEF BitLine
<1>4. PICK t : t = WithoutPleasantries(s)
  OBVIOUS
<1>5. /\ DOMAIN t = DOMAIN l /\ t = [i \in DOMAIN t |-> t[i]]
      /\ \A i \in DOMAIN l : t[i] = Polite(l[i])
  <2>1. t = [i \in DOMAIN l |-> Polite(l[i])]
    BY <1>1, <1>4 DEF WithoutPleasantries
  <2> QED
    BY <2>1
<1>6. \A i \in DOMAIN l : t[i] \in BitWord /\ Sheltered(t[i]) = Sheltered(l[i])
  BY <1>3, <1>5, PoliteKeeps
<1>7. t \in BitLine /\ Protected(t) = Protected(l)
  BY <1>2, <1>5, <1>6, WordsKeep
<1> QED
  BY <1>2, <1>4, <1>7

\* What is dropped is one term with its marks or nothing, and so is what is
\* abbreviated.
LEMMA DroppedShelters ==
  ASSUME NEW w \in BitWord, NEW level
  PROVE  /\ Dropped(w, level) => Sheltered(w) = <<>>
         /\ Abbreviate(w, level) \in BitWord
         /\ Sheltered(Abbreviate(w, level)) = Sheltered(w)
<1>1. Dropped(w, level) => Sheltered(w) = <<>>
  BY ShelteredParts, NamedAreLoose, TermsAreNotKept DEF Dropped
<1>2. CASE level \in {"aggressive", "ultra"} /\ IsTerm(w, Abbreviated)
  <2>1. /\ Sheltered(w) = <<>>
        /\ \A i \in DOMAIN w : Loose(w[i]) /\ w[i] \in Bit
        /\ \A i \in Core(w) : i \in DOMAIN w /\ w[i].of \in Terms
    BY <1>2, NamedAreLoose, TermsAreNotKept
  <2>2. PICK a : a = Abbreviate(w, level)
    OBVIOUS
  <2>3. a = [i \in DOMAIN w |-> IF i \in Core(w) THEN Short(w[i].of) ELSE w[i]]
    BY <1>2, <2>2 DEF Abbreviate
  <2>4. \A i \in DOMAIN w : a[i] \in Bit /\ Loose(a[i])
    <3> SUFFICES ASSUME NEW i \in DOMAIN w PROVE a[i] \in Bit /\ Loose(a[i])
      OBVIOUS
    <3>1. CASE i \in Core(w)
      <4>1. w[i].of \in Terms /\ a[i] = Short(w[i].of)
        BY <2>1, <2>3, <3>1
      <4>2. a[i] \in Bit
        BY <4>1, MadeBits
      <4>3. a[i].kind = "short"
        BY <4>1 DEF Short
      <4> QED
        BY <4>2, <4>3 DEF Loose
    <3>2. CASE i \notin Core(w)
      BY <2>1, <2>3, <3>2
    <3> QED
      BY <3>1, <3>2
  <2>5. a \in BitWord
    <3>1. Len(w) \in Nat /\ DOMAIN w = 1..Len(w)
      BY LenProperties DEF BitWord
    <3>2. a \in [1..Len(w) -> Bit]
      BY <2>3, <2>4, <3>1
    <3> QED
      BY <3>1, <3>2, SeqDef DEF BitWord
  <2>6. Sheltered(a) = <<>>
    <3>1. DOMAIN a = DOMAIN w
      BY <2>3
    <3> QED
      BY <2>4, <2>5, <3>1, LooseWord
  <2> QED
    BY <1>1, <2>1, <2>2, <2>5, <2>6
<1>3. CASE ~(level \in {"aggressive", "ultra"} /\ IsTerm(w, Abbreviated))
  <2>1. Abbreviate(w, level) = w
    BY <1>3 DEF Abbreviate
  <2> QED
    BY <1>1, <2>1
<1> QED
  BY <1>2, <1>3

\* Nothing protected is dropped or abbreviated.
LEMMA KeptKeeps ==
  ASSUME NEW s \in BitLine, NEW level
  PROVE  LET kept == [i \in DOMAIN s |->
                        IF Dropped(s[i], level) THEN <<>> ELSE <<Abbreviate(s[i], level)>>]
         IN FlattenSeq(kept) \in BitLine /\ Protected(FlattenSeq(kept)) = Protected(s)
<1>1. s \in Seq(BitWord) /\ \A i \in DOMAIN s : s[i] \in BitWord
  BY LenProperties, ElementOfSeq DEF BitLine
<1>2. PICK F : F = [w \in BitWord |->
                      IF Dropped(w, level) THEN <<>> ELSE <<Abbreviate(w, level)>>]
  OBVIOUS
<1>3. F \in [BitWord -> Seq(BitWord)]
  <2>1. \A w \in BitWord :
          (IF Dropped(w, level) THEN <<>> ELSE <<Abbreviate(w, level)>>) \in Seq(BitWord)
    BY DroppedShelters
  <2> QED
    BY <1>2, <2>1
<1>4. [i \in DOMAIN s |-> IF Dropped(s[i], level) THEN <<>> ELSE <<Abbreviate(s[i], level)>>]
        = [i \in DOMAIN s |-> F[s[i]]]
  BY <1>1, <1>2
<1>5. Spread(s, F) \in Seq(BitWord)
  BY <1>1, <1>3, SpreadTyped
<1>6. KeepWord \in [BitWord -> Seq(Bit)]
  BY KeepWordTyped DEF BitWord
<1>7. ASSUME NEW w \in BitWord PROVE KeepWord[w] = Spread(F[w], KeepWord)
  <2>1. CASE Dropped(w, level)
    <3>1. F[w] = <<>> /\ KeepWord[w] = <<>>
      BY <1>2, <2>1, DroppedShelters DEF KeepWord
    <3> QED
      BY <3>1, SpreadEmpty
  <2>2. CASE ~Dropped(w, level)
    <3>1. PICK a : a = Abbreviate(w, level)
      OBVIOUS
    <3>2. a \in BitWord /\ KeepWord[a] = KeepWord[w]
      BY <3>1, DroppedShelters DEF KeepWord
    <3>3. F[w] = <<a>>
      BY <1>2, <2>2, <3>1
    <3>4. Spread(<<a>>, KeepWord) = KeepWord[a]
      BY <1>6, <3>2, SpreadOne
    <3> QED
      BY <3>2, <3>3, <3>4
  <2> QED
    BY <2>1, <2>2
<1>8. Spread(Spread(s, F), KeepWord) = Spread(s, KeepWord)
  <2>1. Composes(KeepWord, F, KeepWord, BitWord, BitWord, Bit)
    BY <1>3, <1>6, <1>7 DEF Composes
  <2> QED
    BY <1>1, <2>1, SpreadOfSpread
<1>9. FlattenSeq([i \in DOMAIN s |->
         IF Dropped(s[i], level) THEN <<>> ELSE <<Abbreviate(s[i], level)>>]) = Spread(s, F)
  BY <1>4 DEF Spread
<1>10. Spread(s, F) \in BitLine
  BY <1>5 DEF BitLine
<1>11. Protected(Spread(s, F)) = Protected(s)
  BY <1>8, <1>10, ProtectedIs
<1> QED
  BY <1>9, <1>10, <1>11

\* Caveman changes nothing that is protected,
LEMMA CavemanKeeps ==
  ASSUME NEW s \in BitLine, NEW level
  PROVE  CavemanWords(s, level) \in BitLine /\ Protected(CavemanWords(s, level)) = Protected(s)
<1>1. PICK t : t = IF level = "lite" THEN s ELSE Collapsed(WithoutPleasantries(s))
  OBVIOUS
<1>2. t \in BitLine /\ Protected(t) = Protected(s)
  BY <1>1, WithoutPleasantriesKeeps, CollapsedKeeps
<1>3. PICK kept : kept = [i \in DOMAIN t |->
                            IF Dropped(t[i], level) THEN <<>> ELSE <<Abbreviate(t[i], level)>>]
  OBVIOUS
<1>4. FlattenSeq(kept) \in BitLine /\ Protected(FlattenSeq(kept)) = Protected(t)
  BY <1>2, <1>3, KeptKeeps
<1>5. CavemanWords(s, level) = Glued(FlattenSeq(kept))
  BY <1>1, <1>3 DEF CavemanWords
<1> QED
  BY <1>2, <1>4, <1>5, GluedKeeps

\* RTK replaces terms of its dictionary only.
LEMMA RtkKeeps ==
  ASSUME NEW s \in BitLine, NEW level \in RtkLevels
  PROVE  RtkWords(s, level) \in BitLine /\ Protected(RtkWords(s, level)) = Protected(s)
<1>1. \A i \in DOMAIN s : s[i] \in BitWord
  BY LenProperties, ElementOfSeq DEF BitLine
<1> DEFINE New(p) == IF p.kind = "term" /\ p.of \in Dictionary[level] THEN Short(p.of) ELSE p
<1>2. PICK F : F = [p \in Bit |-> New(p)]
  OBVIOUS
<1>3. \A p \in Bit : New(p) \in Bit
  BY BitParts, MadeBits
<1>4. F \in [Bit -> Bit]
  BY <1>2, <1>3
<1>5. ASSUME NEW w \in BitWord
      PROVE  /\ [j \in DOMAIN w |-> New(w[j])] \in BitWord
             /\ Sheltered([j \in DOMAIN w |-> New(w[j])]) = Sheltered(w)
  <2>1. w \in Seq(Bit) /\ \A j \in DOMAIN w : w[j] \in Bit
    BY LenProperties, ElementOfSeq DEF BitWord
  <2>2. [j \in DOMAIN w |-> New(w[j])] = [j \in DOMAIN w |-> F[w[j]]]
    BY <1>2, <2>1
  <2>3. [j \in DOMAIN w |-> F[w[j]]] \in Seq(Bit)
    BY <1>4, <2>1, MappedTyped
  <2>4. \A p \in Bit : Keep[p] = Keep[F[p]]
    <3> SUFFICES ASSUME NEW p \in Bit PROVE Keep[p] = Keep[F[p]]
      OBVIOUS
    <3>1. CASE p.kind = "term" /\ p.of \in Dictionary[level]
      <4>1. F[p] = Short(p.of) /\ F[p] \in Bit
        BY <1>2, <1>4, <3>1
      <4>2. F[p].kind = "short"
        BY <4>1 DEF Short
      <4>3. Loose(p)
        BY <3>1, NamedAreLoose
      <4>4. Loose(F[p])
        BY <4>2 DEF Loose
      <4> QED
        BY <4>1, <4>3, <4>4 DEF Keep
    <3>2. CASE ~(p.kind = "term" /\ p.of \in Dictionary[level])
      BY <1>2, <3>2
    <3> QED
      BY <3>1, <3>2
  <2>5. Spread([j \in DOMAIN w |-> F[w[j]]], Keep) = Spread(w, Keep)
    <3>1. OneByOne(Keep, F, Keep, Bit)
      BY <2>4 DEF OneByOne
    <3> QED
      BY <2>1, <3>1, SpreadOfMapped
  <2> QED
    BY <2>2, <2>3, <2>5, ShelteredIs DEF BitWord
<1>6. PICK t : t = RtkWords(s, level)
  OBVIOUS
<1>7. t = [i \in DOMAIN s |-> [j \in DOMAIN s[i] |-> New(s[i][j])]]
  BY <1>6 DEF RtkWords
<1> HIDE DEF New
<1>8. /\ DOMAIN t = DOMAIN s /\ t = [i \in DOMAIN t |-> t[i]]
      /\ \A i \in DOMAIN s : t[i] = [j \in DOMAIN s[i] |-> New(s[i][j])]
  BY <1>7
<1>9. \A i \in DOMAIN s : t[i] \in BitWord /\ Sheltered(t[i]) = Sheltered(s[i])
  <2> SUFFICES ASSUME NEW i \in DOMAIN s
               PROVE  t[i] \in BitWord /\ Sheltered(t[i]) = Sheltered(s[i])
    OBVIOUS
  <2>1. PICK w : w = s[i]
    OBVIOUS
  <2>2. w \in BitWord
    BY <1>1, <2>1
  <2> QED
    BY <1>5, <1>8, <2>1, <2>2
<1> QED
  BY <1>6, <1>8, <1>9, WordsKeep

\* Whichever engine, it loses, changes and swaps nothing that is protected, and
\* adds nothing to it.
LEMMA EnginesKeep ==
  ASSUME NEW s \in BitLine, NEW engine, NEW level, engine # "caveman" => level \in RtkLevels
  PROVE  /\ EngineWords(s, engine, level) \in BitLine
         /\ Protected(EngineWords(s, engine, level)) = Protected(s)
<1>1. CASE engine = "caveman"
  BY <1>1, CavemanKeeps DEF EngineWords
<1>2. CASE engine # "caveman"
  BY <1>2, RtkKeeps DEF EngineWords
<1> QED
  BY <1>1, <1>2

\* A piece an engine must not touch is found in what is protected when it is in the line.
LEMMA ProtectedElements ==
  ASSUME NEW line \in BitLine, NEW y \in Bit, ~Loose(y)
  PROVE  Has(Protected(line), y) <=> \E j \in 1..Len(line) : Has(line[j], y)
<1>1. line \in Seq(BitWord)
  BY DEF BitLine
<1>2. \A j \in 1..Len(line) : line[j] \in BitWord
  BY <1>1, ElementOfSeq
<1>3. Keep \in [Bit -> Seq(Bit)] /\ KeepWord \in [BitWord -> Seq(Bit)]
  BY KeepTyped, KeepWordTyped DEF BitWord
<1>4. Has(Protected(line), y) <=> HasOneOf(line, KeepWord, y)
  <2>1. Protected(line) = Spread(line, KeepWord)
    BY ProtectedIs
  <2>2. Has(Spread(line, KeepWord), y) <=> HasOneOf(line, KeepWord, y)
    BY <1>1, <1>3, SpreadElements
  <2> QED
    BY <2>1, <2>2
<1>5. ASSUME NEW p \in Bit
      PROVE  Has(Keep[p], y) <=> p = y
  <2>1. CASE Loose(p)
    <3>1. Keep[p] = <<>> /\ p # y
      BY <2>1 DEF Keep
    <3> QED
      BY <3>1 DEF Has
  <2>2. CASE ~Loose(p)
    <3>1. Keep[p] = <<p>>
      BY <2>2 DEF Keep
    <3>2. Len(<<p>>) = 1 /\ <<p>>[1] = p /\ \A k \in 1..1 : k = 1
      OBVIOUS
    <3> QED
      BY <3>1, <3>2 DEF Has
  <2> QED
    BY <2>1, <2>2
<1>6. ASSUME NEW w \in BitWord
      PROVE  Has(KeepWord[w], y) <=> Has(w, y)
  <2>1. w \in Seq(Bit)
    BY DEF BitWord
  <2>2. KeepWord[w] = Spread(w, Keep)
    BY ShelteredIs DEF KeepWord
  <2>3. Has(Spread(w, Keep), y) <=> HasOneOf(w, Keep, y)
    BY <1>3, <2>1, SpreadElements
  <2>4. \A j \in 1..Len(w) : Has(Keep[w[j]], y) <=> w[j] = y
    <3>1. \A j \in 1..Len(w) : w[j] \in Bit
      BY <2>1, ElementOfSeq
    <3> QED
      BY <1>5, <3>1
  <2>5. HasOneOf(w, Keep, y) <=> \E j \in 1..Len(w) : w[j] = y
    BY <2>4 DEF HasOneOf
  <2> QED
    BY <2>2, <2>3, <2>5 DEF Has
<1>7. \A j \in 1..Len(line) : Has(KeepWord[line[j]], y) <=> Has(line[j], y)
  BY <1>2, <1>6
<1> QED
  BY <1>4, <1>7 DEF HasOneOf

(* _restore() *)

\* The pieces whose number something is stashed under, and what is put in their
\* place.
Findable(list) == {p \in Bit : p.kind = "hole" => p.at < Len(list)}
\* What is put in the place of a piece,
Puts(list) == [p \in Findable(list) |-> IF p.kind = "hole" THEN list[p.at + 1] ELSE <<p>>]
\* and what of it is protected.
PutKeep(list) == [p \in Findable(list) |-> Spread(Puts(list)[p], Keep)]

\* Whatever is found, words are put in its place.
LEMMA PutsTyped ==
  ASSUME NEW list \in Seq(BitWord)
  PROVE  /\ Puts(list) \in [Findable(list) -> Seq(Bit)]
         /\ PutKeep(list) \in [Findable(list) -> Seq(Bit)]
<1>1. ASSUME NEW p \in Findable(list)
      PROVE  (IF p.kind = "hole" THEN list[p.at + 1] ELSE <<p>>) \in Seq(Bit)
  <2>1. p \in Bit
    BY DEF Findable
  <2>2. CASE p.kind = "hole"
    <3>1. Len(list) \in Nat /\ p.at \in Nat /\ p.at < Len(list)
      BY <2>1, <2>2, BitParts, LenProperties DEF Findable
    <3>2. p.at + 1 \in 1..Len(list)
      BY <3>1
    <3>3. list[p.at + 1] \in BitWord
      BY <3>2, ElementOfSeq
    <3> QED
      BY <2>2, <3>3 DEF BitWord
  <2> QED
    BY <2>1, <2>2
<1>2. Puts(list) \in [Findable(list) -> Seq(Bit)]
  BY <1>1 DEF Puts
<1>3. Keep \in [Bit -> Seq(Bit)]
  BY KeepTyped DEF BitWord
<1>4. \A p \in Findable(list) : Spread(Puts(list)[p], Keep) \in Seq(Bit)
  BY <1>2, <1>3, SpreadTyped
<1> QED
  BY <1>2, <1>4 DEF PutKeep

\* RestoredWord() is a spread.
LEMMA RestoredIs ==
  ASSUME NEW list \in Seq(BitWord), NEW w \in Seq(Findable(list))
  PROVE  /\ RestoredWord(w, list) = Spread(w, Puts(list))
         /\ RestoredWord(w, list) \in BitWord
         /\ w \in BitWord
<1>1. \A i \in DOMAIN w : w[i] \in Findable(list)
  BY LenProperties, ElementOfSeq
<1>2. [j \in DOMAIN w |-> IF w[j].kind = "hole" THEN list[w[j].at + 1] ELSE <<w[j]>>]
        = [j \in DOMAIN w |-> Puts(list)[w[j]]]
  BY <1>1 DEF Puts
<1>3. Spread(w, Puts(list)) \in Seq(Bit)
  BY PutsTyped, SpreadTyped
<1>4. w \in Seq(Bit)
  <2>1. Findable(list) \subseteq Bit
    BY DEF Findable
  <2> QED
    BY <2>1, SeqMonotonic
<1> QED
  BY <1>2, <1>3, <1>4 DEF RestoredWord, Spread, BitWord

\* What is protected in a restored word follows from what is in the word.
LEMMA RestoredShelters ==
  ASSUME NEW list \in Seq(BitWord), NEW w \in Seq(Findable(list))
  PROVE  /\ Sheltered(w) \in Seq(Findable(list))
         /\ Sheltered(RestoredWord(w, list)) = Spread(Sheltered(w), PutKeep(list))
<1>1. PICK K : K = [p \in Findable(list) |-> Keep[p]]
  OBVIOUS
<1>2. Findable(list) \subseteq Bit
  BY DEF Findable
<1>3. K \in [Findable(list) -> Seq(Findable(list))]
  <2>1. \A p \in Findable(list) : Keep[p] \in Seq(Findable(list))
    <3> SUFFICES ASSUME NEW p \in Findable(list) PROVE Keep[p] \in Seq(Findable(list))
      OBVIOUS
    <3>1. Keep[p] = IF Loose(p) THEN <<>> ELSE <<p>>
      BY <1>2 DEF Keep
    <3> QED
      BY <3>1
  <2> QED
    BY <1>1, <2>1
<1>4. Sheltered(w) = Spread(w, K)
  <2>1. w \in BitWord
    BY RestoredIs
  <2>2. Sheltered(w) = Spread(w, Keep)
    BY <2>1, ShelteredIs
  <2>3. \A p \in Findable(list) : Keep[p] = K[p]
    BY <1>1
  <2>4. Spread(w, Keep) = Spread(w, K)
    BY <2>3, SpreadEqual
  <2> QED
    BY <2>2, <2>4
<1>5. Sheltered(w) \in Seq(Findable(list))
  <2>1. PICK S : S = Findable(list)
    OBVIOUS
  <2>2. K \in [S -> Seq(S)] /\ w \in Seq(S)
    BY <1>3, <2>1
  <2>3. Spread(w, K) \in Seq(S)
    BY <2>2, SpreadTyped
  <2> QED
    BY <1>4, <2>1, <2>3
<1>6. Puts(list) \in [Findable(list) -> Seq(Bit)] /\ PutKeep(list) \in [Findable(list) -> Seq(Bit)]
  BY PutsTyped
<1>7. Keep \in [Bit -> Seq(Bit)]
  BY KeepTyped DEF BitWord
<1>8. Spread(Spread(w, Puts(list)), Keep) = Spread(w, PutKeep(list))
  <2>1. \A p \in Findable(list) : PutKeep(list)[p] = Spread(Puts(list)[p], Keep)
    BY DEF PutKeep
  <2>2. Composes(PutKeep(list), Puts(list), Keep, Findable(list), Bit, Bit)
    BY <1>6, <1>7, <2>1 DEF Composes
  <2> QED
    BY <2>2, SpreadOfSpread
<1>9. Spread(Spread(w, K), PutKeep(list)) = Spread(w, PutKeep(list))
  <2>1. ASSUME NEW p \in Findable(list) PROVE PutKeep(list)[p] = Spread(K[p], PutKeep(list))
    <3>1. K[p] = IF Loose(p) THEN <<>> ELSE <<p>>
      BY <1>1, <1>2 DEF Keep
    <3>2. CASE Loose(p)
      <4>0. p.kind # "hole"
        BY <3>2 DEF Loose
      <4>1. Puts(list)[p] = <<p>>
        BY <4>0 DEF Puts
      <4>2. PutKeep(list)[p] = Spread(<<p>>, Keep)
        BY <4>1 DEF PutKeep
      <4>3. Spread(<<p>>, Keep) = Keep[p]
        BY <1>2, <1>7, SpreadOne
      <4>4. Keep[p] = <<>>
        BY <1>1, <3>1, <3>2
      <4>5. Spread(<<>>, PutKeep(list)) = <<>>
        BY SpreadEmpty
      <4> QED
        BY <3>1, <3>2, <4>2, <4>3, <4>4, <4>5
    <3>3. CASE ~Loose(p)
      <4>1. Spread(<<p>>, PutKeep(list)) = PutKeep(list)[p]
        BY <1>6, SpreadOne
      <4> QED
        BY <3>1, <3>3, <4>1
    <3> QED
      BY <3>2, <3>3
  <2>2. Composes(PutKeep(list), K, PutKeep(list), Findable(list), Findable(list), Bit)
    BY <1>3, <1>6, <2>1 DEF Composes
  <2> QED
    BY <2>2, SpreadOfSpread
<1>10. Sheltered(RestoredWord(w, list)) = Spread(Spread(w, Puts(list)), Keep)
  <2>1. PICK r : r = RestoredWord(w, list)
    OBVIOUS
  <2>2. r = Spread(w, Puts(list)) /\ r \in BitWord
    BY <2>1, RestoredIs
  <2>3. Sheltered(r) = Spread(r, Keep)
    BY <2>2, ShelteredIs
  <2> QED
    BY <2>1, <2>2, <2>3
<1> QED
  BY <1>4, <1>5, <1>8, <1>9, <1>10

\* What is protected in a restored line follows from what is in the line.
LEMMA RestoredProtects ==
  ASSUME NEW list \in Seq(BitWord), NEW line \in Seq(Seq(Findable(list)))
  PROVE  /\ line \in BitLine /\ Restored(line, list) \in BitLine
         /\ Protected(Restored(line, list)) = Spread(Protected(line), PutKeep(list))
<1>0. \A i \in DOMAIN line : line[i] \in Seq(Findable(list))
  BY LenProperties, ElementOfSeq
<1>1. line \in BitLine
  <2>1. Seq(Findable(list)) \subseteq BitWord
    BY RestoredIs
  <2> QED
    BY <2>1, SeqMonotonic DEF BitLine
<1>2. PICK R : R = [w \in Seq(Findable(list)) |-> RestoredWord(w, list)]
  OBVIOUS
<1>3. R \in [Seq(Findable(list)) -> BitWord]
  BY <1>2, RestoredIs
<1>4. Restored(line, list) = [i \in DOMAIN line |-> R[line[i]]]
  BY <1>0, <1>2 DEF Restored
<1>5. [i \in DOMAIN line |-> R[line[i]]] \in Seq(BitWord)
  BY <1>3, MappedTyped
<1>6. PICK W : W = [w \in Seq(Findable(list)) |-> Sheltered(w)]
  OBVIOUS
<1>7. W \in [Seq(Findable(list)) -> Seq(Findable(list))]
  BY <1>6, RestoredShelters
<1>8. PICK K : K = [w \in Seq(Findable(list)) |-> Spread(Sheltered(w), PutKeep(list))]
  OBVIOUS
<1>9. PutKeep(list) \in [Findable(list) -> Seq(Bit)]
  BY PutsTyped
<1>10. ASSUME NEW w \in Seq(Findable(list)) PROVE K[w] \in Seq(Bit) /\ K[w] = KeepWord[R[w]]
  <2>1. Sheltered(w) \in Seq(Findable(list))
    BY RestoredShelters
  <2>2. Spread(Sheltered(w), PutKeep(list)) \in Seq(Bit)
    BY <1>9, <2>1, SpreadTyped
  <2>3. KeepWord[R[w]] = Sheltered(RestoredWord(w, list))
    BY <1>2, <1>3 DEF KeepWord
  <2> QED
    BY <1>8, <2>2, <2>3, RestoredShelters
<1>11. Spread([i \in DOMAIN line |-> R[line[i]]], KeepWord) = Spread(line, K)
  <2>1. PICK S : S = Seq(Findable(list))
    OBVIOUS
  <2>2. line \in Seq(S)
    BY <2>1
  <2>3. OneByOne(K, R, KeepWord, S)
    BY <1>10, <2>1 DEF OneByOne
  <2> QED
    BY <2>2, <2>3, SpreadOfMapped
<1>12. Protected(Restored(line, list)) = Spread(line, K)
  BY <1>4, <1>5, <1>11, ProtectedIs DEF BitLine
<1>13. Protected(line) = Spread(line, W)
  <2>1. \A w \in Seq(Findable(list)) : KeepWord[w] = W[w]
    BY <1>6, RestoredIs DEF KeepWord
  <2>2. PICK S : S = Seq(Findable(list))
    OBVIOUS
  <2>3. line \in Seq(S) /\ \A w \in S : KeepWord[w] = W[w]
    BY <2>1, <2>2
  <2>4. Spread(line, KeepWord) = Spread(line, W)
    BY <2>3, SpreadEqual
  <2> QED
    BY <1>1, <2>4, ProtectedIs
<1>14. Spread(Spread(line, W), PutKeep(list)) = Spread(line, K)
  <2>1. \A w \in Seq(Findable(list)) : K[w] = Spread(W[w], PutKeep(list))
    BY <1>6, <1>8
  <2>2. K \in [Seq(Findable(list)) -> Seq(Bit)]
    BY <1>8, <1>10
  <2>3. Composes(K, W, PutKeep(list), Seq(Findable(list)), Findable(list), Bit)
    BY <1>7, <1>9, <2>1, <2>2 DEF Composes
  <2> QED
    BY <2>3, SpreadOfSpread
<1> QED
  BY <1>1, <1>4, <1>5, <1>12, <1>13, <1>14 DEF BitLine

\* A line has no unknown number when all its pieces are found.
LEMMA FoundLine ==
  ASSUME NEW list \in Seq(BitWord), NEW line \in BitLine
  PROVE  (~Unknown(line, list)) <=> line \in Seq(Seq(Findable(list)))
<1>1. line \in Seq(BitWord) /\ DOMAIN line = 1..Len(line) /\ Len(line) \in Nat
  BY LenProperties DEF BitLine
<1>2. \A j \in 1..Len(line) : line[j] \in BitWord
  BY <1>1, ElementOfSeq
<1>3. \A j \in 1..Len(line) :
        /\ line[j] \in Seq(Bit) /\ DOMAIN line[j] = 1..Len(line[j]) /\ Len(line[j]) \in Nat
        /\ \A k \in 1..Len(line[j]) : line[j][k] \in Bit
  BY <1>2, LenProperties, ElementOfSeq DEF BitWord
<1>4. Len(list) \in Nat
  BY LenProperties
<1>5. \A j \in 1..Len(line) : \A p : p \in ToSet(line[j]) <=> \E k \in 1..Len(line[j]) : line[j][k] = p
  BY <1>3 DEF ToSet
<1>6. ASSUME ~Unknown(line, list) PROVE line \in Seq(Seq(Findable(list)))
  <2>1. \A j \in 1..Len(line) : \A k \in 1..Len(line[j]) : line[j][k] \in Findable(list)
    <3> SUFFICES ASSUME NEW j \in 1..Len(line), NEW k \in 1..Len(line[j])
                 PROVE  line[j][k] \in Findable(list)
      OBVIOUS
    <3>1. line[j][k] \in ToSet(line[j]) /\ line[j][k] \in Bit
      BY <1>3, <1>5
    <3>2. line[j][k].kind = "hole" => ~(line[j][k].at >= Len(list))
      BY <1>1, <1>6, <3>1 DEF Unknown
    <3>3. line[j][k].kind = "hole" => line[j][k].at \in Nat
      BY <3>1, BitParts
    <3> QED
      BY <1>4, <3>1, <3>2, <3>3 DEF Findable
  <2>2. ASSUME NEW j \in 1..Len(line) PROVE line[j] \in Seq(Findable(list))
    <3>1. PICK w : w = line[j]
      OBVIOUS
    <3>2. w \in Seq(Bit) /\ Len(w) \in Nat /\ w \in [1..Len(w) -> Findable(list)]
      BY <1>3, <2>1, <3>1, LenProperties
    <3> QED
      BY <3>1, <3>2, SeqDef
  <2>3. line \in [1..Len(line) -> Seq(Findable(list))]
    BY <1>1, <2>2, LenProperties
  <2> QED
    BY <1>1, <2>3, SeqDef
<1>7. ASSUME line \in Seq(Seq(Findable(list))) PROVE ~Unknown(line, list)
  <2>1. ASSUME NEW j \in 1..Len(line), NEW k \in 1..Len(line[j])
        PROVE  line[j][k] \in Findable(list)
    <3>1. line[j] \in Seq(Findable(list))
      BY <1>7, ElementOfSeq
    <3> QED
      BY <3>1, ElementOfSeq
  <2>2. \A j \in 1..Len(line) : \A p \in ToSet(line[j]) : p \in Findable(list)
    BY <1>5, <2>1
  <2>3. \A p \in Findable(list) : p.kind = "hole" => ~(p.at >= Len(list))
    BY <1>4, BitParts DEF Findable
  <2> QED
    BY <1>1, <2>2, <2>3 DEF Unknown
<1> QED
  BY <1>6, <1>7

\* Whether a number is unknown is a question of what is protected.
LEMMA UnknownHoles ==
  ASSUME NEW list \in Seq(BitWord), NEW line \in BitLine
  PROVE  Unknown(line, list)
           <=> \E y \in Bit : y.kind = "hole" /\ y.at >= Len(list) /\ Has(Protected(line), y)
<1>1. line \in Seq(BitWord) /\ DOMAIN line = 1..Len(line) /\ Len(line) \in Nat
  BY LenProperties DEF BitLine
<1>2. \A j \in 1..Len(line) : line[j] \in BitWord
  BY <1>1, ElementOfSeq
<1>3. \A j \in 1..Len(line) :
        /\ line[j] \in Seq(Bit) /\ DOMAIN line[j] = 1..Len(line[j]) /\ Len(line[j]) \in Nat
        /\ \A k \in 1..Len(line[j]) : line[j][k] \in Bit
  BY <1>2, LenProperties, ElementOfSeq DEF BitWord
<1>4. \A j \in 1..Len(line) : \A p : p \in ToSet(line[j]) <=> p \in Bit /\ Has(line[j], p)
  BY <1>3 DEF ToSet, Has
<1>5. \A y \in Bit : y.kind = "hole" =>
        (Has(Protected(line), y) <=> \E j \in 1..Len(line) : Has(line[j], y))
  <2>1. \A y \in Bit : y.kind = "hole" => ~Loose(y)
    BY DEF Loose
  <2> QED
    BY <2>1, ProtectedElements
<1> QED
  BY <1>1, <1>4, <1>5 DEF Unknown

\* Two lines that protect the same are both restored, or neither is, and protect
\* the same again.
LEMMA RestoredAlike ==
  ASSUME NEW list \in Seq(BitWord), NEW l \in BitLine, NEW m \in BitLine,
         Protected(l) = Protected(m), l \in Seq(Seq(Findable(list)))
  PROVE  /\ ~Unknown(m, list)
         /\ Restored(m, list) \in BitLine
         /\ Protected(Restored(m, list)) = Protected(Restored(l, list))
<1>1. ~Unknown(l, list)
  BY FoundLine
<1>2. ~Unknown(m, list)
  BY <1>1, UnknownHoles
<1>3. m \in Seq(Seq(Findable(list)))
  BY <1>2, FoundLine
<1> QED
  BY <1>2, <1>3, RestoredProtects

(* The list of what is stashed only grows. *)
Longer(m, l) == Len(l) <= Len(m) /\ \A i \in 1..Len(l) : m[i] = l[i]

\* A list is as long as itself, and longer than what it grew from.
LEMMA LongerParts ==
  /\ \A l \in Seq(BitWord) : Longer(l, l)
  /\ \A l \in Seq(BitWord) : \A x \in BitWord :
       Append(l, x) \in Seq(BitWord) /\ Longer(Append(l, x), l)
  /\ \A k, l, m \in Seq(BitWord) : Longer(m, l) /\ Longer(l, k) => Longer(m, k)
<1>1. ASSUME NEW l \in Seq(BitWord) PROVE Len(l) \in Nat
  BY LenProperties
<1>2. \A l \in Seq(BitWord) : Longer(l, l)
  BY <1>1 DEF Longer
<1>3. ASSUME NEW l \in Seq(BitWord), NEW x \in BitWord
      PROVE  Append(l, x) \in Seq(BitWord) /\ Longer(Append(l, x), l)
  <2>1. PICK m : m = Append(l, x)
    OBVIOUS
  <2>2. m \in Seq(BitWord) /\ Len(m) = Len(l) + 1 /\ \A i \in 1..Len(l) : m[i] = l[i]
    BY <2>1, AppendProperties
  <2> QED
    BY <1>1, <2>1, <2>2 DEF Longer
<1>4. ASSUME NEW k \in Seq(BitWord), NEW l \in Seq(BitWord), NEW m \in Seq(BitWord),
             Longer(m, l), Longer(l, k)
      PROVE  Longer(m, k)
  BY <1>1, <1>4 DEF Longer
<1> QED
  BY <1>2, <1>3, <1>4

\* A word is restored part by part.
LEMMA PutsParts ==
  ASSUME NEW list \in Seq(BitWord), NEW w \in Seq(Findable(list))
  PROVE  /\ RestoredWord(<<>>, list) = <<>>
         /\ \A p \in Findable(list) :
              /\ Append(w, p) \in Seq(Findable(list))
              /\ RestoredWord(Append(w, p), list) = RestoredWord(w, list) \o Puts(list)[p]
         /\ \A v \in Seq(Findable(list)) :
              /\ w \o v \in Seq(Findable(list))
              /\ RestoredWord(w \o v, list) = RestoredWord(w, list) \o RestoredWord(v, list)
<1>1. PICK S, F : S = Findable(list) /\ F = Puts(list)
  OBVIOUS
<1>2. F \in [S -> Seq(Bit)] /\ w \in Seq(S)
  BY <1>1, PutsTyped
<1>3. \A v \in Seq(S) : RestoredWord(v, list) = Spread(v, F)
  BY <1>1, RestoredIs
<1>4. RestoredWord(<<>>, list) = <<>>
  <2>1. <<>> \in Seq(S)
    OBVIOUS
  <2>2. Spread(<<>>, F) = <<>>
    BY SpreadEmpty
  <2> QED
    BY <1>3, <2>1, <2>2
<1>5. ASSUME NEW p \in S
      PROVE  /\ Append(w, p) \in Seq(S)
             /\ RestoredWord(Append(w, p), list) = RestoredWord(w, list) \o F[p]
  <2>1. Append(w, p) \in Seq(S)
    BY <1>2, AppendProperties
  <2>2. Spread(Append(w, p), F) = Spread(w, F) \o F[p]
    BY <1>2, SpreadAppend
  <2> QED
    BY <1>2, <1>3, <2>1, <2>2
<1>6. ASSUME NEW v \in Seq(S)
      PROVE  /\ w \o v \in Seq(S)
             /\ RestoredWord(w \o v, list) = RestoredWord(w, list) \o RestoredWord(v, list)
  <2>1. w \o v \in Seq(S)
    BY <1>2, ConcatProperties
  <2>2. Spread(w \o v, F) = Spread(w, F) \o Spread(v, F)
    BY <1>2, SpreadConcat
  <2> QED
    BY <1>2, <1>3, <2>1, <2>2
<1> QED
  BY <1>1, <1>4, <1>5, <1>6

\* Pieces that are no placeholders stay what they are.
Solid == {p \in Bit : p.kind # "hole"}

\* They are restored to themselves.
LEMMA SolidStays ==
  ASSUME NEW list \in Seq(BitWord), NEW w \in Seq(Solid)
  PROVE  w \in Seq(Findable(list)) /\ RestoredWord(w, list) = w
<1>1. Solid \subseteq Findable(list)
  BY DEF Solid, Findable
<1>2. w \in Seq(Findable(list))
  BY <1>1, SeqMonotonic
<1>3. PICK F : F = [p \in Solid |-> <<p>>]
  OBVIOUS
<1>4. F \in [Solid -> Seq(Solid)]
  BY <1>3
<1>5. Spread(w, F) = w
  <2>1. \A p \in Solid : F[p] = <<p>>
    BY <1>3
  <2> QED
    BY <1>4, <2>1, SpreadSame
<1>6. \A p \in Solid : Puts(list)[p] = F[p]
  BY <1>1, <1>3 DEF Puts, Solid
<1>7. Spread(w, Puts(list)) = Spread(w, F)
  BY <1>6, SpreadEqual
<1> QED
  BY <1>2, <1>5, <1>7, RestoredIs

\* A longer list finds the same for a number.
LEMMA FoundStable ==
  ASSUME NEW l \in Seq(BitWord), NEW m \in Seq(BitWord), Longer(m, l), NEW p \in Findable(l)
  PROVE  p \in Findable(m) /\ Puts(m)[p] = Puts(l)[p]
<1>1. Len(l) \in Nat /\ Len(m) \in Nat
  BY LenProperties
<1>2. p \in Bit /\ (p.kind = "hole" => p.at \in Nat /\ p.at < Len(l))
  <2>1. p \in Bit
    BY DEF Findable
  <2> QED
    BY <2>1, BitParts DEF Findable
<1>3. p \in Findable(m)
  BY <1>1, <1>2 DEF Findable, Longer
<1>4. CASE p.kind = "hole"
  <2>1. p.at + 1 \in 1..Len(l)
    BY <1>1, <1>2, <1>4
  <2>2. m[p.at + 1] = l[p.at + 1]
    BY <2>1 DEF Longer
  <2> QED
    BY <1>3, <1>4, <2>2 DEF Puts
<1>5. CASE p.kind # "hole"
  BY <1>3, <1>5 DEF Puts
<1> QED
  BY <1>3, <1>4, <1>5

\* A longer list restores the same.
LEMMA RestoredStable ==
  ASSUME NEW l \in Seq(BitWord), NEW m \in Seq(BitWord), Longer(m, l),
         NEW w \in Seq(Findable(l))
  PROVE  w \in Seq(Findable(m)) /\ RestoredWord(w, m) = RestoredWord(w, l)
<1>2. \A p \in Findable(l) : p \in Findable(m) /\ Puts(m)[p] = Puts(l)[p]
  BY FoundStable
<1>3. Findable(l) \subseteq Findable(m)
  BY <1>2
<1>4. w \in Seq(Findable(m))
  BY <1>3, SeqMonotonic
<1>5. \A p \in Findable(l) : Puts(m)[p] = Puts(l)[p]
  BY <1>2
<1>6. Spread(w, Puts(m)) = Spread(w, Puts(l))
  BY <1>5, SpreadEqual
<1> QED
  BY <1>4, <1>6, RestoredIs

\* What is stashed under the next number is put back.
LEMMA StashedIsPutBack ==
  ASSUME NEW list \in Seq(BitWord), NEW w \in Seq(Findable(list)), NEW x \in BitWord
  PROVE  LET m == Append(list, x)
             v == Append(w, Hole(Len(list)))
         IN /\ m \in Seq(BitWord) /\ Longer(m, list) /\ v \in Seq(Findable(m))
            /\ RestoredWord(v, m) = RestoredWord(w, list) \o x
<1>1. PICK n : n = Len(list)
  OBVIOUS
<1>2. n \in Nat
  BY <1>1, LenProperties
<1>3. PICK m : m = Append(list, x)
  OBVIOUS
<1>4. m \in Seq(BitWord) /\ Len(m) = n + 1 /\ m[n + 1] = x
  BY <1>1, <1>3, AppendProperties
<1>5. Longer(m, list)
  BY <1>3, LongerParts
<1>6. w \in Seq(Findable(m)) /\ RestoredWord(w, m) = RestoredWord(w, list)
  BY <1>4, <1>5, RestoredStable
<1>7. PICK p : p = Hole(n)
  OBVIOUS
<1>8. p \in Bit /\ p.kind = "hole" /\ p.at = n
  BY <1>2, <1>7, MadeBits DEF Hole
<1>9. p \in Findable(m)
  BY <1>2, <1>4, <1>8 DEF Findable
<1>10. Puts(m)[p] = x
  BY <1>4, <1>8, <1>9 DEF Puts
<1>11. /\ Append(w, p) \in Seq(Findable(m))
       /\ RestoredWord(Append(w, p), m) = RestoredWord(w, m) \o Puts(m)[p]
  BY <1>4, <1>6, <1>9, PutsParts
<1> QED
  BY <1>1, <1>3, <1>4, <1>5, <1>6, <1>7, <1>10, <1>11

\* The smallest of a non-empty set of places is one of them.
LEMMA FirstPlace ==
  ASSUME NEW n \in Nat, NEW s \in SUBSET (1..n), s # {}
  PROVE  Min(s) \in s /\ \A y \in s : Min(s) <= y
<1>1. s \in SUBSET Nat
  OBVIOUS
<1>2. \E x \in s : \A y \in s : x <= y
  BY <1>1, LeastNatural
<1> QED
  BY <1>2 DEF Min

\* A sequence is what it is up to a place and from there on.
LEMMA CutInTwo ==
  ASSUME NEW S, NEW s \in Seq(S), NEW i \in 1..(Len(s) + 1)
  PROVE  /\ SubSeq(s, 1, i - 1) \in Seq(S) /\ SubSeq(s, i, Len(s)) \in Seq(S)
         /\ s = SubSeq(s, 1, i - 1) \o SubSeq(s, i, Len(s))
         /\ Len(SubSeq(s, 1, i - 1)) = i - 1 /\ Len(SubSeq(s, i, Len(s))) = Len(s) - i + 1
         /\ \A j \in 1..(i - 1) : SubSeq(s, 1, i - 1)[j] = s[j]
         /\ \A j \in 1..(Len(s) - i + 1) : SubSeq(s, i, Len(s))[j] = s[i + j - 1]
<1>1. PICK n : n = Len(s)
  OBVIOUS
<1>2. n \in Nat /\ \A j \in 1..n : s[j] \in S
  BY <1>1, LenProperties, ElementOfSeq
<1>3. PICK k \in Int : k = i - 1
  BY <1>1, <1>2
<1>4. /\ SubSeq(s, 1, k) \in Seq(S)
      /\ Len(SubSeq(s, 1, k)) = IF 1 <= k THEN k - 1 + 1 ELSE 0
      /\ \A j \in 1..(k - 1 + 1) : SubSeq(s, 1, k)[j] = s[1 + j - 1]
  <2>1. \A j \in 1..k : s[j] \in S
    BY <1>1, <1>2, <1>3
  <2> QED
    BY <2>1, SubSeqProperties
<1>5. /\ SubSeq(s, i, n) \in Seq(S)
      /\ Len(SubSeq(s, i, n)) = IF i <= n THEN n - i + 1 ELSE 0
      /\ \A j \in 1..(n - i + 1) : SubSeq(s, i, n)[j] = s[i + j - 1]
  <2>1. (\A j \in i..n : s[j] \in S) /\ i \in Int /\ n \in Int
    BY <1>1, <1>2
  <2> QED
    BY <2>1, SubSeqProperties
<1>6. Len(SubSeq(s, 1, k)) = k /\ Len(SubSeq(s, i, n)) = n - i + 1
  BY <1>1, <1>2, <1>3, <1>4, <1>5
<1>7. \A j \in 1..k : SubSeq(s, 1, k)[j] = s[j]
  BY <1>3, <1>4
<1>8. s = SubSeq(s, 1, k) \o SubSeq(s, i, n)
  <2>1. PICK a, b : a = SubSeq(s, 1, k) /\ b = SubSeq(s, i, n)
    OBVIOUS
  <2>2. a \in Seq(S) /\ b \in Seq(S) /\ Len(a) = k /\ Len(b) = n - k
    BY <1>3, <1>4, <1>5, <1>6, <2>1, <1>1, <1>2
  <2>3. /\ a \o b \in Seq(S) /\ Len(a \o b) = Len(a) + Len(b)
        /\ \A j \in 1..(Len(a) + Len(b)) :
             (a \o b)[j] = IF j <= Len(a) THEN a[j] ELSE b[j - Len(a)]
    BY <2>2, ConcatProperties
  <2>4. Len(a \o b) = n
    BY <1>2, <1>3, <2>2, <2>3
  <2>5. ASSUME NEW j \in 1..n PROVE (a \o b)[j] = s[j]
    <3>1. j \in 1..(Len(a) + Len(b)) /\ (a \o b)[j] = IF j <= k THEN a[j] ELSE b[j - k]
      BY <1>2, <1>3, <2>2, <2>3
    <3>2. CASE j <= k
      BY <1>7, <2>1, <3>1, <3>2
    <3>3. CASE ~(j <= k)
      <4>1. j - k \in 1..(n - i + 1) /\ i + (j - k) - 1 = j
        BY <1>1, <1>2, <1>3, <3>3
      <4>2. b[j - k] = s[j]
        BY <1>5, <2>1, <4>1
      <4> QED
        BY <3>1, <3>3, <4>2
    <3> QED
      BY <3>2, <3>3
  <2>6. a \o b = s
    BY <1>1, <2>3, <2>4, <2>5, SeqEqual
  <2> QED
    BY <2>1, <2>6
<1> QED
  BY <1>1, <1>3, <1>4, <1>5, <1>6, <1>7, <1>8

(* _protect(): what is hidden can be put back. *)

\* What a client writes that is no placeholder.
Plain == {p \in Piece : p.kind # "hole"}

\* That is no placeholder.
LEMMA PlainIsSolid == Plain \subseteq Solid
BY DEF Plain, Solid, Bit

\* No placeholder but the one at the end.
HoleLast(word) == \A i \in 1..Len(word) : word[i].kind = "hole" => i = Len(word)

\* A path begins in the word and the placeholder at its end is caught in it.
Tears(word) == PathStart(word) # {} /\ Last(word).kind = "hole"

\* A path begins before the URLs of the word.
PathFirst(word) ==
  /\ IndexOfUrl(word) # {}
  /\ \E s \in PathStart(word) : \A u \in IndexOfUrl(word) : s < u

\* The words that stand for what the client wrote, with the lists they go by.
UrlGood(word) ==
  {p \in BitWord \X Seq(BitWord) :
     /\ p[1] \in Seq(Findable(p[2])) /\ RestoredWord(p[1], p[2]) = word
     /\ HoleLast(p[1]) /\ (Tears(p[1]) <=> PathFirst(word))}

\* A word is left, and the list only grows.
LEMMA UrlTyped ==
  ASSUME NEW word \in BitWord, NEW list \in Seq(BitWord)
  PROVE  /\ UrlHidden(word, list).word \in BitWord
         /\ UrlHidden(word, list).list \in Seq(BitWord)
         /\ Longer(UrlHidden(word, list).list, list)
<1>1. CASE IndexOfUrl(word) = {}
  <2>1. UrlHidden(word, list) = [word |-> word, list |-> list]
    BY <1>1 DEF UrlHidden
  <2> QED
    BY <2>1, LongerParts
<1>2. CASE IndexOfUrl(word) # {}
  <2>1. PICK i : i = Min(IndexOfUrl(word))
    OBVIOUS
  <2>2. word \in Seq(Bit) /\ Len(word) \in Nat /\ DOMAIN word = 1..Len(word)
    BY LenProperties DEF BitWord
  <2>3. i \in 1..Len(word)
    <3>1. IndexOfUrl(word) \in SUBSET (1..Len(word))
      BY <2>2 DEF IndexOfUrl
    <3> QED
      BY <1>2, <2>1, <2>2, <3>1, FirstPlace
  <2>4. i \in 1..(Len(word) + 1)
    BY <2>2, <2>3
  <2>5. PICK a, b : a = SubSeq(word, 1, i - 1) /\ b = SubSeq(word, i, Len(word))
    OBVIOUS
  <2>6. a \in Seq(Bit) /\ b \in Seq(Bit)
    BY <2>2, <2>4, <2>5, CutInTwo
  <2>7. Hole(Len(list)) \in Bit
    BY MadeBits, LenProperties
  <2>8. Append(a, Hole(Len(list))) \in Seq(Bit)
    BY <2>6, <2>7, AppendProperties
  <2>9. b \in BitWord /\ Append(a, Hole(Len(list))) \in BitWord
    BY <2>6, <2>8 DEF BitWord
  <2>10. Append(list, b) \in Seq(BitWord) /\ Longer(Append(list, b), list)
    BY <2>9, LongerParts
  <2>11. UrlHidden(word, list) = [word |-> Append(a, Hole(Len(list))), list |-> Append(list, b)]
    BY <1>2, <2>1, <2>5 DEF UrlHidden
  <2> QED
    BY <2>9, <2>10, <2>11
<1> QED
  BY <1>1, <1>2

\* UrlHidden() can be undone, and only the last piece is a placeholder.  A path
\* begins before it when one began before the URL.
LEMMA UrlHides ==
  ASSUME NEW word \in Seq(Plain), NEW list \in Seq(BitWord)
  PROVE  <<UrlHidden(word, list).word, UrlHidden(word, list).list>> \in UrlGood(word)
<1>1. PICK n : n = Len(word)
  OBVIOUS
<1>2. n \in Nat /\ DOMAIN word = 1..n /\ \A i \in 1..n : word[i] \in Plain
  BY <1>1, LenProperties, ElementOfSeq
<1>3. word \in Seq(Solid)
  BY PlainIsSolid, SeqMonotonic
<1>4. word \in BitWord
  <2>1. Solid \subseteq Bit
    BY DEF Solid
  <2> QED
    BY <1>3, <2>1, SeqMonotonic DEF BitWord
<1>5. \A i \in 1..n : word[i].kind # "hole"
  BY <1>2 DEF Plain
<1>6. /\ UrlHidden(word, list).word \in BitWord
      /\ UrlHidden(word, list).list \in Seq(BitWord)
  BY <1>4, UrlTyped
<1>7. CASE IndexOfUrl(word) = {}
  <2>1. UrlHidden(word, list).word = word /\ UrlHidden(word, list).list = list
    BY <1>7 DEF UrlHidden
  <2>2. word \in Seq(Findable(list)) /\ RestoredWord(word, list) = word
    BY <1>3, SolidStays
  <2>3. HoleLast(word)
    BY <1>1, <1>5 DEF HoleLast
  <2>4. ~PathFirst(word)
    BY <1>7 DEF PathFirst
  <2>5. ~Tears(word)
    <3> SUFFICES ASSUME PathStart(word) # {} PROVE Last(word).kind # "hole"
      BY DEF Tears
    <3>1. n \in 1..n
      BY <1>1, <1>2 DEF PathStart
    <3> QED
      BY <1>1, <1>5, <3>1 DEF Last
  <2> QED
    BY <1>4, <2>1, <2>2, <2>3, <2>4, <2>5 DEF UrlGood
<1>8. CASE IndexOfUrl(word) # {}
  <2>1. PICK i : i = Min(IndexOfUrl(word))
    OBVIOUS
  <2>2. i \in IndexOfUrl(word) /\ (\A u \in IndexOfUrl(word) : i <= u) /\ i \in 1..n
    <3>1. IndexOfUrl(word) \in SUBSET (1..n)
      BY <1>2 DEF IndexOfUrl
    <3> QED
      BY <1>2, <1>8, <2>1, <3>1, FirstPlace
  <2>3. i \in 1..(n + 1)
    BY <1>2, <2>2
  <2>4. PICK a, b : a = SubSeq(word, 1, i - 1) /\ b = SubSeq(word, i, n)
    OBVIOUS
  <2>5. /\ a \in Seq(Solid) /\ b \in Seq(Solid) /\ word = a \o b /\ Len(a) = i - 1
        /\ \A j \in 1..(i - 1) : a[j] = word[j]
    BY <1>1, <1>3, <2>3, <2>4, CutInTwo
  <2>6. b \in BitWord
    <3>1. Solid \subseteq Bit /\ b \in Seq(Solid)
      BY <2>5 DEF Solid
    <3> QED
      BY <3>1, SeqMonotonic DEF BitWord
  <2>7. a \in Seq(Solid)
    BY <2>5
  <2>8. a \in Seq(Findable(list)) /\ RestoredWord(a, list) = a
    BY <2>7, SolidStays
  <2>9. PICK p : p = Hole(Len(list))
    OBVIOUS
  <2>10. p \in Bit /\ p.kind = "hole"
    BY <2>9, MadeBits, LenProperties DEF Hole
  <2>11. PICK x, m : x = Append(a, p) /\ m = Append(list, b)
    OBVIOUS
  <2>12. /\ m \in Seq(BitWord) /\ x \in Seq(Findable(m)) /\ RestoredWord(x, m) = a \o b
    BY <2>6, <2>8, <2>9, <2>11, StashedIsPutBack
  <2>13. UrlHidden(word, list).word = x /\ UrlHidden(word, list).list = m
    BY <1>1, <1>8, <2>1, <2>4, <2>9, <2>11 DEF UrlHidden
  <2>14. /\ Len(x) = i /\ x[i] = p /\ \A j \in 1..(i - 1) : x[j] = word[j]
    <3>1. Len(x) = Len(a) + 1 /\ x[Len(a) + 1] = p /\ \A j \in 1..Len(a) : x[j] = a[j]
      BY <2>7, <2>10, <2>11, AppendProperties
    <3>2. Len(a) + 1 = i
      BY <2>2, <2>5
    <3> QED
      BY <2>5, <3>1, <3>2
  <2>15. HoleLast(x)
    <3>1. \A j \in 1..i : x[j].kind = "hole" => j = i
      <4> SUFFICES ASSUME NEW j \in 1..i, j # i PROVE x[j].kind # "hole"
        OBVIOUS
      <4>1. j \in 1..(i - 1) /\ j \in 1..n
        BY <1>2, <2>2
      <4> QED
        BY <1>5, <2>14, <4>1
    <3> QED
      BY <2>14, <3>1 DEF HoleLast
  <2>16. Last(x).kind = "hole"
    BY <2>10, <2>14 DEF Last
  <2>17. \A s : s \in PathStart(x) <=> s \in PathStart(word) /\ s < i
    <3>1. ASSUME NEW s \in 2..(i - 1)
          PROVE  s \in PathStart(x) <=> s \in PathStart(word)
      <4>1. s \in 2..i /\ s \in 2..n /\ s \in 1..(i - 1) /\ s - 1 \in 1..(i - 1) /\ s - 1 \in 1..n
        BY <1>2, <2>2
      <4>2. x[s] = word[s] /\ x[s - 1] = word[s - 1]
        BY <2>14, <4>1
      <4> QED
        BY <1>1, <2>14, <4>1, <4>2 DEF PathStart
    <3>2. i \notin PathStart(x)
      BY <2>10, <2>14 DEF PathStart
    <3>3. \A s \in PathStart(x) : s \in 2..i /\ s # i
      BY <2>14, <3>2 DEF PathStart
    <3>4. \A s \in PathStart(x) : s \in 2..(i - 1) /\ s < i
      BY <2>2, <3>3
    <3>5. \A s \in PathStart(word) : s < i => s \in 2..(i - 1)
      BY <1>2, <2>2 DEF PathStart
    <3> QED
      BY <3>1, <3>4, <3>5
  <2>18. \A s \in PathStart(word) : s < i <=> \A u \in IndexOfUrl(word) : s < u
    <3>1. \A s \in PathStart(word) : s \in Nat
      BY DEF PathStart
    <3>2. \A u \in IndexOfUrl(word) : u \in Nat
      BY <1>2 DEF IndexOfUrl
    <3> QED
      BY <2>2, <3>1, <3>2
  <2>19. Tears(x) <=> PathFirst(word)
    BY <1>8, <2>16, <2>17, <2>18 DEF Tears, PathFirst
  <2> QED
    BY <1>6, <2>5, <2>12, <2>13, <2>15, <2>19 DEF UrlGood
<1> QED
  BY <1>7, <1>8

(* One pass over the words of a line, with the list it goes by. *)
Acc == [line : BitLine, list : Seq(BitWord)]

\* A step adds a good word, and to the list.
Steps(a, b, good) ==
  /\ b \in Acc /\ Longer(b.list, a.list)
  /\ \E w \in BitWord : b.line = Append(a.line, w) /\ <<w, b.list>> \in good

\* What is good stays so when the list grows.
Stable(good) ==
  \A p \in good : \A m \in Seq(BitWord) : Longer(m, p[2]) => <<p[1], m>> \in good

\* The first n words are good, by the list the pass has come to.
Passed(a, list, n, Good) ==
  /\ a \in Acc /\ Longer(a.list, list) /\ Len(a.line) = n
  /\ \A i \in 1..n : <<a.line[i], a.list>> \in Good[i]

\* Every step of G adds a good word, as long as the list has only grown.
IsPass(G, list, n, Good) ==
  /\ G \in [0..n -> Acc] /\ G[0] = [line |-> <<>>, list |-> list]
  /\ \A i \in 1..n : Stable(Good[i])
  /\ \A k \in 1..n : Longer(G[k - 1].list, list) => Steps(G[k - 1], G[k], Good[k])

\* A pass of such steps makes good words of all.
LEMMA PassOver ==
  ASSUME NEW n \in Nat, NEW list \in Seq(BitWord), NEW G, NEW Good, IsPass(G, list, n, Good)
  PROVE  Passed(G[n], list, n, Good)
<1>0. /\ G \in [0..n -> Acc] /\ G[0] = [line |-> <<>>, list |-> list]
      /\ \A i \in 1..n : Stable(Good[i])
      /\ \A k \in 1..n : Longer(G[k - 1].list, list) => Steps(G[k - 1], G[k], Good[k])
  BY DEF IsPass
<1> DEFINE P == {k \in 0..n : Passed(G[k], list, k, Good)}
<1>1. 0 \in P
  <2>1. 0 \in 0..n /\ G[0] \in Acc /\ G[0].list = list /\ G[0].line = <<>>
    BY <1>0
  <2>2. Longer(G[0].list, list)
    BY <2>1, LongerParts
  <2>3. Len(<<>>) = 0 /\ 1..0 = {}
    OBVIOUS
  <2>4. Passed(G[0], list, 0, Good)
    BY <2>1, <2>2, <2>3 DEF Passed
  <2> QED
    BY <2>1, <2>4
<1>2. ASSUME NEW k \in 1..n, k - 1 \in P PROVE k \in P
  <2>1. PICK a, b : a = G[k - 1] /\ b = G[k]
    OBVIOUS
  <2>2. /\ a \in Acc /\ Longer(a.list, list) /\ Len(a.line) = k - 1
        /\ \A i \in 1..(k - 1) : <<a.line[i], a.list>> \in Good[i]
    BY <1>2, <2>1 DEF Passed
  <2>3. Steps(a, b, Good[k])
    BY <1>0, <2>1, <2>2
  <2> HIDE DEF P
  <2>4. /\ b \in Acc /\ Longer(b.list, a.list)
        /\ \E w \in BitWord : b.line = Append(a.line, w) /\ <<w, b.list>> \in Good[k]
    BY <2>3 DEF Steps
  <2>5. PICK w \in BitWord : b.line = Append(a.line, w) /\ <<w, b.list>> \in Good[k]
    BY <2>4
  <2>6. a.line \in Seq(BitWord) /\ a.list \in Seq(BitWord) /\ b.list \in Seq(BitWord)
    BY <2>2, <2>4 DEF Acc, BitLine
  <2>7. PICK l, m : l = a.line /\ m = Append(l, w)
    OBVIOUS
  <2>8. Len(m) = k /\ m[k] = w /\ \A i \in 1..(k - 1) : m[i] = l[i]
    <3>1. l \in Seq(BitWord) /\ Len(l) = k - 1
      BY <2>2, <2>6, <2>7
    <3>2. Len(m) = Len(l) + 1 /\ m[Len(l) + 1] = w /\ \A i \in 1..Len(l) : m[i] = l[i]
      BY <2>7, <3>1, AppendProperties
    <3> QED
      BY <3>1, <3>2
  <2>9. Longer(b.list, list)
    <3>1. PICK x, y : x = a.list /\ y = b.list
      OBVIOUS
    <3>2. x \in Seq(BitWord) /\ y \in Seq(BitWord) /\ Longer(y, x) /\ Longer(x, list)
      BY <2>2, <2>4, <2>6, <3>1
    <3> QED
      BY <3>1, <3>2, LongerParts
  <2>10. ASSUME NEW i \in 1..(k - 1) PROVE <<l[i], b.list>> \in Good[i]
    <3>1. <<l[i], a.list>> \in Good[i] /\ i \in 1..n
      BY <2>2, <2>7
    <3>2. PICK p : p = <<l[i], a.list>>
      OBVIOUS
    <3>3. p \in Good[i] /\ p[1] = l[i] /\ p[2] = a.list
      BY <3>1, <3>2
    <3>4. Longer(b.list, p[2])
      BY <2>4, <3>3
    <3>5. Stable(Good[i])
      BY <1>0, <3>1
    <3>6. <<p[1], b.list>> \in Good[i]
      BY <2>6, <3>3, <3>4, <3>5 DEF Stable
    <3> QED
      BY <3>3, <3>6
  <2>11. \A i \in 1..k : <<m[i], b.list>> \in Good[i]
    <3> SUFFICES ASSUME NEW i \in 1..k PROVE <<m[i], b.list>> \in Good[i]
      OBVIOUS
    <3>1. CASE i = k
      BY <2>5, <2>8, <3>1
    <3>2. CASE i # k
      <4>1. i \in 1..(k - 1)
        BY <3>2
      <4> QED
        BY <2>8, <2>10, <4>1
    <3> QED
      BY <3>1, <3>2
  <2>12. Passed(b, list, k, Good)
    BY <2>4, <2>5, <2>7, <2>8, <2>9, <2>11 DEF Passed
  <2>13. k \in 0..n
    OBVIOUS
  <2> QED
    BY <2>1, <2>12, <2>13 DEF P
<1>3. n \in 0..n
  OBVIOUS
<1>4. n \in P
  <2> HIDE DEF P
  <2> QED
    BY <1>1, <1>2, <1>3, UpTo
<1> QED
  BY <1>4

\* One word of the first pass.
UrlStep(acc, word) ==
  [line |-> Append(acc.line, UrlHidden(word, acc.list).word),
   list |-> UrlHidden(word, acc.list).list]

\* It is a step within what a pass is made of.
LEMMA UrlPassTyped ==
  ASSUME NEW acc \in Acc, NEW word \in BitWord
  PROVE  UrlStep(acc, word) \in Acc
<1>1. acc.line \in Seq(BitWord) /\ acc.list \in Seq(BitWord)
  BY DEF Acc, BitLine
<1>2. UrlHidden(word, acc.list).word \in BitWord /\ UrlHidden(word, acc.list).list \in Seq(BitWord)
  BY <1>1, UrlTyped
<1>3. Append(acc.line, UrlHidden(word, acc.list).word) \in BitLine
  BY <1>1, <1>2, AppendProperties DEF BitLine
<1> QED
  BY <1>2, <1>3 DEF UrlStep, Acc

\* The first pass, word by word.
LEMMA UrlPassIsFold ==
  ASSUME NEW s \in Seq(BitWord), NEW list \in Seq(BitWord)
  PROVE  \E G \in [0..Len(s) -> Acc] :
           /\ G[0] = [line |-> <<>>, list |-> list]
           /\ \A k \in 1..Len(s) : G[k] = UrlStep(G[k - 1], s[k])
           /\ OverWords(UrlHidden, s, list) = G[Len(s)]
<1> DEFINE Good(h) == h = [t \in SUBSET DOMAIN s |->
                             IF t = {} THEN [line |-> <<>>, list |-> list]
                             ELSE UrlStep(h[t \ {Max(t)}], s[Max(t)])]
<1>1. PICK F : F = [p \in Acc \X BitWord |-> UrlStep(p[1], p[2])]
  OBVIOUS
<1>2. /\ F \in [Acc \X BitWord -> Acc]
      /\ \A a \in Acc : \A b \in BitWord : F[a, b] = UrlStep(a, b)
  <2>1. \A p \in Acc \X BitWord : p[1] \in Acc /\ p[2] \in BitWord
    OBVIOUS
  <2>2. \A p \in Acc \X BitWord : UrlStep(p[1], p[2]) \in Acc
    BY <2>1, UrlPassTyped
  <2> QED
    BY <1>1, <2>2
<1>3. [line |-> <<>>, list |-> list] \in Acc
  BY DEF Acc, BitLine
<1>4. PICK g \in [SUBSET DOMAIN s -> Acc] : FoldTable(g, F, [line |-> <<>>, list |-> list], s)
  BY <1>2, <1>3, FoldTableExists
<1>5. ASSUME NEW t \in SUBSET DOMAIN s, t # {}
      PROVE  Max(t) \in DOMAIN s /\ t \ {Max(t)} \in SUBSET DOMAIN s /\ s[Max(t)] \in BitWord
  <2>1. Len(s) \in Nat /\ DOMAIN s = 1..Len(s)
    BY LenProperties
  <2>2. Max(t) \in t
    BY <1>5, <2>1, MaxIn
  <2> QED
    BY <2>1, <2>2, ElementOfSeq
<1>6. Good(g)
  <2>1. \A t \in SUBSET DOMAIN s :
          g[t] = IF t = {} THEN [line |-> <<>>, list |-> list] ELSE UrlStep(g[t \ {Max(t)}], s[Max(t)])
    <3> SUFFICES ASSUME NEW t \in SUBSET DOMAIN s
                 PROVE  g[t] = IF t = {} THEN [line |-> <<>>, list |-> list]
                               ELSE UrlStep(g[t \ {Max(t)}], s[Max(t)])
      OBVIOUS
    <3>1. CASE t = {}
      BY <1>4, <3>1 DEF FoldTable
    <3>2. CASE t # {}
      <4>1. g[t] = F[g[t \ {Max(t)}], s[Max(t)]]
        BY <1>4, <3>2 DEF FoldTable
      <4>2. g[t \ {Max(t)}] \in Acc /\ s[Max(t)] \in BitWord
        BY <1>5, <3>2
      <4> QED
        BY <1>2, <3>2, <4>1, <4>2
    <3> QED
      BY <3>1, <3>2
  <2> QED
    BY <2>1, Zenon
<1>7. PICK h : h = CHOOSE f : Good(f)
  OBVIOUS
<1>8. Good(h)
  <2> HIDE DEF Good
  <2> QED
    BY <1>6, <1>7, Zenon
<1>9. OverWords(UrlHidden, s, list) = h[DOMAIN s]
  BY <1>7 DEF OverWords, UrlStep, FoldLeft, MapThenFoldSet
<1>10. FilledBy(h, Acc, F, [line |-> <<>>, list |-> list], s)
  <2>1. h[{}] = [line |-> <<>>, list |-> list]
    BY <1>8
  <2>2. ASSUME NEW t \in SUBSET DOMAIN s, t # {}, h[t \ {Max(t)}] \in Acc
        PROVE  h[t] = F[h[t \ {Max(t)}], s[Max(t)]]
    <3>1. h[t] = UrlStep(h[t \ {Max(t)}], s[Max(t)])
      BY <1>8, <2>2
    <3> HIDE DEF Good
    <3> QED
      BY <1>2, <1>5, <2>2, <3>1
  <2> QED
    BY <2>1, <2>2 DEF FilledBy
<1> HIDE DEF Good
<1>11. PICK G \in [0..Len(s) -> Acc] : Fold(G, F, [line |-> <<>>, list |-> list], s) /\ h[DOMAIN s] = G[Len(s)]
  <2>1. F \in [Acc \X BitWord -> Acc]
    BY <1>2
  <2>2. Folded(h, Acc, F, [line |-> <<>>, list |-> list], s)
    BY <1>3, <1>10, <2>1, FoldOfTable
  <2> QED
    BY <2>2 DEF Folded
<1>12. ASSUME NEW k \in 1..Len(s) PROVE G[k] = UrlStep(G[k - 1], s[k])
  <2>1. k - 1 \in 0..Len(s)
    BY LenProperties
  <2>2. G[k - 1] \in Acc /\ s[k] \in BitWord
    BY <2>1, ElementOfSeq
  <2>3. G[k] = F[G[k - 1], s[k]]
    BY <1>11 DEF Fold
  <2> QED
    BY <1>2, <2>2, <2>3
<1>13. G[0] = [line |-> <<>>, list |-> list]
  BY <1>11 DEF Fold
<1> QED
  BY <1>9, <1>11, <1>12, <1>13

\* The steps of the first pass over s.
IsUrlPass(G, s, list) ==
  /\ G \in [0..Len(s) -> Acc]
  /\ G[0] = [line |-> <<>>, list |-> list]
  /\ \A k \in 1..Len(s) : G[k] = UrlStep(G[k - 1], s[k])
  /\ OverWords(UrlHidden, s, list) = G[Len(s)]

\* The first pass goes by steps.
LEMMA UrlPassExists ==
  ASSUME NEW s \in Seq(BitWord), NEW list \in Seq(BitWord)
  PROVE  \E G : IsUrlPass(G, s, list)
BY UrlPassIsFold DEF IsUrlPass

\* A longer list changes nothing about good words.
LEMMA UrlGoodStays ==
  ASSUME NEW word
  PROVE  UrlGood(word) \in SUBSET (BitWord \X Seq(BitWord)) /\ Stable(UrlGood(word))
<1>1. ASSUME NEW p \in UrlGood(word), NEW m \in Seq(BitWord), Longer(m, p[2])
      PROVE  <<p[1], m>> \in UrlGood(word)
  <2>1. PICK w, l : w = p[1] /\ l = p[2]
    OBVIOUS
  <2>2. /\ w \in BitWord /\ l \in Seq(BitWord) /\ w \in Seq(Findable(l))
        /\ RestoredWord(w, l) = word /\ HoleLast(w) /\ (Tears(w) <=> PathFirst(word))
    BY <2>1 DEF UrlGood
  <2>3. Longer(m, l)
    BY <1>1, <2>1
  <2>4. w \in Seq(Findable(m)) /\ RestoredWord(w, m) = RestoredWord(w, l)
    BY <2>2, <2>3, RestoredStable
  <2> QED
    BY <2>1, <2>2, <2>4 DEF UrlGood
<1> QED
  BY <1>1 DEF UrlGood, Stable

\* What the first pass over a line leaves and stashes.
LEMMA UrlsHidden ==
  ASSUME NEW line \in Seq(Seq(Plain))
  PROVE  LET a == OverWords(UrlHidden, line, <<>>)
         IN /\ a \in Acc /\ Len(a.line) = Len(line)
            /\ \A i \in 1..Len(line) : <<a.line[i], a.list>> \in UrlGood(line[i])
<1>1. PICK n : n = Len(line)
  OBVIOUS
<1>2. n \in Nat /\ \A i \in 1..n : line[i] \in Seq(Plain)
  BY <1>1, LenProperties, ElementOfSeq
<1>3. line \in Seq(BitWord)
  <2>1. Plain \subseteq Bit
    BY PlainIsSolid DEF Solid
  <2>2. Seq(Plain) \subseteq BitWord
    BY <2>1, SeqMonotonic DEF BitWord
  <2> QED
    BY <2>2, SeqMonotonic
<1>4. <<>> \in Seq(BitWord)
  OBVIOUS
<1>g. PICK G : IsUrlPass(G, line, <<>>)
  BY <1>3, <1>4, UrlPassExists
<1>5. /\ G \in [0..n -> Acc] /\ G[0] = [line |-> <<>>, list |-> <<>>]
      /\ \A k \in 1..n : G[k] = UrlStep(G[k - 1], line[k])
      /\ OverWords(UrlHidden, line, <<>>) = G[n]
  BY <1>1, <1>g DEF IsUrlPass
<1>6. PICK Good : Good = [i \in 1..n |-> UrlGood(line[i])]
  OBVIOUS
<1>7. Good \in [1..n -> SUBSET (BitWord \X Seq(BitWord))] /\ \A i \in 1..n : Stable(Good[i])
  BY <1>6, UrlGoodStays
<1>8. ASSUME NEW k \in 1..n PROVE Steps(G[k - 1], G[k], Good[k])
  <2>1. k - 1 \in 0..n /\ k \in 0..n
    BY <1>2
  <2>2. PICK a, b, w : a = G[k - 1] /\ b = G[k] /\ w = line[k]
    OBVIOUS
  <2>3. a \in Acc /\ b \in Acc /\ w \in Seq(Plain) /\ b = UrlStep(a, w) /\ Good[k] = UrlGood(w)
    BY <1>2, <1>5, <1>6, <2>1, <2>2
  <2>4. a.list \in Seq(BitWord)
    BY <2>3 DEF Acc
  <2>5. w \in BitWord
    BY <1>3, <2>2, <1>1, ElementOfSeq
  <2>6. PICK x, m : x = UrlHidden(w, a.list).word /\ m = UrlHidden(w, a.list).list
    OBVIOUS
  <2>7. <<x, m>> \in UrlGood(w)
    BY <2>3, <2>4, <2>6, UrlHides
  <2>8. Longer(m, a.list) /\ x \in BitWord
    BY <2>4, <2>5, <2>6, UrlTyped
  <2>9. b.line = Append(a.line, x) /\ b.list = m
    BY <2>3, <2>6 DEF UrlStep
  <2> QED
    BY <2>2, <2>3, <2>7, <2>8, <2>9 DEF Steps
<1>9. Passed(G[n], <<>>, n, Good)
  <2>1. IsPass(G, <<>>, n, Good)
    BY <1>5, <1>7, <1>8 DEF IsPass
  <2> QED
    BY <1>2, <1>4, <2>1, PassOver
<1> QED
  BY <1>1, <1>5, <1>6, <1>9 DEF Passed

(* _IDENT_RE.sub(stash, ...) *)
Half == [word : BitWord, list : Seq(BitWord)]

\* One piece of IdentsStashed().
IdentStep(acc, p) ==
  IF p.kind = "ident"
    THEN [word |-> Append(acc.word, Hole(Len(acc.list))), list |-> Append(acc.list, <<p>>)]
    ELSE [word |-> Append(acc.word, p), list |-> acc.list]

\* It leaves a word and a list.
LEMMA IdentsTyped ==
  ASSUME NEW acc \in Half, NEW p \in Bit
  PROVE  IdentStep(acc, p) \in Half
<1>1. acc.word \in Seq(Bit) /\ acc.list \in Seq(BitWord)
  BY DEF Half, BitWord
<1>2. Hole(Len(acc.list)) \in Bit
  BY <1>1, MadeBits, LenProperties
<1>3. \A q \in Bit : Append(acc.word, q) \in BitWord
  BY <1>1, AppendProperties DEF BitWord
<1>4. <<p>> \in BitWord
  BY DEF BitWord
<1>5. Append(acc.list, <<p>>) \in Seq(BitWord)
  BY <1>1, <1>4, AppendProperties
<1> QED
  BY <1>1, <1>2, <1>3, <1>5 DEF IdentStep, Half

\* Piece by piece.
LEMMA IdentsIsFold ==
  ASSUME NEW s \in Seq(Bit), NEW list \in Seq(BitWord)
  PROVE  \E G \in [0..Len(s) -> Half] :
           /\ G[0] = [word |-> <<>>, list |-> list]
           /\ \A k \in 1..Len(s) : G[k] = IdentStep(G[k - 1], s[k])
           /\ IdentsStashed(s, list) = G[Len(s)]
<1> DEFINE Good(h) == h = [t \in SUBSET DOMAIN s |->
                             IF t = {} THEN [word |-> <<>>, list |-> list]
                             ELSE IdentStep(h[t \ {Max(t)}], s[Max(t)])]
<1>1. PICK F : F = [p \in Half \X Bit |-> IdentStep(p[1], p[2])]
  OBVIOUS
<1>2. /\ F \in [Half \X Bit -> Half]
      /\ \A a \in Half : \A b \in Bit : F[a, b] = IdentStep(a, b)
  <2>1. \A p \in Half \X Bit : p[1] \in Half /\ p[2] \in Bit
    OBVIOUS
  <2>2. \A p \in Half \X Bit : IdentStep(p[1], p[2]) \in Half
    BY <2>1, IdentsTyped
  <2> QED
    BY <1>1, <2>2
<1>3. [word |-> <<>>, list |-> list] \in Half
  BY DEF Half, BitWord
<1>4. PICK g \in [SUBSET DOMAIN s -> Half] : FoldTable(g, F, [word |-> <<>>, list |-> list], s)
  BY <1>2, <1>3, FoldTableExists
<1>5. ASSUME NEW t \in SUBSET DOMAIN s, t # {}
      PROVE  Max(t) \in DOMAIN s /\ t \ {Max(t)} \in SUBSET DOMAIN s /\ s[Max(t)] \in Bit
  <2>1. Len(s) \in Nat /\ DOMAIN s = 1..Len(s)
    BY LenProperties
  <2>2. Max(t) \in t
    BY <1>5, <2>1, MaxIn
  <2> QED
    BY <2>1, <2>2, ElementOfSeq
<1>6. Good(g)
  <2>1. \A t \in SUBSET DOMAIN s :
          g[t] = IF t = {} THEN [word |-> <<>>, list |-> list] ELSE IdentStep(g[t \ {Max(t)}], s[Max(t)])
    <3> SUFFICES ASSUME NEW t \in SUBSET DOMAIN s
                 PROVE  g[t] = IF t = {} THEN [word |-> <<>>, list |-> list]
                               ELSE IdentStep(g[t \ {Max(t)}], s[Max(t)])
      OBVIOUS
    <3>1. CASE t = {}
      BY <1>4, <3>1 DEF FoldTable
    <3>2. CASE t # {}
      <4>1. g[t] = F[g[t \ {Max(t)}], s[Max(t)]]
        BY <1>4, <3>2 DEF FoldTable
      <4>2. g[t \ {Max(t)}] \in Half /\ s[Max(t)] \in Bit
        BY <1>5, <3>2
      <4> QED
        BY <1>2, <3>2, <4>1, <4>2
    <3> QED
      BY <3>1, <3>2
  <2> QED
    BY <2>1, Zenon
<1>7. PICK h : h = CHOOSE f : Good(f)
  OBVIOUS
<1>8. Good(h)
  <2> HIDE DEF Good
  <2> QED
    BY <1>6, <1>7, Zenon
<1>9. IdentsStashed(s, list) = h[DOMAIN s]
  BY <1>7 DEF IdentsStashed, IdentStep, FoldLeft, MapThenFoldSet
<1>10. FilledBy(h, Half, F, [word |-> <<>>, list |-> list], s)
  <2>1. h[{}] = [word |-> <<>>, list |-> list]
    BY <1>8
  <2>2. ASSUME NEW t \in SUBSET DOMAIN s, t # {}, h[t \ {Max(t)}] \in Half
        PROVE  h[t] = F[h[t \ {Max(t)}], s[Max(t)]]
    <3>1. h[t] = IdentStep(h[t \ {Max(t)}], s[Max(t)])
      BY <1>8, <2>2
    <3> HIDE DEF Good
    <3> QED
      BY <1>2, <1>5, <2>2, <3>1
  <2> QED
    BY <2>1, <2>2 DEF FilledBy
<1> HIDE DEF Good
<1>11. PICK G \in [0..Len(s) -> Half] : Fold(G, F, [word |-> <<>>, list |-> list], s) /\ h[DOMAIN s] = G[Len(s)]
  <2>1. F \in [Half \X Bit -> Half]
    BY <1>2
  <2>2. Folded(h, Half, F, [word |-> <<>>, list |-> list], s)
    BY <1>3, <1>10, <2>1, FoldOfTable
  <2> QED
    BY <2>2 DEF Folded
<1>12. ASSUME NEW k \in 1..Len(s) PROVE G[k] = IdentStep(G[k - 1], s[k])
  <2>1. k - 1 \in 0..Len(s)
    BY LenProperties
  <2>2. G[k - 1] \in Half /\ s[k] \in Bit
    BY <2>1, ElementOfSeq
  <2>3. G[k] = F[G[k - 1], s[k]]
    BY <1>11 DEF Fold
  <2> QED
    BY <1>2, <2>2, <2>3
<1>13. G[0] = [word |-> <<>>, list |-> list]
  BY <1>11 DEF Fold
<1> QED
  BY <1>9, <1>11, <1>12, <1>13

\* The steps of IdentsStashed() over s.
IsIdents(G, s, list) ==
  /\ G \in [0..Len(s) -> Half]
  /\ G[0] = [word |-> <<>>, list |-> list]
  /\ \A k \in 1..Len(s) : G[k] = IdentStep(G[k - 1], s[k])
  /\ IdentsStashed(s, list) = G[Len(s)]

\* IdentsStashed() goes by steps.
LEMMA IdentsExist ==
  ASSUME NEW s \in Seq(Bit), NEW list \in Seq(BitWord)
  PROVE  \E G : IsIdents(G, s, list)
BY IdentsIsFold DEF IsIdents

\* A half-made word that stands for w under the list it started from.
StandsFor(g, w, list) ==
  /\ g \in Half /\ Longer(g.list, list) /\ g.word \in Seq(Findable(g.list))
  /\ RestoredWord(g.word, g.list) = RestoredWord(w, list)

\* A step keeps a half-made word standing for what was read,
LEMMA IdentStands ==
  ASSUME NEW list \in Seq(BitWord), NEW w \in Seq(Findable(list)), NEW a, StandsFor(a, w, list),
         NEW p \in Findable(list)
  PROVE  StandsFor(IdentStep(a, p), Append(w, p), list)
<1>1. PICK x, l : x = a.word /\ l = a.list
  OBVIOUS
<1>2. /\ l \in Seq(BitWord) /\ x \in BitWord /\ Longer(l, list) /\ x \in Seq(Findable(l))
      /\ RestoredWord(x, l) = RestoredWord(w, list) /\ a \in Half
  BY <1>1 DEF StandsFor, Half
<1>3. p \in Bit
  BY DEF Findable
<1>4. PICK b : b = IdentStep(a, p)
  OBVIOUS
<1>5. b \in Half
  BY <1>2, <1>3, <1>4, IdentsTyped
<1>6. RestoredWord(Append(w, p), list) = RestoredWord(w, list) \o Puts(list)[p]
  BY PutsParts
<1>7. CASE p.kind = "ident"
  <2>1. PICK m, v : m = Append(l, <<p>>) /\ v = Append(x, Hole(Len(l)))
    OBVIOUS
  <2>2. <<p>> \in BitWord
    BY <1>3 DEF BitWord
  <2>3. /\ m \in Seq(BitWord) /\ Longer(m, l) /\ v \in Seq(Findable(m))
        /\ RestoredWord(v, m) = RestoredWord(x, l) \o <<p>>
    BY <1>2, <2>1, <2>2, StashedIsPutBack
  <2>4. b.word = v /\ b.list = m
    BY <1>1, <1>4, <1>7, <2>1 DEF IdentStep
  <2>5. Longer(m, list)
    BY <1>2, <2>3, LongerParts
  <2>6. Puts(list)[p] = <<p>>
    BY <1>7 DEF Puts
  <2> QED
    BY <1>2, <1>4, <1>5, <1>6, <2>3, <2>4, <2>5, <2>6 DEF StandsFor
<1>8. CASE p.kind # "ident"
  <2>1. p \in Findable(l) /\ Puts(l)[p] = Puts(list)[p]
    BY <1>2, FoundStable
  <2>2. /\ Append(x, p) \in Seq(Findable(l))
        /\ RestoredWord(Append(x, p), l) = RestoredWord(x, l) \o Puts(l)[p]
    BY <1>2, <2>1, PutsParts
  <2>3. b.word = Append(x, p) /\ b.list = l
    BY <1>1, <1>4, <1>8 DEF IdentStep
  <2> QED
    BY <1>2, <1>4, <1>5, <1>6, <2>1, <2>2, <2>3 DEF StandsFor
<1> QED
  BY <1>7, <1>8

\* so that in the end it stands for the whole word.
LEMMA IdentsStand ==
  ASSUME NEW list \in Seq(BitWord), NEW w \in Seq(Findable(list))
  PROVE  StandsFor(IdentsStashed(w, list), w, list)
<1>1. w \in Seq(Bit)
  BY RestoredIs DEF BitWord
<1>2. PICK n : n = Len(w)
  OBVIOUS
<1>3. n \in Nat
  BY <1>1, <1>2, LenProperties
<1>4. PICK G : IsIdents(G, w, list)
  BY <1>1, IdentsExist
<1>5. /\ G \in [0..n -> Half] /\ G[0] = [word |-> <<>>, list |-> list]
      /\ \A k \in 1..n : G[k] = IdentStep(G[k - 1], w[k])
      /\ IdentsStashed(w, list) = G[n]
  BY <1>2, <1>4 DEF IsIdents
<1> DEFINE P == {k \in 0..n : StandsFor(G[k], SubSeq(w, 1, k), list)}
<1>6. 0 \in P
  <2>1. SubSeq(w, 1, 0) = <<>>
    BY SubSeqEmpty
  <2>2. 0 \in 0..n
    BY <1>3
  <2>3. G[0] \in Half /\ G[0].word = <<>> /\ G[0].list = list
    BY <1>5, <2>2
  <2>4. Longer(list, list) /\ <<>> \in Seq(Findable(list))
    BY LongerParts
  <2>5. StandsFor(G[0], <<>>, list)
    BY <2>3, <2>4 DEF StandsFor
  <2>6. StandsFor(G[0], SubSeq(w, 1, 0), list)
    BY <2>1, <2>5
  <2> QED
    BY <2>2, <2>6
<1>7. ASSUME NEW k \in 1..n, k - 1 \in P PROVE k \in P
  <2>1. StandsFor(G[k - 1], SubSeq(w, 1, k - 1), list)
    BY <1>7
  <2>2. k \in 0..n
    BY <1>3
  <2> HIDE DEF P
  <2>3. PICK S : S = Findable(list)
    OBVIOUS
  <2>4. w \in Seq(S) /\ k \in 1..Len(w)
    BY <1>2, <2>3
  <2>5. /\ SubSeq(w, 1, k - 1) \in Seq(S) /\ w[k] \in S
        /\ SubSeq(w, 1, k) = Append(SubSeq(w, 1, k - 1), w[k])
    BY <2>4, PrefixGrows
  <2>6. PICK a, v, p : a = G[k - 1] /\ v = SubSeq(w, 1, k - 1) /\ p = w[k]
    OBVIOUS
  <2>7. v \in Seq(Findable(list)) /\ p \in Findable(list) /\ StandsFor(a, v, list)
    BY <2>1, <2>3, <2>5, <2>6
  <2>8. StandsFor(IdentStep(a, p), Append(v, p), list)
    BY <2>7, IdentStands
  <2>9. StandsFor(G[k], SubSeq(w, 1, k), list)
    BY <1>5, <2>5, <2>6, <2>8
  <2> QED
    BY <2>2, <2>9 DEF P
<1>8. n \in 0..n
  BY <1>3
<1>9. n \in P
  <2> HIDE DEF P
  <2> QED
    BY <1>3, <1>6, <1>7, <1>8, UpTo
<1>10. SubSeq(w, 1, n) = w
  BY <1>1, <1>2, SubSeqFull
<1>11. StandsFor(G[n], SubSeq(w, 1, n), list)
  BY <1>9
<1> QED
  BY <1>5, <1>10, <1>11

\* Where the path of a word begins,
PathFrom(word) == IF PathStart(word) = {} THEN Len(word) + 1 ELSE Min(PathStart(word))
\* the path,
PathOf(word) == SubSeq(word, PathFrom(word), Len(word))
\* and what is before it.
BeforePath(word) == SubSeq(word, 1, PathFrom(word) - 1)

\* A word is what is before its path, and the path.
LEMMA PathParts ==
  ASSUME NEW S, NEW word \in Seq(S)
  PROVE  /\ PathFrom(word) \in 1..(Len(word) + 1)
         /\ BeforePath(word) \in Seq(S) /\ PathOf(word) \in Seq(S)
         /\ word = BeforePath(word) \o PathOf(word)
         /\ PathOf(word) = <<>> <=> PathStart(word) = {}
         /\ PathOf(word) # <<>> => Last(PathOf(word)) = Last(word)
         /\ \A j \in 1..Len(PathOf(word)) :
              PathFrom(word) + j - 1 \in 1..Len(word)
              /\ PathOf(word)[j] = word[PathFrom(word) + j - 1]
<1>1. PICK n, i : n = Len(word) /\ i = PathFrom(word)
  OBVIOUS
<1>2. n \in Nat
  BY <1>1, LenProperties
<1>3. i \in 1..(n + 1) /\ (i = n + 1 <=> PathStart(word) = {})
  <2>1. CASE PathStart(word) = {}
    BY <1>1, <1>2, <2>1 DEF PathFrom
  <2>2. CASE PathStart(word) # {}
    <3>1. PathStart(word) \in SUBSET (1..n)
      BY <1>1, <1>2 DEF PathStart
    <3>2. Min(PathStart(word)) \in PathStart(word)
      BY <1>2, <2>2, <3>1, FirstPlace
    <3>3. i \in 1..n
      BY <1>1, <2>2, <3>1, <3>2 DEF PathFrom
    <3> QED
      BY <1>2, <2>2, <3>3
  <2> QED
    BY <2>1, <2>2
<1>4. PICK a, b : a = BeforePath(word) /\ b = PathOf(word)
  OBVIOUS
<1>5. /\ a \in Seq(S) /\ b \in Seq(S) /\ word = a \o b /\ Len(b) = n - i + 1
      /\ \A j \in 1..(n - i + 1) : b[j] = word[i + j - 1]
  BY <1>1, <1>3, <1>4, CutInTwo DEF BeforePath, PathOf
<1>6. b = <<>> <=> i = n + 1
  <2>1. b = <<>> <=> Len(b) = 0
    BY <1>5, EmptySeq
  <2> QED
    BY <1>2, <1>3, <1>5, <2>1
<1>7. ASSUME b # <<>> PROVE Last(b) = Last(word)
  <2>1. n - i + 1 \in 1..(n - i + 1) /\ i + (n - i + 1) - 1 = n
    BY <1>2, <1>3, <1>6, <1>7
  <2>2. b[n - i + 1] = word[n]
    BY <1>5, <2>1
  <2> QED
    BY <1>1, <1>5, <2>2 DEF Last
<1>8. \A j \in 1..Len(b) : i + j - 1 \in 1..n /\ b[j] = word[i + j - 1]
  <2>1. Len(b) = n - i + 1 /\ \A j \in 1..(n - i + 1) : b[j] = word[i + j - 1]
    BY <1>5
  <2>2. \A j \in 1..(n - i + 1) : i + j - 1 \in 1..n
    BY <1>2, <1>3
  <2> QED
    BY <2>1, <2>2
<1>9. PathFrom(word) \in 1..(Len(word) + 1)
  BY <1>1, <1>3
<1>10. /\ BeforePath(word) \in Seq(S) /\ PathOf(word) \in Seq(S)
       /\ word = BeforePath(word) \o PathOf(word)
  BY <1>4, <1>5
<1>11. (PathOf(word) = <<>> <=> PathStart(word) = {})
       /\ (PathOf(word) # <<>> => Last(PathOf(word)) = Last(word))
  BY <1>3, <1>4, <1>6, <1>7
<1>12. \A j \in 1..Len(PathOf(word)) :
         PathFrom(word) + j - 1 \in 1..Len(word)
         /\ PathOf(word)[j] = word[PathFrom(word) + j - 1]
  BY <1>1, <1>4, <1>8
<1> QED
  BY <1>9, <1>10, <1>11, <1>12

\* The three cases of IdentsHidden().
LEMMA IdentsHiddenIs ==
  ASSUME NEW word \in BitWord, NEW list \in Seq(BitWord)
  PROVE  LET g == IdentsStashed(BeforePath(word), list)
             k == Hole(Len(g.list))
         IN /\ PathStart(word) = {} => IdentsHidden(word, list) = g
            /\ PathStart(word) # {} /\ ~Tears(word) =>
                 IdentsHidden(word, list)
                   = [word |-> Append(g.word, k) \o <<>>, list |-> Append(g.list, PathOf(word))]
            /\ Tears(word) =>
                 IdentsHidden(word, list)
                   = [word |-> Append(g.word, k) \o <<Nul>>,
                      list |-> Append(g.list, Append(Front(PathOf(word)),
                                                     Stump(Last(PathOf(word)).at)))]
<1>1. word \in Seq(Bit)
  BY DEF BitWord
<1>2. PICK path : path = PathOf(word)
  OBVIOUS
<1>3. (path = <<>> <=> PathStart(word) = {}) /\ (path # <<>> => Last(path) = Last(word))
  BY <1>1, <1>2, PathParts
<1>4. PICK g : g = IdentsStashed(BeforePath(word), list)
  OBVIOUS
<1>5. IdentsHidden(word, list) =
        IF path = <<>> THEN g
        ELSE [word |-> Append(g.word, Hole(Len(g.list)))
                         \o (IF path # <<>> /\ Last(path).kind = "hole" THEN <<Nul>> ELSE <<>>),
              list |-> Append(g.list,
                              IF path # <<>> /\ Last(path).kind = "hole"
                                THEN Append(Front(path), Stump(Last(path).at)) ELSE path)]
  BY <1>2, <1>4 DEF IdentsHidden, PathOf, BeforePath, PathFrom
<1>6. CASE PathStart(word) = {}
  <2>1. IdentsHidden(word, list) = g /\ ~Tears(word)
    BY <1>3, <1>5, <1>6 DEF Tears
  <2> QED
    BY <1>4, <1>6, <2>1
<1>7. CASE Tears(word)
  <2>1. path # <<>> /\ Last(path).kind = "hole" /\ PathStart(word) # {}
    BY <1>3, <1>7 DEF Tears
  <2>2. IdentsHidden(word, list)
          = [word |-> Append(g.word, Hole(Len(g.list))) \o <<Nul>>,
             list |-> Append(g.list, Append(Front(path), Stump(Last(path).at)))]
    BY <1>5, <2>1
  <2> QED
    BY <1>2, <1>4, <1>7, <2>1, <2>2
<1>8. CASE PathStart(word) # {} /\ ~Tears(word)
  <2>1. path # <<>> /\ ~(Last(path).kind = "hole")
    BY <1>3, <1>8 DEF Tears
  <2>2. IdentsHidden(word, list)
          = [word |-> Append(g.word, Hole(Len(g.list))) \o <<>>, list |-> Append(g.list, path)]
    BY <1>5, <2>1
  <2> QED
    BY <1>2, <1>4, <1>8, <2>2
<1> QED
  BY <1>6, <1>7, <1>8

\* A word and a list are left.
LEMMA IdentsHiddenTyped ==
  ASSUME NEW word \in BitWord, NEW list \in Seq(BitWord)
  PROVE  IdentsHidden(word, list) \in Half
<1>1. word \in Seq(Bit)
  BY DEF BitWord
<1>2. PICK path, pre : path = PathOf(word) /\ pre = BeforePath(word)
  OBVIOUS
<1>3. /\ pre \in Seq(Bit) /\ path \in Seq(Bit)
      /\ (path = <<>> <=> PathStart(word) = {})
      /\ (path # <<>> => Last(path) = Last(word))
  BY <1>1, <1>2, PathParts
<1>4. PICK g : g = IdentsStashed(pre, list)
  OBVIOUS
<1>5. g \in Half
  <2>1. PICK G : IsIdents(G, pre, list)
    BY <1>3, IdentsExist
  <2>2. Len(pre) \in 0..Len(pre)
    BY <1>3, LenProperties
  <2> QED
    BY <1>4, <2>1, <2>2 DEF IsIdents
<1>6. g.word \in Seq(Bit) /\ g.list \in Seq(BitWord) /\ Hole(Len(g.list)) \in Bit
  <2>1. g.word \in Seq(Bit) /\ g.list \in Seq(BitWord)
    BY <1>5 DEF Half, BitWord
  <2> QED
    BY <2>1, MadeBits, LenProperties
<1>7. PICK v : v = Append(g.word, Hole(Len(g.list)))
  OBVIOUS
<1>8. v \in Seq(Bit)
  BY <1>6, <1>7, AppendProperties
<1>9. v \o <<>> \in BitWord /\ v \o <<Nul>> \in BitWord
  <2>1. <<>> \in Seq(Bit) /\ <<Nul>> \in Seq(Bit)
    BY MadeBits
  <2> QED
    BY <1>8, <2>1, ConcatProperties DEF BitWord
<1>10. \A x \in BitWord : Append(g.list, x) \in Seq(BitWord)
  BY <1>6, AppendProperties
<1>11. path \in BitWord
  BY <1>3 DEF BitWord
<1>12. ASSUME Tears(word) PROVE Append(Front(path), Stump(Last(path).at)) \in BitWord
  <2>1. path # <<>> /\ Last(path).kind = "hole"
    BY <1>3, <1>12 DEF Tears
  <2>2. Front(path) \in Seq(Bit) /\ Last(path) \in Bit
    BY <1>3, <2>1, FrontAndLast
  <2>3. Last(path).at \in Nat
    BY <2>1, <2>2, BitParts
  <2>4. Stump(Last(path).at) \in Bit
    BY <2>3, MadeBits
  <2> QED
    BY <2>2, <2>4, AppendProperties DEF BitWord
<1>13. CASE PathStart(word) = {}
  BY <1>2, <1>4, <1>5, <1>13, IdentsHiddenIs
<1>14. CASE PathStart(word) # {} /\ ~Tears(word)
  <2>1. IdentsHidden(word, list) = [word |-> v \o <<>>, list |-> Append(g.list, path)]
    BY <1>2, <1>4, <1>7, <1>14, IdentsHiddenIs
  <2> QED
    BY <1>9, <1>10, <1>11, <2>1 DEF Half
<1>15. CASE Tears(word)
  <2>1. IdentsHidden(word, list)
          = [word |-> v \o <<Nul>>,
             list |-> Append(g.list, Append(Front(path), Stump(Last(path).at)))]
    BY <1>2, <1>4, <1>7, <1>15, IdentsHiddenIs
  <2> QED
    BY <1>9, <1>10, <1>12, <1>15, <2>1 DEF Half
<1> QED
  BY <1>13, <1>14, <1>15

\* What may stand for a word after the second substitution: a word that is
\* restored, or one that a NUL sticks out of.
IdentGood(word, torn) ==
  {p \in BitWord \X Seq(BitWord) :
     /\ p[1] \in Seq(Findable(p[2]))
     /\ IF torn THEN Has(RestoredWord(p[1], p[2]), Nul) ELSE RestoredWord(p[1], p[2]) = word}

\* A longer list changes nothing about them.
LEMMA IdentGoodStays ==
  ASSUME NEW word, NEW torn
  PROVE  /\ IdentGood(word, torn) \in SUBSET (BitWord \X Seq(BitWord))
         /\ Stable(IdentGood(word, torn))
<1>1. ASSUME NEW p \in IdentGood(word, torn), NEW m \in Seq(BitWord), Longer(m, p[2])
      PROVE  <<p[1], m>> \in IdentGood(word, torn)
  <2>1. PICK w, l : w = p[1] /\ l = p[2]
    OBVIOUS
  <2>2. /\ w \in BitWord /\ l \in Seq(BitWord) /\ w \in Seq(Findable(l))
        /\ IF torn THEN Has(RestoredWord(w, l), Nul) ELSE RestoredWord(w, l) = word
    BY <2>1 DEF IdentGood
  <2>3. Longer(m, l)
    BY <1>1, <2>1
  <2>4. w \in Seq(Findable(m)) /\ RestoredWord(w, m) = RestoredWord(w, l)
    BY <2>2, <2>3, RestoredStable
  <2> QED
    BY <2>1, <2>2, <2>4 DEF IdentGood
<1> QED
  BY <1>1 DEF IdentGood, Stable

\* IdentsHidden() can be undone, unless it tears a placeholder.
LEMMA IdentsHide ==
  ASSUME NEW list \in Seq(BitWord), NEW word \in Seq(Findable(list)), HoleLast(word)
  PROVE  LET h == IdentsHidden(word, list)
         IN /\ Longer(h.list, list)
            /\ <<h.word, h.list>> \in IdentGood(RestoredWord(word, list), Tears(word))
<1>0. word \in BitWord
  BY RestoredIs
<1>1. PICK path, pre, S : path = PathOf(word) /\ pre = BeforePath(word) /\ S = Findable(list)
  OBVIOUS
<1>2. word \in Seq(S)
  BY <1>1
<1>3. /\ pre \in Seq(S) /\ path \in Seq(S) /\ word = pre \o path
      /\ path = <<>> <=> PathStart(word) = {}
      /\ path # <<>> => Last(path) = Last(word)
      /\ \A j \in 1..Len(path) :
           PathFrom(word) + j - 1 \in 1..Len(word) /\ path[j] = word[PathFrom(word) + j - 1]
  BY <1>1, <1>2, PathParts
<1>4. PICK g, h : g = IdentsStashed(pre, list) /\ h = IdentsHidden(word, list)
  OBVIOUS
<1>5. pre \in Seq(Findable(list)) /\ path \in Seq(Findable(list))
  BY <1>1, <1>3
<1>6. StandsFor(g, pre, list)
  BY <1>4, <1>5, IdentsStand
<1>7. PICK x, l : x = g.word /\ l = g.list
  OBVIOUS
<1>8. /\ x \in BitWord /\ l \in Seq(BitWord) /\ Longer(l, list) /\ x \in Seq(Findable(l))
      /\ RestoredWord(x, l) = RestoredWord(pre, list)
  BY <1>6, <1>7 DEF StandsFor, Half
<1>9. h.word \in BitWord /\ h.list \in Seq(BitWord)
  BY <1>0, <1>4, IdentsHiddenTyped DEF Half
<1>10. RestoredWord(word, list) = RestoredWord(pre, list) \o RestoredWord(path, list)
  BY <1>3, <1>5, PutsParts
<1>11. path \in BitWord
  BY <1>5, RestoredIs
<1>12. PICK v : v = Append(x, Hole(Len(l)))
  OBVIOUS
<1>13. CASE PathStart(word) = {}
  <2>1. h = g /\ ~Tears(word) /\ path = <<>>
    BY <1>0, <1>1, <1>3, <1>4, <1>13, IdentsHiddenIs DEF Tears
  <2>2. word = pre
    <3>1. pre \o <<>> = pre
      BY <1>5, ConcatEmptySeq
    <3> QED
      BY <1>3, <2>1, <3>1
  <2> QED
    BY <1>4, <1>7, <1>8, <1>9, <2>1, <2>2 DEF IdentGood
<1>14. CASE PathStart(word) # {} /\ ~Tears(word)
  <2>1. h = [word |-> Append(x, Hole(Len(l))) \o <<>>, list |-> Append(l, path)]
    BY <1>0, <1>1, <1>4, <1>7, <1>14, IdentsHiddenIs
  <2>2. PICK m : m = Append(l, path)
    OBVIOUS
  <2>3. /\ m \in Seq(BitWord) /\ Longer(m, l) /\ v \in Seq(Findable(m))
        /\ RestoredWord(v, m) = RestoredWord(x, l) \o path
    BY <1>8, <1>11, <1>12, <2>2, StashedIsPutBack
  <2>4. v \o <<>> = v
    BY <2>3, ConcatEmptySeq
  <2>5. h.word = v /\ h.list = m
    BY <1>12, <2>1, <2>2, <2>4
  <2>6. RestoredWord(path, list) = path
    <3>1. \A j \in 1..Len(path) : path[j] \in Solid
      <4> SUFFICES ASSUME NEW j \in 1..Len(path) PROVE path[j] \in Solid
        OBVIOUS
      <4>1. path[j] \in Bit
        BY <1>5, ElementOfSeq DEF Findable
      <4>2. path # <<>>
        BY <1>3, <1>14
      <4>3. PICK i : i = PathFrom(word) + j - 1
        OBVIOUS
      <4>4. i \in 1..Len(word) /\ path[j] = word[i]
        BY <1>3, <4>3
      <4>5. path[j].kind = "hole" => FALSE
        <5> SUFFICES ASSUME path[j].kind = "hole" PROVE FALSE
          OBVIOUS
        <5>1. i = Len(word)
          BY <4>4 DEF HoleLast
        <5>2. Last(word).kind = "hole"
          BY <4>4, <5>1 DEF Last
        <5> QED
          BY <1>14, <5>2 DEF Tears
      <4> QED
        BY <4>1, <4>5 DEF Solid
    <3>2. Len(path) \in Nat /\ path \in [1..Len(path) -> S]
      BY <1>3, LenProperties
    <3>3. path \in [1..Len(path) -> Solid]
      BY <3>1, <3>2
    <3>4. path \in Seq(Solid)
      BY <3>2, <3>3, SeqDef
    <3> QED
      BY <3>4, SolidStays
  <2>7. Longer(m, list)
    BY <1>8, <2>3, LongerParts
  <2> QED
    BY <1>4, <1>8, <1>9, <1>10, <1>14, <2>3, <2>5, <2>6, <2>7 DEF IdentGood
<1>15. CASE Tears(word)
  <2>1. PICK y : y = Append(Front(path), Stump(Last(path).at))
    OBVIOUS
  <2>2. h = [word |-> Append(x, Hole(Len(l))) \o <<Nul>>, list |-> Append(l, y)]
    BY <1>0, <1>1, <1>4, <1>7, <1>15, <2>1, IdentsHiddenIs
  <2>3. y \in BitWord
    <3>1. path # <<>> /\ Last(path).kind = "hole"
      BY <1>3, <1>15 DEF Tears
    <3>2. path \in Seq(Bit)
      BY <1>11 DEF BitWord
    <3>3. Front(path) \in Seq(Bit) /\ Last(path) \in Bit
      BY <3>1, <3>2, FrontAndLast
    <3>4. Last(path).at \in Nat
      BY <3>1, <3>3, BitParts
    <3>5. Stump(Last(path).at) \in Bit
      BY <3>4, MadeBits
    <3> QED
      BY <2>1, <3>3, <3>5, AppendProperties DEF BitWord
  <2>4. PICK m : m = Append(l, y)
    OBVIOUS
  <2>5. /\ m \in Seq(BitWord) /\ Longer(m, l) /\ v \in Seq(Findable(m))
        /\ RestoredWord(v, m) = RestoredWord(x, l) \o y
    BY <1>8, <1>12, <2>3, <2>4, StashedIsPutBack
  <2>6. Nul \in Findable(m) /\ Puts(m)[Nul] = <<Nul>>
    <3>1. Nul \in Bit /\ Nul.kind # "hole"
      BY MadeBits DEF Nul
    <3>2. Nul \in Findable(m)
      BY <3>1 DEF Findable
    <3> QED
      BY <3>1, <3>2 DEF Puts
  <2>7. /\ Append(v, Nul) \in Seq(Findable(m))
        /\ RestoredWord(Append(v, Nul), m) = RestoredWord(v, m) \o <<Nul>>
    BY <2>5, <2>6, PutsParts
  <2>8. v \o <<Nul>> = Append(v, Nul)
    BY <2>5, <2>6, AppendIsConcat
  <2>9. h.word = Append(v, Nul) /\ h.list = m
    BY <1>12, <2>2, <2>4, <2>8
  <2>10. Has(RestoredWord(v, m) \o <<Nul>>, Nul)
    <3>1. PICK u : u = RestoredWord(v, m)
      OBVIOUS
    <3>2. u \in Seq(Bit)
      BY <2>5, <3>1, RestoredIs DEF BitWord
    <3>3. Nul \in Bit
      BY MadeBits
    <3>4. /\ Append(u, Nul) \in Seq(Bit) /\ Len(Append(u, Nul)) = Len(u) + 1
          /\ Append(u, Nul)[Len(u) + 1] = Nul
      BY <3>2, <3>3, AppendProperties
    <3>5. u \o <<Nul>> = Append(u, Nul)
      BY <3>2, <3>3, AppendIsConcat
    <3>6. Len(u) + 1 \in 1..(Len(u) + 1)
      BY <3>2, LenProperties
    <3> QED
      BY <3>1, <3>4, <3>5, <3>6 DEF Has
  <2>11. Longer(m, list)
    BY <1>8, <2>5, LongerParts
  <2> QED
    BY <1>4, <1>9, <1>15, <2>7, <2>9, <2>10, <2>11 DEF IdentGood
<1> QED
  BY <1>13, <1>14, <1>15

\* One word of the second pass.
WordStep(acc, word) ==
  [line |-> Append(acc.line, IdentsHidden(word, acc.list).word),
   list |-> IdentsHidden(word, acc.list).list]

\* It is a step within what a pass is made of.
LEMMA IdentPassTyped ==
  ASSUME NEW acc \in Acc, NEW word \in BitWord
  PROVE  WordStep(acc, word) \in Acc
<1>1. acc.line \in Seq(BitWord) /\ acc.list \in Seq(BitWord)
  BY DEF Acc, BitLine
<1>2. IdentsHidden(word, acc.list).word \in BitWord
      /\ IdentsHidden(word, acc.list).list \in Seq(BitWord)
  BY <1>1, IdentsHiddenTyped DEF Half
<1>3. Append(acc.line, IdentsHidden(word, acc.list).word) \in BitLine
  BY <1>1, <1>2, AppendProperties DEF BitLine
<1> QED
  BY <1>2, <1>3 DEF WordStep, Acc

\* The second pass, word by word.
LEMMA IdentPassIsFold ==
  ASSUME NEW s \in Seq(BitWord), NEW list \in Seq(BitWord)
  PROVE  \E G \in [0..Len(s) -> Acc] :
           /\ G[0] = [line |-> <<>>, list |-> list]
           /\ \A k \in 1..Len(s) : G[k] = WordStep(G[k - 1], s[k])
           /\ OverWords(IdentsHidden, s, list) = G[Len(s)]
<1> DEFINE Good(h) == h = [t \in SUBSET DOMAIN s |->
                             IF t = {} THEN [line |-> <<>>, list |-> list]
                             ELSE WordStep(h[t \ {Max(t)}], s[Max(t)])]
<1>1. PICK F : F = [p \in Acc \X BitWord |-> WordStep(p[1], p[2])]
  OBVIOUS
<1>2. /\ F \in [Acc \X BitWord -> Acc]
      /\ \A a \in Acc : \A b \in BitWord : F[a, b] = WordStep(a, b)
  <2>1. \A p \in Acc \X BitWord : p[1] \in Acc /\ p[2] \in BitWord
    OBVIOUS
  <2>2. \A p \in Acc \X BitWord : WordStep(p[1], p[2]) \in Acc
    BY <2>1, IdentPassTyped
  <2> QED
    BY <1>1, <2>2
<1>3. [line |-> <<>>, list |-> list] \in Acc
  BY DEF Acc, BitLine
<1>4. PICK g \in [SUBSET DOMAIN s -> Acc] : FoldTable(g, F, [line |-> <<>>, list |-> list], s)
  BY <1>2, <1>3, FoldTableExists
<1>5. ASSUME NEW t \in SUBSET DOMAIN s, t # {}
      PROVE  Max(t) \in DOMAIN s /\ t \ {Max(t)} \in SUBSET DOMAIN s /\ s[Max(t)] \in BitWord
  <2>1. Len(s) \in Nat /\ DOMAIN s = 1..Len(s)
    BY LenProperties
  <2>2. Max(t) \in t
    BY <1>5, <2>1, MaxIn
  <2> QED
    BY <2>1, <2>2, ElementOfSeq
<1>6. Good(g)
  <2>1. \A t \in SUBSET DOMAIN s :
          g[t] = IF t = {} THEN [line |-> <<>>, list |-> list] ELSE WordStep(g[t \ {Max(t)}], s[Max(t)])
    <3> SUFFICES ASSUME NEW t \in SUBSET DOMAIN s
                 PROVE  g[t] = IF t = {} THEN [line |-> <<>>, list |-> list]
                               ELSE WordStep(g[t \ {Max(t)}], s[Max(t)])
      OBVIOUS
    <3>1. CASE t = {}
      BY <1>4, <3>1 DEF FoldTable
    <3>2. CASE t # {}
      <4>1. g[t] = F[g[t \ {Max(t)}], s[Max(t)]]
        BY <1>4, <3>2 DEF FoldTable
      <4>2. g[t \ {Max(t)}] \in Acc /\ s[Max(t)] \in BitWord
        BY <1>5, <3>2
      <4> QED
        BY <1>2, <3>2, <4>1, <4>2
    <3> QED
      BY <3>1, <3>2
  <2> QED
    BY <2>1, Zenon
<1>7. PICK h : h = CHOOSE f : Good(f)
  OBVIOUS
<1>8. Good(h)
  <2> HIDE DEF Good
  <2> QED
    BY <1>6, <1>7, Zenon
<1>9. OverWords(IdentsHidden, s, list) = h[DOMAIN s]
  BY <1>7 DEF OverWords, WordStep, FoldLeft, MapThenFoldSet
<1>10. FilledBy(h, Acc, F, [line |-> <<>>, list |-> list], s)
  <2>1. h[{}] = [line |-> <<>>, list |-> list]
    BY <1>8
  <2>2. ASSUME NEW t \in SUBSET DOMAIN s, t # {}, h[t \ {Max(t)}] \in Acc
        PROVE  h[t] = F[h[t \ {Max(t)}], s[Max(t)]]
    <3>1. h[t] = WordStep(h[t \ {Max(t)}], s[Max(t)])
      BY <1>8, <2>2
    <3> HIDE DEF Good
    <3> QED
      BY <1>2, <1>5, <2>2, <3>1
  <2> QED
    BY <2>1, <2>2 DEF FilledBy
<1> HIDE DEF Good
<1>11. PICK G \in [0..Len(s) -> Acc] : Fold(G, F, [line |-> <<>>, list |-> list], s) /\ h[DOMAIN s] = G[Len(s)]
  <2>1. F \in [Acc \X BitWord -> Acc]
    BY <1>2
  <2>2. Folded(h, Acc, F, [line |-> <<>>, list |-> list], s)
    BY <1>3, <1>10, <2>1, FoldOfTable
  <2> QED
    BY <2>2 DEF Folded
<1>12. ASSUME NEW k \in 1..Len(s) PROVE G[k] = WordStep(G[k - 1], s[k])
  <2>1. k - 1 \in 0..Len(s)
    BY LenProperties
  <2>2. G[k - 1] \in Acc /\ s[k] \in BitWord
    BY <2>1, ElementOfSeq
  <2>3. G[k] = F[G[k - 1], s[k]]
    BY <1>11 DEF Fold
  <2> QED
    BY <1>2, <2>2, <2>3
<1>13. G[0] = [line |-> <<>>, list |-> list]
  BY <1>11 DEF Fold
<1> QED
  BY <1>9, <1>11, <1>12, <1>13

\* The steps of the second pass over s.
IsIdentPass(G, s, list) ==
  /\ G \in [0..Len(s) -> Acc]
  /\ G[0] = [line |-> <<>>, list |-> list]
  /\ \A k \in 1..Len(s) : G[k] = WordStep(G[k - 1], s[k])
  /\ OverWords(IdentsHidden, s, list) = G[Len(s)]

\* The second pass goes by steps.
LEMMA IdentPassExists ==
  ASSUME NEW s \in Seq(BitWord), NEW list \in Seq(BitWord)
  PROVE  \E G : IsIdentPass(G, s, list)
BY IdentPassIsFold DEF IsIdentPass

\* What the second pass leaves and stashes.
LEMMA IdentsHiddenInLine ==
  ASSUME NEW list \in Seq(BitWord), NEW line \in Seq(Seq(Findable(list))),
         \A i \in 1..Len(line) : HoleLast(line[i])
  PROVE  LET a == OverWords(IdentsHidden, line, list)
         IN /\ a \in Acc /\ Len(a.line) = Len(line)
            /\ \A i \in 1..Len(line) :
                 <<a.line[i], a.list>> \in IdentGood(RestoredWord(line[i], list), Tears(line[i]))
<1>1. PICK n : n = Len(line)
  OBVIOUS
<1>2. n \in Nat /\ \A i \in 1..n : line[i] \in Seq(Findable(list))
  BY <1>1, LenProperties, ElementOfSeq
<1>3. line \in Seq(BitWord)
  BY RestoredProtects DEF BitLine
<1>4. PICK G : IsIdentPass(G, line, list)
  BY <1>3, IdentPassExists
<1>5. /\ G \in [0..n -> Acc] /\ G[0] = [line |-> <<>>, list |-> list]
      /\ \A k \in 1..n : G[k] = WordStep(G[k - 1], line[k])
      /\ OverWords(IdentsHidden, line, list) = G[n]
  BY <1>1, <1>4 DEF IsIdentPass
<1>6. PICK Good :
        Good = [i \in 1..n |-> IdentGood(RestoredWord(line[i], list), Tears(line[i]))]
  OBVIOUS
<1>7. \A i \in 1..n : Stable(Good[i])
  BY <1>6, IdentGoodStays
<1>8. ASSUME NEW k \in 1..n, Longer(G[k - 1].list, list) PROVE Steps(G[k - 1], G[k], Good[k])
  <2>1. k - 1 \in 0..n /\ k \in 0..n
    BY <1>2
  <2>2. PICK a, b, w : a = G[k - 1] /\ b = G[k] /\ w = line[k]
    OBVIOUS
  <2>3. /\ a \in Acc /\ b \in Acc /\ w \in Seq(Findable(list)) /\ b = WordStep(a, w)
        /\ Good[k] = IdentGood(RestoredWord(w, list), Tears(w))
        /\ Longer(a.list, list) /\ HoleLast(w)
    BY <1>1, <1>2, <1>5, <1>6, <1>8, <2>1, <2>2
  <2>4. PICK l : l = a.list
    OBVIOUS
  <2>5. l \in Seq(BitWord)
    BY <2>3, <2>4 DEF Acc
  <2>6. w \in Seq(Findable(l)) /\ RestoredWord(w, l) = RestoredWord(w, list)
    BY <2>3, <2>4, <2>5, RestoredStable
  <2>7. PICK x, m : x = IdentsHidden(w, l).word /\ m = IdentsHidden(w, l).list
    OBVIOUS
  <2>8. Longer(m, l) /\ <<x, m>> \in IdentGood(RestoredWord(w, l), Tears(w))
    BY <2>3, <2>5, <2>6, <2>7, IdentsHide
  <2>9. x \in BitWord
    BY <2>8 DEF IdentGood
  <2>10. b.line = Append(a.line, x) /\ b.list = m
    BY <2>3, <2>4, <2>7 DEF WordStep
  <2> QED
    BY <2>2, <2>3, <2>4, <2>6, <2>8, <2>9, <2>10 DEF Steps
<1>9. Passed(G[n], list, n, Good)
  <2>1. IsPass(G, list, n, Good)
    BY <1>5, <1>7, <1>8 DEF IsPass
  <2> QED
    BY <1>2, <2>1, PassOver
<1> QED
  BY <1>1, <1>5, <1>6, <1>9 DEF Passed

\* _protect(): both passes.
LEMMA ProtectHides ==
  ASSUME NEW line \in Seq(Seq(Plain))
  PROVE  LET p == Protect(line)
         IN /\ p \in Acc /\ Len(p.line) = Len(line)
            /\ \A i \in 1..Len(line) :
                 <<p.line[i], p.list>> \in IdentGood(line[i], PathFirst(line[i]))
<1>1. PICK n, a : n = Len(line) /\ a = OverWords(UrlHidden, line, <<>>)
  OBVIOUS
<1>2. a \in Acc /\ Len(a.line) = n /\ \A i \in 1..n : <<a.line[i], a.list>> \in UrlGood(line[i])
  BY <1>1, UrlsHidden
<1>3. PICK l, list : l = a.line /\ list = a.list
  OBVIOUS
<1>4. l \in Seq(BitWord) /\ list \in Seq(BitWord) /\ Len(l) = n
  BY <1>2, <1>3 DEF Acc, BitLine
<1>5. \A i \in 1..n : /\ l[i] \in Seq(Findable(list)) /\ RestoredWord(l[i], list) = line[i]
                      /\ HoleLast(l[i]) /\ (Tears(l[i]) <=> PathFirst(line[i]))
  BY <1>2, <1>3 DEF UrlGood
<1>6. l \in Seq(Seq(Findable(list)))
  <2>1. n \in Nat /\ l \in [1..n -> BitWord]
    BY <1>4, LenProperties
  <2>2. l \in [1..n -> Seq(Findable(list))]
    BY <1>5, <2>1
  <2> QED
    BY <2>1, <2>2, SeqDef
<1>7. PICK p : p = OverWords(IdentsHidden, l, list)
  OBVIOUS
<1>8. /\ p \in Acc /\ Len(p.line) = n
      /\ \A i \in 1..n :
           <<p.line[i], p.list>> \in IdentGood(RestoredWord(l[i], list), Tears(l[i]))
  BY <1>4, <1>5, <1>6, <1>7, IdentsHiddenInLine
<1>9. Protect(line) = p
  BY <1>1, <1>3, <1>7 DEF Protect
<1>10. \A i \in 1..n : <<p.line[i], p.list>> \in IdentGood(line[i], PathFirst(line[i]))
  <2> SUFFICES ASSUME NEW i \in 1..n
               PROVE  <<p.line[i], p.list>> \in IdentGood(line[i], PathFirst(line[i]))
    OBVIOUS
  <2>1. RestoredWord(l[i], list) = line[i] /\ (Tears(l[i]) <=> PathFirst(line[i]))
    BY <1>5
  <2>2. <<p.line[i], p.list>> \in IdentGood(line[i], Tears(l[i]))
    BY <1>8, <2>1
  <2> QED
    BY <2>1, <2>2 DEF IdentGood
<1> QED
  BY <1>1, <1>8, <1>9, <1>10

\* What Protect() hides is put back word by word, or a NUL sticks out.
LEMMA ProtectRestores ==
  ASSUME NEW line \in Seq(Seq(Plain))
  PROVE  LET p == Protect(line)
         IN /\ p.line \in BitLine /\ p.list \in Seq(BitWord)
            /\ p.line \in Seq(Seq(Findable(p.list)))
            /\ ~UrlBehindPath(line) => Restored(p.line, p.list) = line
            /\ UrlBehindPath(line) => Has(Protected(Restored(p.line, p.list)), Nul)
<1>1. PICK n, p : n = Len(line) /\ p = Protect(line)
  OBVIOUS
<1>2. PICK l, list : l = p.line /\ list = p.list
  OBVIOUS
<1>3. /\ l \in BitLine /\ list \in Seq(BitWord) /\ Len(l) = n
      /\ \A i \in 1..n : <<l[i], list>> \in IdentGood(line[i], PathFirst(line[i]))
  BY <1>1, <1>2, ProtectHides DEF Acc
<1>4. \A i \in 1..n : /\ l[i] \in Seq(Findable(list))
                      /\ PathFirst(line[i]) => Has(RestoredWord(l[i], list), Nul)
                      /\ ~PathFirst(line[i]) => RestoredWord(l[i], list) = line[i]
  BY <1>3 DEF IdentGood
<1>5. n \in Nat /\ DOMAIN line = 1..n /\ DOMAIN l = 1..n /\ l \in [1..n -> BitWord]
  BY <1>1, <1>3, LenProperties DEF BitLine
<1>6. l \in Seq(Seq(Findable(list)))
  <2>1. l \in [1..n -> Seq(Findable(list))]
    BY <1>4, <1>5
  <2> QED
    BY <1>5, <2>1, SeqDef
<1>7. UrlBehindPath(line) <=> \E i \in 1..n : PathFirst(line[i])
  BY <1>5 DEF UrlBehindPath, PathFirst
<1>8. PICK r : r = Restored(l, list)
  OBVIOUS
<1>9. r = [i \in 1..n |-> RestoredWord(l[i], list)]
  BY <1>5, <1>8 DEF Restored
<1>10. ASSUME ~UrlBehindPath(line) PROVE r = line
  <2>1. \A i \in 1..n : RestoredWord(l[i], list) = line[i]
    BY <1>4, <1>7, <1>10
  <2>2. line = [i \in 1..n |-> line[i]]
    BY <1>1, <1>5, LenProperties
  <2> QED
    BY <1>9, <2>1, <2>2
<1>11. ASSUME UrlBehindPath(line) PROVE Has(Protected(r), Nul)
  <2>1. PICK i \in 1..n : PathFirst(line[i])
    BY <1>7, <1>11
  <2>2. Has(r[i], Nul)
    BY <1>4, <1>9, <2>1
  <2>3. r \in BitLine
    BY <1>3, <1>6, <1>8, RestoredProtects
  <2>4. Len(r) = n
    BY <1>5, <1>9, <2>3, LenProperties DEF BitLine
  <2>5. Nul \in Bit /\ ~Loose(Nul)
    BY MadeBits DEF Nul, Loose
  <2>6. Has(Protected(r), Nul) <=> \E j \in 1..Len(r) : Has(r[j], Nul)
    BY <2>3, <2>5, ProtectedElements
  <2> QED
    BY <2>2, <2>4, <2>6
<1> QED
  BY <1>1, <1>2, <1>3, <1>6, <1>8, <1>10, <1>11

\* One line of prose in which the client wrote no placeholder.
LEMMA LineVerbatim ==
  ASSUME NEW line \in Seq(Seq(Plain)), NEW engine, NEW level,
         engine # "caveman" => level \in RtkLevels
  PROVE  LET made == Line(line, engine, level)
         IN /\ ~made.raised
            /\ Protected(made.line) = Protected(line) <=> ~UrlBehindPath(line)
<1>1. PICK p : p = Protect(line)
  OBVIOUS
<1>2. PICK l, list : l = p.line /\ list = p.list
  OBVIOUS
<1>3. /\ l \in BitLine /\ list \in Seq(BitWord) /\ l \in Seq(Seq(Findable(list)))
      /\ ~UrlBehindPath(line) => Restored(l, list) = line
      /\ UrlBehindPath(line) => Has(Protected(Restored(l, list)), Nul)
  BY <1>1, <1>2, ProtectRestores
<1>4. PICK w : w = EngineWords(l, engine, level)
  OBVIOUS
<1>5. w \in BitLine /\ Protected(w) = Protected(l)
  BY <1>3, <1>4, EnginesKeep
<1>6. ~Unknown(w, list) /\ Protected(Restored(w, list)) = Protected(Restored(l, list))
  BY <1>3, <1>5, RestoredAlike
<1>7. Line(line, engine, level) = [raised |-> FALSE, line |-> Restored(w, list)]
  BY <1>1, <1>2, <1>4, <1>6 DEF Line
<1>8. ~Has(Protected(line), Nul)
  <2>1. Plain \subseteq Bit
    BY PlainIsSolid DEF Solid
  <2>2. Seq(Plain) \subseteq BitWord
    BY <2>1, SeqMonotonic DEF BitWord
  <2>3. line \in BitLine
    BY <2>2, SeqMonotonic DEF BitLine
  <2>4. Nul \in Bit /\ ~Loose(Nul)
    BY MadeBits DEF Nul, Loose
  <2>5. Has(Protected(line), Nul) <=> \E j \in 1..Len(line) : Has(line[j], Nul)
    BY <2>3, <2>4, ProtectedElements
  <2>6. ASSUME NEW j \in 1..Len(line) PROVE ~Has(line[j], Nul)
    <3>1. PICK x : x = line[j]
      OBVIOUS
    <3>2. x \in Seq(Plain)
      BY <3>1, ElementOfSeq
    <3>3. \A k \in 1..Len(x) : x[k] \in Plain
      BY <3>2, ElementOfSeq
    <3>4. Nul \notin Plain
      BY DEF Nul, Plain, Piece
    <3> QED
      BY <3>1, <3>3, <3>4 DEF Has
  <2> QED
    BY <2>5, <2>6
<1>9. Line(line, engine, level).raised = FALSE
      /\ Line(line, engine, level).line = Restored(w, list)
  BY <1>7
<1> QED
  BY <1>3, <1>6, <1>8, <1>9

\* A line the client wrote no placeholder in.
LEMMA NotForeign ==
  ASSUME NEW line \in Seq(Seq(Piece)), ~Foreign(line)
  PROVE  line \in Seq(Seq(Plain))
<1>1. PICK n : n = Len(line)
  OBVIOUS
<1>2. n \in Nat /\ DOMAIN line = 1..n /\ line \in [1..n -> Seq(Piece)]
  BY <1>1, LenProperties
<1>3. ASSUME NEW i \in 1..n PROVE line[i] \in Seq(Plain)
  <2>1. PICK w : w = line[i]
    OBVIOUS
  <2>2. w \in Seq(Piece)
    BY <1>2, <2>1
  <2>3. Len(w) \in Nat /\ DOMAIN w = 1..Len(w) /\ w \in [1..Len(w) -> Piece]
    BY <2>2, LenProperties
  <2>4. \A k \in 1..Len(w) : w[k] \in ToSet(w)
    BY <2>3 DEF ToSet
  <2>5. \A q \in ToSet(w) : ~(q.kind = "hole")
    BY <1>2, <2>1 DEF Foreign
  <2>6. \A k \in 1..Len(w) : w[k] \in Plain
    BY <2>3, <2>4, <2>5 DEF Plain
  <2>7. w \in [1..Len(w) -> Plain]
    BY <2>3, <2>6
  <2>8. w \in Seq(Plain)
    BY <2>3, <2>7, SeqDef
  <2> QED
    BY <2>1, <2>8
<1>4. line \in [1..n -> Seq(Plain)]
  BY <1>2, <1>3
<1> QED
  BY <1>2, <1>4, SeqDef

\* What becomes of line j of segment i.
MadeLine(segments, i, j, engine, level) ==
  IF InFence(i) \/ segments[i][j].code
    THEN [raised |-> FALSE, line |-> segments[i][j].words]
    ELSE Line(segments[i][j].words, engine, level)

\* Prose() goes line by line, and fails when one line does.
LEMMA ProseIs ==
  ASSUME NEW segments, NEW engine, NEW level
  PROVE  LET r == Prose(segments, engine, level)
         IN /\ r.raised <=> \E i \in DOMAIN segments : \E j \in DOMAIN segments[i] :
                              MadeLine(segments, i, j, engine, level).raised
            /\ ~r.raised =>
                 \A i \in DOMAIN segments : \A j \in DOMAIN segments[i] :
                   r.segments[i][j] = MadeLine(segments, i, j, engine, level).line
<1> DEFINE Fails == \E i \in DOMAIN segments : \E j \in DOMAIN segments[i] :
                      MadeLine(segments, i, j, engine, level).raised
<1>1. PICK r : r = Prose(segments, engine, level)
  OBVIOUS
<1>2. r = IF Fails THEN [raised |-> TRUE]
          ELSE [raised |-> FALSE,
                segments |-> [i \in DOMAIN segments |->
                                [j \in DOMAIN segments[i] |->
                                   MadeLine(segments, i, j, engine, level).line]]]
  BY <1>1 DEF Prose, MadeLine
<1> HIDE DEF Fails
<1>3. CASE Fails
  <2>1. r = [raised |-> TRUE]
    BY <1>2, <1>3
  <2>2. r.raised
    BY <2>1
  <2> QED
    BY <1>1, <1>3, <2>2 DEF Fails
<1>4. CASE ~Fails
  <2>1. PICK f : f = [i \in DOMAIN segments |->
                        [j \in DOMAIN segments[i] |->
                           MadeLine(segments, i, j, engine, level).line]]
    OBVIOUS
  <2>2. r = [raised |-> FALSE, segments |-> f]
    BY <1>2, <1>4, <2>1
  <2>3. r.raised = FALSE /\ r.segments = f
    BY <2>2
  <2>4. \A i \in DOMAIN segments : \A j \in DOMAIN segments[i] :
          f[i][j] = MadeLine(segments, i, j, engine, level).line
    BY <2>1
  <2> QED
    BY <1>1, <1>4, <2>3, <2>4 DEF Fails
<1> QED
  BY <1>3, <1>4

\* A text a client can write whose only fence is its second segment.
OneFence(text) ==
  \A i \in DOMAIN text : \A j \in DOMAIN text[i] :
    /\ text[i][j].words \in Seq(Seq(Piece)) /\ text[i][j].code \in BOOLEAN
    /\ InFence(i) <=> i = 2

\* What the engines make of it is what Verbatim says.
LEMMA ProseKeeps ==
  ASSUME NEW text, NEW engine, NEW level, engine # "caveman" => level \in RtkLevels,
         OneFence(text),
         call.fn = "prose", call.text = text, call.result = Prose(text, engine, level)
  PROVE  Verbatim
<1>1. PICK r : r = Prose(text, engine, level)
  OBVIOUS
<1> SUFFICES ASSUME NEW i \in DOMAIN text, NEW j \in DOMAIN text[i]
             PROVE  LET line == text[i][j]
                        out  == r.segments[i][j]
                    IN IF r.raised
                         THEN \E k \in DOMAIN text : \E l \in DOMAIN text[k] :
                                Foreign(text[k][l].words)
                       ELSE IF i = 2 \/ line.code THEN out = line.words
                       ELSE Foreign(line.words) \/
                              (Protected(out) = Protected(line.words)
                                 <=> ~UrlBehindPath(line.words))
  BY <1>1 DEF Verbatim
<1>2. CASE r.raised
  <2>1. PICK k \in DOMAIN text : \E l \in DOMAIN text[k] :
          MadeLine(text, k, l, engine, level).raised
    BY <1>1, <1>2, ProseIs
  <2>2. PICK l \in DOMAIN text[k] : MadeLine(text, k, l, engine, level).raised
    BY <2>1
  <2>3. PICK w : w = text[k][l].words
    OBVIOUS
  <2>4. Line(w, engine, level).raised
    <3>1. CASE InFence(k) \/ text[k][l].code
      <4>1. MadeLine(text, k, l, engine, level) = [raised |-> FALSE, line |-> w]
        BY <2>3, <3>1 DEF MadeLine
      <4> QED
        BY <2>2, <4>1
    <3>2. CASE ~(InFence(k) \/ text[k][l].code)
      BY <2>2, <2>3, <3>2 DEF MadeLine
    <3> QED
      BY <3>1, <3>2
  <2>5. w \in Seq(Seq(Piece))
    BY <2>3 DEF OneFence
  <2>6. Foreign(w)
    <3> SUFFICES ASSUME ~Foreign(w) PROVE FALSE
      OBVIOUS
    <3>1. w \in Seq(Seq(Plain))
      BY <2>5, NotForeign
    <3> QED
      BY <2>4, <3>1, LineVerbatim
  <2> QED
    BY <1>2, <2>3, <2>6
<1>3. CASE ~r.raised
  <2>1. PICK w, out : w = text[i][j].words /\ out = r.segments[i][j]
    OBVIOUS
  <2>2. out = MadeLine(text, i, j, engine, level).line
    BY <1>1, <1>3, <2>1, ProseIs
  <2>3. w \in Seq(Seq(Piece)) /\ (InFence(i) <=> i = 2)
    BY <2>1 DEF OneFence
  <2>4. CASE i = 2 \/ text[i][j].code
    <3>1. MadeLine(text, i, j, engine, level) = [raised |-> FALSE, line |-> w]
      BY <2>1, <2>3, <2>4 DEF MadeLine
    <3>2. out = w
      BY <2>2, <3>1
    <3> QED
      BY <1>3, <2>1, <2>4, <3>2
  <2>5. CASE ~(i = 2 \/ text[i][j].code)
    <3>1. MadeLine(text, i, j, engine, level) = Line(w, engine, level)
      BY <2>1, <2>3, <2>5 DEF MadeLine
    <3>2. ASSUME ~Foreign(w) PROVE Protected(out) = Protected(w) <=> ~UrlBehindPath(w)
      <4>1. w \in Seq(Seq(Plain))
        BY <2>3, <3>2, NotForeign
      <4> QED
        BY <2>2, <3>1, <4>1, LineVerbatim
    <3> QED
      BY <1>3, <2>1, <2>5, <3>2
  <2> QED
    BY <2>4, <2>5
<1> QED
  BY <1>2, <1>3

\* Three segments of one line, of which the middle one is a fence.
TextOf(line, other, code) ==
  <<<<[code |-> FALSE, words |-> line]>>,
    <<[code |-> code, words |-> other]>>,
    <<[code |-> code, words |-> other]>>>>

\* A call of an engine holds what it was made from.
ProseMade ==
  call.fn = "prose" =>
    \E line \in Lines, other \in Others, code \in BOOLEAN : \E engine, level :
      /\ engine # "caveman" => level \in RtkLevels
      /\ call.text = TextOf(line, other, code)
      /\ call.result = Prose(call.text, engine, level)

LEMMA ProseRecorded == Spec => []ProseMade
<1>1. Init => ProseMade
  BY CallsAssumption DEF Init, Idle, ProseMade
<1>2. ASSUME ProseMade, [Next]_call PROVE ProseMade'
  <2>1. CASE CallMiddleOut
    BY <2>1 DEF CallMiddleOut, ProseMade
  <2>2. CASE CallProse
    <3>1. PICK line \in Lines, other \in Others, code \in BOOLEAN :
            \E e \in {<<"caveman", l>> : l \in CavemanLevels} \cup {<<"rtk", l>> : l \in RtkLevels} :
              call' = [fn |-> "prose", text |-> TextOf(line, other, code), engine |-> e[1],
                       result |-> Prose(TextOf(line, other, code), e[1], e[2])]
      BY <2>2 DEF CallProse, TextOf
    <3>2. PICK engine, level :
            /\ engine # "caveman" => level \in RtkLevels
            /\ call' = [fn |-> "prose", text |-> TextOf(line, other, code), engine |-> engine,
                        result |-> Prose(TextOf(line, other, code), engine, level)]
      BY <3>1
    <3>3. PICK text : text = TextOf(line, other, code)
      OBVIOUS
    <3>4. call'.text = text /\ call'.result = Prose(text, engine, level)
      BY <3>2, <3>3
    <3>5. \E e, k : (e # "caveman" => k \in RtkLevels) /\ call'.result = Prose(call'.text, e, k)
      BY <3>2, <3>4
    <3> QED
      BY <3>3, <3>4, <3>5 DEF ProseMade
  <2>3. CASE CallLoad
    BY <2>3 DEF CallLoad, ProseMade
  <2>4. CASE CallOptions
    BY <2>4 DEF CallOptions, ProseMade
  <2>5. CASE Return
    BY <2>5, CallsAssumption DEF Return, Idle, ProseMade
  <2>6. CASE UNCHANGED call
    BY <1>2, <2>6 DEF ProseMade
  <2> QED
    BY <1>2, <2>1, <2>2, <2>3, <2>4, <2>5, <2>6 DEF Next
<1> QED
  BY <1>1, <1>2, PTL DEF Spec

\* For any lines, terms, tables and levels: all URLs, identifiers, path
\* components behind the first, and terms no table names come out as they went in
\* and in their order, exactly when no path begins before the URL of a word; code
\* is not touched; and an engine fails only over a placeholder of the client's.
\* The first component of a path, and a whole path that is one term behind a
\* slash, is no more protected than any other word.
THEOREM ProseVerbatim == Spec => []Verbatim
<1>1. ProseMade => Verbatim
  <2> SUFFICES ASSUME ProseMade, call.fn = "prose" PROVE Verbatim
    BY DEF Verbatim
  <2>1. PICK line \in Lines, other \in Others, code \in BOOLEAN : \E engine, level :
          /\ engine # "caveman" => level \in RtkLevels
          /\ call.text = TextOf(line, other, code)
          /\ call.result = Prose(call.text, engine, level)
    BY DEF ProseMade
  <2>2. PICK engine, level : /\ engine # "caveman" => level \in RtkLevels
                             /\ call.text = TextOf(line, other, code)
                             /\ call.result = Prose(call.text, engine, level)
    BY <2>1
  <2>3. PICK text : text = TextOf(line, other, code)
    OBVIOUS
  <2>4. line \in Seq(Seq(Piece)) /\ other \in Seq(Seq(Piece))
    BY CallsAssumption
  <2>5. OneFence(text)
    <3>1. DOMAIN text = 1..3
      BY <2>3 DEF TextOf
    <3>2. \A i \in 1..3 : i = 1 \/ i = 2 \/ i = 3
      OBVIOUS
    <3>3. \A i \in 1..3 : DOMAIN text[i] = 1..1
      BY <2>3, <3>2 DEF TextOf
    <3>4. \A i \in 1..3 : InFence(i) <=> i = 2
      BY <3>2 DEF InFence
    <3>5. \A j \in 1..1 : j = 1
      OBVIOUS
    <3>6. \A i \in 1..3 : text[i][1].words \in Seq(Seq(Piece)) /\ text[i][1].code \in BOOLEAN
      <4>1. text[1][1].words = line /\ text[1][1].code = FALSE
        BY <2>3 DEF TextOf
      <4>2. text[2][1].words = other /\ text[2][1].code = code
        BY <2>3 DEF TextOf
      <4>3. text[3][1].words = other /\ text[3][1].code = code
        BY <2>3 DEF TextOf
      <4> QED
        BY <2>4, <3>2, <4>1, <4>2, <4>3
    <3> QED
      BY <3>1, <3>3, <3>4, <3>5, <3>6 DEF OneFence
  <2> QED
    BY <2>2, <2>3, <2>5, ProseKeeps
<1> QED
  BY <1>1, ProseRecorded, PTL
=============================================================================
