--------------------------- MODULE RuntimeSettings ---------------------------
(***************************************************************************)
(* The operator's live settings (server.py:187-251, 418-493): a dict in    *)
(* memory, its JSON copy on disk, and the L2 cache's own enabled flag.     *)
(* POST /settings changes the dict section by section and returns 400 at   *)
(* the first section it cannot accept, with the earlier ones applied.      *)
(* Once its body has been read the handler never awaits, so nothing but    *)
(* the death of the process comes between its steps.                       *)
(***************************************************************************)
EXTENDS Integers, TLC

CONSTANTS
  Flags,       \* the boolean settings; L2 is one of them
  L2,          \* "l2_cache"
  NSections,   \* number of engine sections, numbered in the order of the checks
  Values,      \* what a section may hold
  Bad,         \* what a section of a request may hold and is refused
  Torn,        \* a file whose writing was cut short
  NoFile,
  Defaults,    \* the snapshot the configuration gives
  DiskFaults,  \* TRUE when writing or renaming may raise OSError
  MaxPosts     \* bound: requests made

Sections == 1..NSections

Snapshots == [flag : [Flags -> BOOLEAN], section : [Sections -> Values]]

ASSUME SettingsAssumption ==
  /\ L2 \in Flags
  /\ NSections \in Nat
  /\ Bad \notin Values
  /\ Defaults \in Snapshots
  /\ {Torn, NoFile} \cap Snapshots = {}
  /\ Torn # NoFile
  /\ DiskFaults \in BOOLEAN
  /\ MaxPosts \in Nat

VARIABLES
  mem,       \* _runtime
  disk,      \* runtime_settings.json
  tmp,       \* its sibling .tmp file
  l2built,   \* whether this boot built an embedder and a vector store
  l2live,    \* l2_cache.enabled
  pc,        \* "up", the next step of a POST, or "down"
  posts,     \* history: requests made
  accepted,  \* history: the snapshots a POST found acceptable
  refused    \* history: a POST was refused since the last accepted one or boot

vars == <<mem, disk, tmp, l2built, l2live, pc, posts, accepted, refused>>

\* A request names some of the flags and some of the sections.
Requests ==
  [flag : UNION {[F -> BOOLEAN] : F \in SUBSET Flags},
   section : UNION {[S -> Values \cup {Bad}] : S \in SUBSET Sections}]

\* _runtime before the saved copy is merged in: "l2_cache" starts out as the
\* enabled flag of the L2 cache, which one that could not be built has not set.
Configured(built) == [Defaults EXCEPT !.flag[L2] = @ /\ built]

SettingsInit ==
  /\ l2built \in BOOLEAN
  /\ mem = Configured(l2built)
  /\ disk = NoFile
  /\ tmp = NoFile
  /\ l2live = mem.flag[L2]
  /\ pc = "up"
  /\ posts = 0
  /\ accepted = {}
  /\ refused = FALSE

-----------------------------------------------------------------------------
\* The checks reach section s and find nothing to refuse up to and with it.
Reaches(req, s) ==
  \A i \in Sections : i <= s /\ i \in DOMAIN req.section => req.section[i] # Bad

Acceptable(req) == \A s \in Sections : Reaches(req, s)

\* The dict when the handler has run through the sections or given up.
Applied(req) ==
  [flag    |-> [f \in Flags |->
                  IF f \in DOMAIN req.flag THEN req.flag[f] ELSE mem.flag[f]],
   section |-> [s \in Sections |->
                  IF s \in DOMAIN req.section /\ Reaches(req, s)
                    THEN req.section[s] ELSE mem.section[s]]]

\* Mutant: a refused request is saved like any other.
SavesRefused(req) == "write"

\* Where a request goes on: a refused one is answered at once.
Verdict(req) == IF Acceptable(req) THEN "write" ELSE "up"

Post(req) ==
  /\ pc = "up"
  /\ posts < MaxPosts
  /\ mem' = Applied(req)
  /\ pc' = Verdict(req)
  /\ posts' = posts + 1
  /\ IF Acceptable(req)
       THEN accepted' = accepted \cup {Applied(req)} /\ refused' = FALSE
       ELSE refused' = TRUE /\ UNCHANGED accepted
  /\ UNCHANGED <<disk, tmp, l2built, l2live>>

\* Mutant: writes the canonical file itself.
InPlace(content) == disk' = content /\ tmp' = content

\* tmp.write_text(): only the sibling file is touched.
Written(content) == tmp' = content /\ UNCHANGED disk

WriteTmp ==
  /\ pc = "write"
  /\ Written(mem)
  /\ pc' = "rename"
  /\ UNCHANGED <<mem, l2built, l2live, posts, accepted, refused>>

\* tmp.replace(): one atomic step of the file system.
Rename ==
  /\ pc = "rename"
  /\ disk' = tmp
  /\ tmp' = NoFile
  /\ pc' = "sync"
  /\ UNCHANGED <<mem, l2built, l2live, posts, accepted, refused>>

\* An OSError of either, which is swallowed: the POST goes on.
SaveFails ==
  /\ DiskFaults
  /\ \/ pc = "write" /\ \E c \in {tmp, Torn} : Written(c)
     \/ pc = "rename" /\ UNCHANGED <<tmp, disk>>
  /\ pc' = "sync"
  /\ UNCHANGED <<mem, l2built, l2live, posts, accepted, refused>>

\* Mutant: the flag of the L2 cache is only ever raised.
SyncedUp == l2live \/ (l2built /\ mem.flag[L2])

\* l2_cache.enabled after a POST.
Synced == IF l2built THEN mem.flag[L2] ELSE l2live

SyncL2 ==
  /\ pc = "sync"
  /\ l2live' = Synced
  /\ pc' = "up"
  /\ UNCHANGED <<mem, disk, tmp, l2built, posts, accepted, refused>>

\* The process dies, perhaps half-way through writing the tmp file.
Crash ==
  /\ pc # "down"
  /\ pc' = "down"
  /\ \/ UNCHANGED <<tmp, disk>>
     \/ pc = "write" /\ Written(Torn)
  /\ UNCHANGED <<mem, l2built, l2live, posts, accepted, refused>>

\* _load_persisted_runtime(): a copy that cannot be decoded counts as none.
AtBoot(built) == IF disk \in {NoFile, Torn} THEN Configured(built) ELSE disk

\* A new process: l2_cache.enabled follows the flag, built or not.
Boot ==
  /\ pc = "down"
  /\ l2built' \in BOOLEAN
  /\ mem' = AtBoot(l2built')
  /\ l2live' = mem'.flag[L2]
  /\ pc' = "up"
  /\ refused' = FALSE
  /\ UNCHANGED <<disk, tmp, posts, accepted>>

SettingsNext ==
  \/ \E req \in Requests : Post(req)
  \/ WriteTmp
  \/ Rename
  \/ SaveFails
  \/ SyncL2
  \/ Crash
  \/ Boot

SettingsSpec == SettingsInit /\ [][SettingsNext]_vars

-----------------------------------------------------------------------------
\* Type invariant: a section never holds what the checks refuse.
TypeOK ==
  /\ mem \in Snapshots
  /\ disk \in Snapshots \cup {NoFile}
  /\ tmp \in Snapshots \cup {NoFile, Torn}
  /\ l2built \in BOOLEAN /\ l2live \in BOOLEAN /\ refused \in BOOLEAN
  /\ pc \in {"up", "write", "rename", "sync", "down"}
  /\ posts \in 0..MaxPosts
  /\ accepted \subseteq Snapshots

\* Whenever the process dies, the next one finds a snapshot that some POST
\* found acceptable as a whole, or no file: never a torn one, and never the
\* half-applied state a refused POST leaves in memory.
RestartFindsAccepted == disk # NoFile => disk \in accepted

\* Only a refused POST can leave the L2 cache on the other side of its flag:
\* a failed save, a crash or a later POST does not.
SyncedUnlessRefused ==
  pc = "up" /\ l2built /\ ~refused => l2live = mem.flag[L2]

\* "Keep L2Cache.enabled in sync with the runtime toggle" (server.py:488):
\* between requests, the L2 cache of a process that built one is on exactly
\* when /settings says so.
L2FollowsToggle == pc = "up" /\ l2built => l2live = mem.flag[L2]

Durable == INSTANCE DurableSettings WITH
             Configurations <- {Configured(b) : b \in BOOLEAN},
             live <- mem, durable <- disk, running <- (pc # "down")

\* However a POST is refused, fails to save or is cut short by a crash, the
\* file is replaced whole by what is live, and a restart brings it back.
ImplementsDurable == Durable!Spec
=============================================================================
