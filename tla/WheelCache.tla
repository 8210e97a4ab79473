----------------------------- MODULE WheelCache -----------------------------
(***************************************************************************)
(* build-and-copy.sh for the regular profile: the wheels of FlashInfer and *)
(* then of vLLM are downloaded from a release, or built and promoted, and  *)
(* an image is made from both.  Downloads fail half way, the script is     *)
(* killed at any step, releases are replaced while it runs.                *)
(*                                                                         *)
(* A set is what one publication or one local build made; sets are         *)
(* numbered by age, so file times are compared by their numbers.  What a   *)
(* wheel is called tells its kind and version, which sets may share.       *)
(***************************************************************************)
EXTENDS Naturals

CONSTANTS
  MaxSets,     \* bound on the sets of each component
  VersionOf,   \* the version in the names of each component's sets
  MaxRuns,     \* bound on runs of the script
  MaxFaults,   \* bound on requests, builds and renames that fail
  MaxKills     \* bound on runs killed

Components == {"flashinfer", "vllm"}
KindsOf == [flashinfer |-> {"python", "jit", "provider"}, vllm |-> {"vllm"}]
Sets(c) == 1..MaxSets[c]
Wheels(c) == [kind : KindsOf[c], set : Sets(c)]
Modes == {"get", "force", "build"}

ASSUME WheelAssumption ==
  /\ MaxSets \in [Components -> Nat \ {0}]
  /\ \A c \in Components : VersionOf[c] \in [Sets(c) -> Nat]
  /\ MaxRuns \in Nat /\ MaxFaults \in Nat /\ MaxKills \in Nat

VARIABLES
  release,   \* each component's release: the set it offers, and which of its kinds
  dir,       \* the profile directory: wheels, mark, and what a download put aside in it
  parked,    \* the profile a promotion renamed away
  made,      \* how many sets of each component there are
  run,       \* the run of the script
  count      \* runs, faults and kills so far

cache == <<dir, parked>>
vars == <<release, cache, made, run, count>>

NoWheels == [wheels |-> {}, mark |-> 0, aside |-> {}, asideMark |-> 0]
NoRun == [step |-> "off", end |-> "none", comp |-> "flashinfer", listed |-> 0, kinds |-> {},
          commit |-> 0, todo |-> {}, mode |-> [c \in Components |-> "get"], upset |-> FALSE,
          found |-> [c \in Components |-> NoWheels]]

\* A profile with one set of wheels.
Profile(c, s) ==
  [NoWheels EXCEPT !.wheels = [kind : KindsOf[c], set : {s}], !.mark = s]

\* Either there is nothing yet, or a first set was published and perhaps downloaded.
Init ==
  /\ \E n \in {0, 1} : made = [c \in Components |-> n]
  /\ release = [c \in Components |-> [set |-> made[c], kinds |-> IF made[c] = 0 THEN {} ELSE KindsOf[c]]]
  /\ \E have \in SUBSET {c \in Components : made[c] = 1} :
       dir = [c \in Components |-> IF c \in have THEN Profile(c, 1) ELSE NoWheels]
  /\ parked = [c \in Components |-> NoWheels]
  /\ run = NoRun
  /\ count = [k \in {"run", "fault", "kill"} |-> 0]

Tick(kind, bound) ==
  /\ count[kind] < bound
  /\ count' = [count EXCEPT ![kind] = @ + 1]

-----------------------------------------------------------------------------
(***************************************************************************)
(* Sets of wheels.                                                         *)
(***************************************************************************)
\* Exactly one wheel of the kind.
One(W, k) == \E w \in W : {v \in W : v.kind = k} = {w}
Whole(c, W) == W # {} /\ \E s \in Sets(c) : W = [kind : KindsOf[c], set : {s}]

\* Faulty variant: the provider is not looked for.
ValidShim(c, W) == \A k \in KindsOf[c] \ {"provider"} : One(W, k)

\* The wheel with the providers has pins on their version; the others are not pinned.
Valid(c, W) ==
  /\ \A k \in KindsOf[c] : One(W, k)
  /\ \A w, p \in W : w.kind = "jit" /\ p.kind = "provider"
       => VersionOf[c][w.set] = VersionOf[c][p.set]

\* The wheel a glob names first: flashinfer_jit_cache-, flashinfer_jit_cache_sm, flashinfer_python-.
Rank == [jit |-> 1, provider |-> 2, python |-> 3, vllm |-> 4]
First(W) == CHOOSE w \in W : \A v \in W : Rank[w.kind] <= Rank[v.kind]

\* The wheel of that name in the directory: one of the kind and version of a set.
Named(c, W, k, s) == {w \in W : w.kind = k /\ VersionOf[c][w.set] = VersionOf[c][s]}

-----------------------------------------------------------------------------
(***************************************************************************)
(* Runs.                                                                   *)
(***************************************************************************)
Current == run.comp
At(step) == run.step = step
GoTo(step) == run' = [run EXCEPT !.step = step]
Fault(step) ==
  /\ Tick("fault", MaxFaults)
  /\ run' = [run EXCEPT !.step = step, !.upset = TRUE]
End(how) == run' = [NoRun EXCEPT !.end = how]
SetDir(profile) == dir' = [dir EXCEPT ![Current] = profile]

Begin(r, c) == [NoRun EXCEPT !.comp = c, !.mode = r.mode, !.upset = r.upset, !.found = r.found,
                             !.step = IF r.mode[c] = "build" THEN "build" ELSE "list"]
\* What follows when the component's wheels are there, or are to be made do with.
Passed == IF Current = "flashinfer" THEN "validate" ELSE "image"

Start(mode, clean) ==
  LET fresh == [NoRun EXCEPT !.mode = mode] IN
  /\ At("off")
  /\ Tick("run", MaxRuns)
  /\ run' = IF clean THEN [fresh EXCEPT !.step = "clean"]
            ELSE Begin([fresh EXCEPT !.found = dir], "flashinfer")
  /\ UNCHANGED <<release, cache, made>>

\* --cleanup removes wheels and marks one by one, but nothing put aside or parked.
CleanUp ==
  LET left == {c \in Components : dir[c].wheels # {} \/ dir[c].mark # 0}
      c == IF "flashinfer" \in left THEN "flashinfer" ELSE "vllm"
      p == dir[c]
  IN
  /\ At("clean")
  /\ IF left = {}
     THEN /\ run' = Begin([run EXCEPT !.found = dir], "flashinfer")
          /\ UNCHANGED dir
     ELSE /\ dir' = [dir EXCEPT ![c] = IF p.wheels # {} THEN [p EXCEPT !.wheels = @ \ {First(@)}]
                                       ELSE [p EXCEPT !.mark = 0]]
          /\ UNCHANGED run
  /\ UNCHANGED <<release, parked, made, count>>

-----------------------------------------------------------------------------
(***************************************************************************)
(* try_download_wheels: what the release offers, and whether to download.  *)
(***************************************************************************)
\* The page of assets.
List ==
  LET r == release[Current] IN
  /\ At("list")
  /\ r.set # 0
  /\ run' = [run EXCEPT !.step = "page", !.listed = r.set, !.kinds = r.kinds, !.commit = 0,
                        !.upset = @ \/ r.kinds # KindsOf[Current]]
  /\ UNCHANGED <<release, cache, made, count>>

NotListed ==
  /\ At("list")
  /\ IF release[Current].set = 0
     THEN run' = [run EXCEPT !.step = "existing", !.upset = TRUE] /\ UNCHANGED count
     ELSE Fault("existing")
  /\ UNCHANGED <<release, cache, made>>

\* The release's own page, with the commit; the script goes on without it.
ReadCommit ==
  /\ At("page")
  /\ \/ /\ run' = [run EXCEPT !.step = "decide", !.commit = release[Current].set]
        /\ UNCHANGED count
     \/ Fault("decide")
  /\ UNCHANGED <<release, cache, made>>

Present == \A k \in run.kinds : Named(Current, dir[Current].wheels, k, run.listed) # {}
Incomplete == Current = "flashinfer" /\ ~Valid(Current, dir[Current].wheels)
SameCommit == run.commit # 0 /\ dir[Current].mark = run.commit
\* The listed assets answer a request for their time as long as the release names them.
Answers == VersionOf[Current][release[Current].set] = VersionOf[Current][run.listed]
LocalNewer ==
  LET W == dir[Current].wheels IN Answers /\ W # {} /\ \A w \in W : w.set >= release[Current].set
NoneOlder ==
  /\ Answers
  /\ \A k \in run.kinds : \A w \in Named(Current, dir[Current].wheels, k, run.listed) :
       w.set >= release[Current].set

\* Faulty variant: an incomplete profile may win the shortcuts.
UpToDateShort == IF Present THEN SameCommit \/ NoneOlder ELSE LocalNewer

UpToDate ==
  /\ ~Incomplete
  /\ IF Present THEN SameCommit \/ NoneOlder ELSE LocalNewer

KeepLocal ==
  /\ At("decide")
  /\ run.mode[Current] = "get"
  /\ UpToDate
  /\ GoTo(Passed)
  /\ UNCHANGED <<release, cache, made, count>>

\* A backup that an earlier run left is removed first.
NeedDownload ==
  /\ At("decide")
  /\ IF run.mode[Current] = "force" \/ ~UpToDate
     THEN GoTo("sweep") /\ UNCHANGED count
     ELSE ~(Present /\ SameCommit) /\ Fault("sweep")
  /\ SetDir([dir[Current] EXCEPT !.aside = {}, !.asideMark = 0])
  /\ UNCHANGED <<release, parked, made>>

-----------------------------------------------------------------------------
(***************************************************************************)
(* try_download_wheels: the download.                                      *)
(***************************************************************************)
\* Faulty variant: the mark stays where it is.
SweptWheelsOnly(p) == p

\* The marks follow the wheels.
Swept(p) == [p EXCEPT !.asideMark = p.mark, !.mark = 0]

Sweep ==
  LET p == dir[Current] IN
  /\ At("sweep")
  /\ IF p.wheels # {}
     THEN /\ SetDir([p EXCEPT !.wheels = @ \ {First(@)}, !.aside = @ \cup {First(p.wheels)}])
          /\ UNCHANGED run
     ELSE /\ SetDir(Swept(p))
          /\ run' = [run EXCEPT !.step = "fetch", !.todo = run.kinds]
  /\ UNCHANGED <<release, parked, made, count>>

\* A name that the release still has gives what the release has now.
Fetch ==
  /\ At("fetch") /\ Answers
  /\ \E k \in run.todo :
       /\ SetDir([dir[Current] EXCEPT !.wheels = @ \cup {[kind |-> k, set |-> release[Current].set]}])
       /\ run' = [run EXCEPT !.todo = @ \ {k}]
  /\ UNCHANGED <<release, parked, made, count>>

FetchFails ==
  /\ At("fetch") /\ run.todo # {}
  /\ IF Answers THEN Fault("undo") ELSE GoTo("undo") /\ UNCHANGED count
  /\ UNCHANGED <<release, cache, made>>

\* Faulty variant: whatever was downloaded is kept.
FetchedUnchecked ==
  /\ At("fetch") /\ run.todo = {}
  /\ SetDir([dir[Current] EXCEPT !.aside = {}, !.asideMark = 0]) /\ GoTo("mark")
  /\ UNCHANGED <<release, parked, made, count>>

\* Only FlashInfer's wheels are checked before the old ones go.
Fetched ==
  /\ At("fetch") /\ run.todo = {}
  /\ IF Incomplete
     THEN GoTo("undo") /\ UNCHANGED dir
     ELSE SetDir([dir[Current] EXCEPT !.aside = {}, !.asideMark = 0]) /\ GoTo("mark")
  /\ UNCHANGED <<release, parked, made, count>>

WriteMark ==
  /\ At("mark")
  /\ SetDir([dir[Current] EXCEPT !.mark = IF run.commit = 0 THEN @ ELSE run.commit])
  /\ GoTo(Passed)
  /\ UNCHANGED <<release, parked, made, count>>

\* Every wheel that is there was downloaded by this run.
Undo ==
  LET p == dir[Current] IN
  /\ At("undo")
  /\ IF p.wheels # {}
     THEN \E w \in p.wheels : SetDir([p EXCEPT !.wheels = @ \ {w}]) /\ UNCHANGED run
     ELSE GoTo("restore") /\ UNCHANGED dir
  /\ UNCHANGED <<release, parked, made, count>>

\* Faulty variant: the marks are not put back.
UnsweptWheelsOnly(p) == [p EXCEPT !.asideMark = 0]

Unswept(p) == [p EXCEPT !.mark = p.asideMark, !.asideMark = 0]

Restore ==
  LET p == dir[Current] IN
  /\ At("restore")
  /\ IF p.aside # {}
     THEN /\ SetDir([p EXCEPT !.wheels = @ \cup {First(p.aside)}, !.aside = @ \ {First(@)}])
          /\ UNCHANGED run
     ELSE SetDir(Unswept(p)) /\ GoTo("existing")
  /\ UNCHANGED <<release, parked, made, count>>

\* A failed download makes do with any wheels there are.
UseExisting ==
  /\ At("existing")
  /\ IF dir[Current].wheels # {} THEN GoTo(Passed) ELSE End("failed")
  /\ UNCHANGED <<release, cache, made, count>>

-----------------------------------------------------------------------------
(***************************************************************************)
(* Local builds, and the image.                                            *)
(***************************************************************************)
\* docker build exports a complete set into a staging directory, and it is checked there.
Build ==
  /\ At("build")
  /\ made[Current] + 1 \in Sets(Current)
  /\ made' = [made EXCEPT ![Current] = @ + 1]
  /\ run' = [run EXCEPT !.step = "park", !.listed = made[Current] + 1]
  /\ UNCHANGED <<release, cache, count>>

BuildFails ==
  /\ At("build")
  /\ Tick("fault", MaxFaults)
  /\ End("failed")
  /\ UNCHANGED <<release, cache, made>>

\* promote_wheel_set renames the profile away, the new one into its place.
Park ==
  /\ At("park")
  /\ parked' = [parked EXCEPT ![Current] = dir[Current]]
  /\ SetDir(NoWheels)
  /\ GoTo("promote")
  /\ UNCHANGED <<release, made, count>>

Promote ==
  /\ At("promote")
  /\ SetDir(Profile(Current, run.listed))
  /\ GoTo("unpark")
  /\ UNCHANGED <<release, parked, made, count>>

PromoteFails ==
  /\ At("promote")
  /\ Tick("fault", MaxFaults)
  /\ SetDir(parked[Current])
  /\ parked' = [parked EXCEPT ![Current] = NoWheels]
  /\ End("failed")
  /\ UNCHANGED <<release, made>>

Unpark ==
  /\ At("unpark")
  /\ parked' = [parked EXCEPT ![Current] = NoWheels]
  /\ GoTo(Passed)
  /\ UNCHANGED <<release, dir, made, count>>

\* FlashInfer's wheels are checked before vLLM is begun with.
Validate ==
  /\ At("validate")
  /\ IF Valid("flashinfer", dir["flashinfer"].wheels) THEN run' = Begin(run, "vllm") ELSE End("failed")
  /\ UNCHANGED <<release, cache, made, count>>

\* Both profiles are checked again, and the image is made of them.
MakeImage ==
  /\ At("image")
  /\ End(IF \A c \in Components : Valid(c, dir[c].wheels) THEN "ok" ELSE "failed")
  /\ UNCHANGED <<release, cache, made, count>>

ImageFails ==
  /\ At("image")
  /\ Tick("fault", MaxFaults)
  /\ End("failed")
  /\ UNCHANGED <<release, cache, made>>

Kill ==
  /\ ~At("off")
  /\ Tick("kill", MaxKills)
  /\ run' = [NoRun EXCEPT !.end = "killed", !.found = run.found]
  /\ UNCHANGED <<release, cache, made>>

-----------------------------------------------------------------------------
(***************************************************************************)
(* Releases.                                                               *)
(***************************************************************************)
Downloading(c) == c = Current /\ run.step \in {"page", "decide", "sweep", "fetch", "mark"}

\* A new set takes the place of the old one, complete or not.  Under names that a run is
\* downloading no release is replaced.
Publish(c, kinds) ==
  LET new == made[c] + 1 IN
  /\ new \in Sets(c)
  /\ Downloading(c) => VersionOf[c][new] # VersionOf[c][run.listed]
  /\ made' = [made EXCEPT ![c] = new]
  /\ release' = [release EXCEPT ![c] = [set |-> new, kinds |-> kinds]]
  /\ run' = [run EXCEPT !.upset = ~At("off")]
  /\ UNCHANGED <<cache, count>>

\* The kinds it lacks are added to a release.
Repair(c) ==
  /\ release[c].set # 0
  /\ release[c].kinds # KindsOf[c]
  /\ release' = [release EXCEPT ![c].kinds = KindsOf[c]]
  /\ run' = [run EXCEPT !.upset = ~At("off")]
  /\ UNCHANGED <<cache, made, count>>

Step ==
  \/ CleanUp
  \/ List \/ NotListed \/ ReadCommit \/ KeepLocal \/ NeedDownload
  \/ Sweep \/ Fetch \/ FetchFails \/ Fetched \/ WriteMark \/ Undo \/ Restore \/ UseExisting
  \/ Build \/ BuildFails \/ Park \/ Promote \/ PromoteFails \/ Unpark
  \/ Validate \/ MakeImage \/ ImageFails

Next ==
  \/ \E mode \in [Components -> Modes], clean \in BOOLEAN : Start(mode, clean)
  \/ Step
  \/ Kill
  \/ \E c \in Components : \E lacking \in {{}, {"provider"}} : Publish(c, KindsOf[c] \ lacking)
  \/ \E c \in Components : Repair(c)

Spec == Init /\ [][Next]_vars

-----------------------------------------------------------------------------
(***************************************************************************)
(* Properties.                                                             *)
(***************************************************************************)
Steps == {"off", "clean", "list", "page", "decide", "sweep", "fetch", "undo", "restore",
          "existing", "mark", "build", "park", "promote", "unpark", "validate", "image"}
Profiles(c) == [wheels : SUBSET Wheels(c), mark : Sets(c) \cup {0},
                aside : SUBSET Wheels(c), asideMark : Sets(c) \cup {0}]

\* Every variable has its type.
TypeOK ==
  /\ \A c \in Components :
       /\ release[c] \in [set : Sets(c) \cup {0}, kinds : SUBSET KindsOf[c]]
       /\ {dir[c], parked[c], run.found[c]} \subseteq Profiles(c)
       /\ made[c] \in Sets(c) \cup {0}
  /\ run.step \in Steps /\ run.end \in {"none", "ok", "failed", "killed"}
  /\ run.comp \in Components
  /\ run.listed \in Sets(Current) \cup {0} /\ run.commit \in Sets(Current) \cup {0}
  /\ run.todo \subseteq run.kinds /\ run.kinds \subseteq KindsOf["flashinfer"] \cup KindsOf["vllm"]
  /\ run.mode \in [Components -> Modes] /\ run.upset \in BOOLEAN
  /\ count \in [{"run", "fault", "kill"} -> Nat]

\* An image is only ever made of one whole set of each component, whatever failed or was
\* killed in this run or in those before it.
ImageWhole ==
  [][~At("off") /\ run'.end = "ok" => \A c \in Components : Whole(c, dir[c].wheels)]_vars

\* The commit a profile is marked with, which lets later runs pass without a download and
\* goes into the image's metadata, is the one its wheels were built from.
MarksMatch ==
  \A c \in Components : dir[c].mark # 0 => \A w \in dir[c].wheels : w.set = dir[c].mark

\* A download, build or promotion that is reported to have failed has left the profile as
\* it was found, marks included.
KeptOnFailure ==
  [][\/ At("restore") /\ run'.step = "existing"
     \/ run.step \in {"build", "promote"} /\ run'.step = "off" /\ run'.end = "failed"
     => /\ dir'[Current].wheels = run.found[Current].wheels
        /\ dir'[Current].mark = run.found[Current].mark]_vars

\* A whole set that a run found is on the disk until the run has put another one in its
\* place, at whichever step it is killed.
StillHeld ==
  \A c \in Components : Whole(c, run.found[c].wheels) =>
    \/ Whole(c, dir[c].wheels)
    \/ run.found[c].wheels \subseteq dir[c].wheels \cup dir[c].aside \cup parked[c].wheels

\* A run in which nothing fails and for which every release is whole makes its image,
\* whatever runs before it left behind.
RecoversAlone ==
  [][~At("off") /\ run'.step = "off" /\ run'.end = "failed" => run.upset \/ count' # count]_vars
=============================================================================
