-------------------------- MODULE WheelCacheProofs --------------------------
(***************************************************************************)
(* Theorems about WheelCache, for any number of sets, runs, faults and     *)
(* kills, and whatever versions the sets share.                            *)
(***************************************************************************)
EXTENDS WheelCache, TLAPS

-----------------------------------------------------------------------------
(***************************************************************************)
(* The inductive invariant.                                                *)
(***************************************************************************)
Kinds == {"python", "jit", "provider", "vllm"}
AnyProfile == [wheels : SUBSET [kind : Kinds, set : Nat], mark : Nat,
               aside : SUBSET [kind : Kinds, set : Nat], asideMark : Nat]
AnyRun == [step : Steps, end : {"none", "ok", "failed", "killed"}, comp : Components, listed : Nat,
           kinds : SUBSET Kinds, commit : Nat, todo : SUBSET Kinds, mode : [Components -> Modes],
           upset : BOOLEAN, found : [Components -> AnyProfile]]

Shaped ==
  /\ release \in [Components -> [set : Nat, kinds : SUBSET Kinds]]
  /\ dir \in [Components -> AnyProfile]
  /\ parked \in [Components -> AnyProfile]
  /\ made \in [Components -> Nat]
  /\ run \in AnyRun
  /\ count \in [{"run", "fault", "kill"} -> Nat]

\* The wheels of a profile are of one set, the one it is marked with.
Sound(c, p) ==
  /\ p \in Profiles(c)
  /\ \E s \in Sets(c) : \A w \in p.wheels : w.set = s
  /\ p.mark # 0 => \A w \in p.wheels : w.set = p.mark

\* Nothing but FlashInfer's provider is ever missing from a release.
Offered ==
  \A c \in Components :
    /\ release[c].set \in Sets(c) \cup {0} /\ release[c].kinds \subseteq KindsOf[c]
    /\ made[c] \in Sets(c) \cup {0}
    /\ c = "vllm" /\ release[c].set # 0 => release[c].kinds = KindsOf[c]

Kept == \A c \in Components : Sound(c, dir[c]) /\ Sound(c, parked[c]) /\ Sound(c, run.found[c])

\* What a run knows of the release it downloads from.
Listing ==
  run.step \in {"page", "decide", "sweep", "fetch", "mark"} =>
    /\ run.listed \in Sets(Current) /\ release[Current].set # 0
    /\ run.kinds \subseteq KindsOf[Current]
    /\ run.kinds # KindsOf[Current] => run.upset = TRUE /\ Current = "flashinfer"
    /\ Answers => release[Current].set = run.listed /\ run.commit \in {0, run.listed}
    /\ ~Answers => run.upset = TRUE

\* Where the wheels are that a run found, and those it has brought.
Placed ==
  LET p == dir[Current]
      f == run.found[Current]
  IN
  /\ run.step \in {"list", "page", "decide", "build", "park"} => p = f
  /\ run.step = "sweep" => p.wheels \cup p.aside = f.wheels /\ p.mark = f.mark /\ p.asideMark = 0
  /\ run.step \in {"fetch", "undo"} => p.mark = 0 /\ p.aside = f.wheels /\ p.asideMark = f.mark
  /\ run.step = "fetch" =>
       /\ p.wheels = [kind : run.kinds \ run.todo, set : {run.listed}]
       /\ run.kinds # run.todo => run.commit \in {0, run.listed}
  /\ run.step = "restore" => p.mark = 0 /\ p.wheels \cup p.aside = f.wheels /\ p.asideMark = f.mark
  /\ run.step = "existing" => p.wheels = f.wheels /\ p.mark = f.mark
  /\ run.step = "mark" => /\ p.wheels = [kind : KindsOf[Current], set : {run.listed}]
                          /\ p.mark = 0 /\ run.commit \in {0, run.listed}
  /\ run.step = "promote" => parked[Current] = f
  /\ run.step = "unpark" => p = Profile(Current, run.listed)
  /\ run.step \in {"park", "promote", "unpark"} => run.listed \in Sets(Current)

\* FlashInfer comes first, and what is not marked as upset has gone well.
Ordered ==
  /\ run.step # "off" => run.end = "none"
  /\ run.step \in {"off", "clean", "validate"} => Current = "flashinfer"
  /\ run.step = "image" => Current = "vllm"
  /\ run.step = "clean" => \A c \in Components : run.found[c] = NoWheels
  /\ Current = "vllm" => Whole("flashinfer", dir["flashinfer"].wheels)
  /\ Current = "flashinfer" /\ run.step \notin {"off", "clean"} => dir["vllm"] = run.found["vllm"]
  /\ run.step \in {"undo", "restore", "existing"} => run.upset = TRUE
  /\ run.step \in {"validate", "image"} => run.upset = TRUE \/ Whole(Current, dir[Current].wheels)

\* What a run was told of a component is about that component.
Told ==
  /\ run.listed \in Sets(Current) \cup {0} /\ run.commit \in Sets(Current) \cup {0}
  /\ run.todo \subseteq run.kinds
  /\ run.step = "list" => run.todo = {}

IInv == Shaped /\ Offered /\ Kept /\ Listing /\ Placed /\ Ordered /\ Told /\ StillHeld

-----------------------------------------------------------------------------
(***************************************************************************)
(* Sets of wheels.                                                         *)
(***************************************************************************)
LEMMA Components2 == Components = {"flashinfer", "vllm"} /\ "flashinfer" # "vllm"
  BY DEF Components

\* A glob names a wheel that is there.
LEMMA FirstIn ==
  ASSUME NEW c \in Components, NEW W \in SUBSET Wheels(c), W # {}
  PROVE  First(W) \in W
<1>1. \A w \in W : Rank[w.kind] \in {1, 2, 3, 4}
  BY DEF Wheels, KindsOf, Rank, Components
<1>2. \E w \in W : \A v \in W : Rank[w.kind] <= Rank[v.kind]
  <2>1. CASE \E w \in W : Rank[w.kind] = 1
    BY <1>1, <2>1
  <2>2. CASE (\A w \in W : Rank[w.kind] # 1) /\ (\E w \in W : Rank[w.kind] = 2)
    BY <1>1, <2>2
  <2>3. CASE (\A w \in W : Rank[w.kind] \notin {1, 2}) /\ (\E w \in W : Rank[w.kind] = 3)
    BY <1>1, <2>3
  <2>4. CASE \A w \in W : Rank[w.kind] = 4
    BY <2>4
  <2> QED
    BY <1>1, <2>1, <2>2, <2>3, <2>4
<1> QED
  BY <1>2 DEF First

\* FlashInfer's wheels are of two kinds or more, vLLM's of one.
LEMMA KindsThere == \A c \in Components : KindsOf[c] # {} /\ KindsOf[c] \subseteq Kinds
  BY DEF KindsOf, Kinds, Components

\* One wheel of each kind, all of one set, is the whole set.
LEMMA ValidWhole ==
  ASSUME NEW c \in Components, NEW p, Sound(c, p), Valid(c, p.wheels)
  PROVE  Whole(c, p.wheels)
<1>1. PICK s \in Sets(c) : \A w \in p.wheels : w.set = s
  BY DEF Sound
<1>2. p.wheels \subseteq [kind : KindsOf[c], set : {s}]
  BY <1>1 DEF Sound, Profiles, Wheels
<1>3. ASSUME NEW k \in KindsOf[c]
      PROVE  [kind |-> k, set |-> s] \in p.wheels
  <2>1. PICK w \in p.wheels : {v \in p.wheels : v.kind = k} = {w}
    BY DEF Valid, One
  <2>2. w.kind = k /\ w.set = s /\ w \in [kind : KindsOf[c], set : {s}]
    BY <1>1, <1>2, <2>1
  <2> QED
    BY <2>2
<1>4. p.wheels = [kind : KindsOf[c], set : {s}]
  <2>1. ASSUME NEW w \in [kind : KindsOf[c], set : {s}]
        PROVE  w \in p.wheels
    <3>1. w = [kind |-> w.kind, set |-> s] /\ w.kind \in KindsOf[c]
      OBVIOUS
    <3> QED
      BY <1>3, <3>1
  <2> QED
    BY <1>2, <2>1
<1> QED
  BY <1>3, <1>4, KindsThere DEF Whole

\* A whole set is there once of each kind, and its pins agree.
LEMMA WholeValid ==
  ASSUME NEW c \in Components, NEW W, Whole(c, W)
  PROVE  Valid(c, W)
<1>1. PICK s \in Sets(c) : W = [kind : KindsOf[c], set : {s}]
  BY DEF Whole
<1>2. ASSUME NEW k \in KindsOf[c]
      PROVE  One(W, k)
  <2>1. [kind |-> k, set |-> s] \in W /\ {v \in W : v.kind = k} = {[kind |-> k, set |-> s]}
    BY <1>1
  <2> QED
    BY <2>1 DEF One
<1>3. \A w \in W : w.set = s
  BY <1>1
<1> QED
  BY <1>2, <1>3 DEF Valid

\* A wheel of vLLM's is a whole set of them.
LEMMA AnyVllmWhole ==
  ASSUME NEW p, Sound("vllm", p), p.wheels # {}
  PROVE  Whole("vllm", p.wheels)
<1>1. PICK s \in Sets("vllm") : \A w \in p.wheels : w.set = s
  BY DEF Sound, Components
<1>2. p.wheels \subseteq [kind : {"vllm"}, set : {s}]
  BY <1>1 DEF Sound, Profiles, Wheels, KindsOf
<1>3. p.wheels = [kind : {"vllm"}, set : {s}]
  <2>1. \A w \in [kind : {"vllm"}, set : {s}] : w = [kind |-> "vllm", set |-> s]
    OBVIOUS
  <2> QED
    BY <1>2, <2>1
<1> QED
  BY <1>3 DEF Whole, KindsOf

\* An empty profile is sound.
LEMMA NoWheelsSound ==
  ASSUME NEW c \in Components
  PROVE  Sound(c, NoWheels) /\ NoWheels \in AnyProfile /\ ~Whole(c, NoWheels.wheels)
  BY WheelAssumption DEF Sound, NoWheels, Profiles, AnyProfile, Sets, Whole

\* So is a profile of one set, which is whole.
LEMMA ProfileSound ==
  ASSUME NEW c \in Components, NEW s \in Sets(c)
  PROVE  /\ Sound(c, Profile(c, s)) /\ Whole(c, Profile(c, s).wheels)
         /\ Profile(c, s).wheels = [kind : KindsOf[c], set : {s}] /\ Profile(c, s) \in AnyProfile
<1>1. /\ Profile(c, s).wheels = [kind : KindsOf[c], set : {s}] /\ Profile(c, s).mark = s
      /\ Profile(c, s).aside = {} /\ Profile(c, s).asideMark = 0
  BY NoWheelsSound DEF Profile, NoWheels, AnyProfile
<1>2. PICK k \in KindsOf[c] : TRUE
  BY KindsThere
<1>3. [kind |-> k, set |-> s] \in [kind : KindsOf[c], set : {s}]
  OBVIOUS
<1>4. [kind : KindsOf[c], set : {s}] \subseteq Wheels(c) /\ s \in Nat
  BY WheelAssumption DEF Wheels, Sets
<1>5. Wheels(c) \subseteq [kind : Kinds, set : Nat]
  BY KindsThere, WheelAssumption DEF Wheels, Sets
<1>6. Profile(c, s) \in Profiles(c) /\ Profile(c, s) \in AnyProfile
  BY <1>1, <1>4, <1>5, NoWheelsSound DEF Profiles, AnyProfile, Profile
<1>7. Whole(c, Profile(c, s).wheels)
  BY <1>1, <1>3 DEF Whole
<1>8. \A w \in Profile(c, s).wheels : w.set = s
  BY <1>1
<1>9. Sound(c, Profile(c, s))
  BY <1>1, <1>6, <1>8 DEF Sound
<1> QED
  BY <1>1, <1>6, <1>7, <1>9

\* A profile with fewer wheels, or without its mark, is still sound.
LEMMA FewerSound ==
  ASSUME NEW c \in Components, NEW p, Sound(c, p),
         NEW q \in Profiles(c), q.wheels \subseteq p.wheels, q.mark \in {0, p.mark}
  PROVE  Sound(c, q)
  BY DEF Sound

-----------------------------------------------------------------------------
(***************************************************************************)
(* Steps within a component.                                               *)
(***************************************************************************)
\* A step of a run that stays with its component.
Turns(step, listed, kinds, commit, todo, upset) ==
  /\ run' \in AnyRun
  /\ run'.step = step /\ run'.listed = listed /\ run'.kinds = kinds /\ run'.commit = commit
  /\ run'.todo = todo /\ run'.upset = upset
  /\ run'.comp = run.comp /\ run'.found = run.found /\ run'.end = run.end

\* A step changes the profile of its component alone.
LEMMA OneProfile ==
  ASSUME IInv, NEW q \in AnyProfile, dir' = [dir EXCEPT ![Current] = q]
  PROVE  /\ dir' \in [Components -> AnyProfile] /\ dir'[Current] = q
         /\ \A c \in Components : c # Current => dir'[c] = dir[c]
         /\ Current \in Components
  BY DEF Current, IInv, Shaped, AnyRun

\* What is sound and holds what the run found leaves everything else as it is.
LEMMA Settled ==
  ASSUME IInv, NEW q \in AnyProfile, Sound(Current, q), dir' = [dir EXCEPT ![Current] = q],
         Whole(Current, run.found[Current].wheels) =>
           Whole(Current, q.wheels)
           \/ run.found[Current].wheels \subseteq q.wheels \cup q.aside \cup parked[Current].wheels,
         run'.found = run.found, UNCHANGED <<release, parked, made>>
  PROVE  Offered' /\ Kept' /\ StillHeld'
<1>1. /\ dir'[Current] = q /\ Current \in Components
      /\ \A c \in Components : c # Current => dir'[c] = dir[c]
  BY OneProfile
<1>2. Kept'
  <2>1. SUFFICES ASSUME NEW c \in Components
                 PROVE  Sound(c, dir'[c]) /\ Sound(c, parked[c]) /\ Sound(c, run.found[c])
    BY DEF Kept, Sound, Profiles
  <2> QED
    BY <1>1, <2>1 DEF Current, IInv, Kept
<1>3. StillHeld'
  <2>1. SUFFICES ASSUME NEW c \in Components, Whole(c, run.found[c].wheels)
                 PROVE  \/ Whole(c, dir'[c].wheels)
                        \/ run.found[c].wheels \subseteq dir'[c].wheels \cup dir'[c].aside \cup parked[c].wheels
    BY DEF StillHeld, Whole
  <2>2. CASE c = Current
    BY <1>1, <2>1, <2>2
  <2>3. CASE c # Current
    BY <1>1, <2>1, <2>3 DEF Current, IInv, StillHeld
  <2> QED
    BY <2>2, <2>3
<1>4. Offered'
  BY DEF Current, Offered, IInv
<1> QED
  BY <1>2, <1>3, <1>4

\* So does a step that changes no profile.
LEMMA SameProfiles ==
  ASSUME IInv, UNCHANGED <<release, dir, parked, made>>, run'.found = run.found
  PROVE  Offered' /\ Kept' /\ StillHeld'
<1>1. Kept'
  BY DEF Current, IInv, Kept, Sound, Profiles
<1>2. StillHeld'
  BY DEF Current, IInv, StillHeld, Whole
<1>3. Offered'
  BY DEF Current, IInv, Offered
<1> QED
  BY <1>1, <1>2, <1>3

\* The steps that only go on.
LEMMA GoToTurns ==
  ASSUME IInv, NEW step \in Steps, GoTo(step)
  PROVE  Turns(step, run.listed, run.kinds, run.commit, run.todo, run.upset)
  BY DEF Current, IInv, Shaped, AnyRun, GoTo, Turns

\* A fault is counted, and upsets the run.
LEMMA FaultTurns ==
  ASSUME IInv, NEW step \in Steps, Fault(step)
  PROVE  /\ Turns(step, run.listed, run.kinds, run.commit, run.todo, TRUE)
         /\ count' \in [{"run", "fault", "kill"} -> Nat] /\ count' # count
<1>1. Turns(step, run.listed, run.kinds, run.commit, run.todo, TRUE)
  BY DEF Current, IInv, Shaped, AnyRun, Fault, Turns
<1>2. count' = [count EXCEPT !["fault"] = @ + 1] /\ count \in [{"run", "fault", "kill"} -> Nat]
  BY DEF Current, Fault, Tick, IInv, Shaped
<1>3. count'["fault"] = count["fault"] + 1 /\ count["fault"] \in Nat
  BY <1>2
<1>4. count' # count
  BY <1>3
<1>5. count' \in [{"run", "fault", "kill"} -> Nat]
  BY <1>2
<1> QED
  BY <1>1, <1>4, <1>5

\* A component's step follows when its wheels are there.
LEMMA PassedIn == Passed \in {"validate", "image"} /\ Passed \in Steps
  BY DEF Passed, Steps

LEMMA ListStep ==
  ASSUME IInv, List
  PROVE  IInv'
<1>1. /\ run.step = "list" /\ release[Current].set # 0 /\ UNCHANGED <<release, cache, made, count>>
      /\ Current \in Components /\ release[Current].set \in Nat /\ release[Current].kinds \in SUBSET Kinds
  BY DEF Current, List, At, IInv, Shaped, AnyRun
<1>2. /\ run' \in AnyRun /\ run'.step = "page" /\ run'.listed = release[Current].set
      /\ run'.kinds = release[Current].kinds /\ run'.commit = 0 /\ run'.todo = run.todo
      /\ run'.comp = run.comp /\ run'.found = run.found /\ run'.end = run.end
      /\ run'.upset = (run.upset \/ release[Current].kinds # KindsOf[Current])
  BY <1>1 DEF Current, List, IInv, Shaped, AnyRun, Steps
<1>3. run'.kinds # KindsOf[Current] => run'.upset = TRUE
  BY <1>2
<1>4. Shaped' /\ Offered' /\ Kept' /\ StillHeld'
  BY <1>1, <1>2, SameProfiles DEF Current, cache, IInv, Shaped
<1>5. Listing'
  BY <1>1, <1>2, <1>3, Components2 DEF Current, Listing, Answers, IInv, Offered
<1>6. Placed'
  BY <1>1, <1>2 DEF Current, IInv, Placed, cache
<1>7. Ordered'
  BY <1>1, <1>2 DEF Current, IInv, Ordered, cache, Whole
<1>8. Told'
  BY <1>1, <1>2 DEF Current, IInv, Told, Offered
<1> QED
  BY <1>4, <1>5, <1>6, <1>7, <1>8 DEF Current, IInv

LEMMA NotListedStep ==
  ASSUME IInv, NotListed
  PROVE  IInv'
<1>1. /\ run.step = "list" /\ UNCHANGED <<release, cache, made>>
      /\ count' \in [{"run", "fault", "kill"} -> Nat]
      /\ Turns("existing", run.listed, run.kinds, run.commit, run.todo, TRUE)
  <2>1. CASE Fault("existing")
    BY <2>1, FaultTurns DEF NotListed, At, Steps
  <2>2. CASE run' = [run EXCEPT !.step = "existing", !.upset = TRUE] /\ UNCHANGED count
    BY <2>2 DEF Current, NotListed, At, IInv, Shaped, AnyRun, Turns, Steps
  <2> QED
    BY <2>1, <2>2 DEF NotListed
<1>2. Shaped' /\ Offered' /\ Kept' /\ StillHeld'
  BY <1>1, SameProfiles DEF Current, cache, IInv, Shaped, Turns
<1>3. Listing' /\ Placed'
  BY <1>1 DEF Current, IInv, Listing, Placed, cache, Turns
<1>4. Ordered' /\ Told'
  BY <1>1 DEF Current, IInv, Ordered, Told, cache, Turns, Whole
<1> QED
  BY <1>2, <1>3, <1>4 DEF Current, IInv

LEMMA ReadCommitStep ==
  ASSUME IInv, ReadCommit
  PROVE  IInv'
<1>1. /\ run.step = "page" /\ UNCHANGED <<release, cache, made>>
      /\ count' \in [{"run", "fault", "kill"} -> Nat]
      /\ \/ Turns("decide", run.listed, run.kinds, release[Current].set, run.todo, run.upset)
         \/ Turns("decide", run.listed, run.kinds, run.commit, run.todo, TRUE)
  <2>1. CASE Fault("decide")
    BY <2>1, FaultTurns DEF ReadCommit, At, Steps
  <2>2. CASE run' = [run EXCEPT !.step = "decide", !.commit = release[Current].set] /\ UNCHANGED count
    BY <2>2 DEF Current, ReadCommit, At, IInv, Shaped, AnyRun, Turns, Steps
  <2> QED
    BY <2>1, <2>2 DEF ReadCommit
<1>2. Shaped' /\ Offered' /\ Kept' /\ StillHeld'
  BY <1>1, SameProfiles DEF Current, cache, IInv, Shaped, Turns
<1>3. Listing'
  BY <1>1 DEF Current, IInv, Listing, Answers, Turns
<1>4. Placed'
  BY <1>1 DEF Current, IInv, Placed, cache, Turns
<1>5. Ordered' /\ Told'
  BY <1>1 DEF Current, IInv, Ordered, Told, Offered, cache, Turns, Whole, Shaped, AnyRun
<1> QED
  BY <1>2, <1>3, <1>4, <1>5 DEF Current, IInv

\* Wheels that are made do with without a download are a whole set.
LEMMA UpToDateWhole ==
  ASSUME IInv, run.step = "decide", UpToDate
  PROVE  Whole(Current, dir[Current].wheels)
<1>1. Current \in Components /\ Sound(Current, dir[Current])
  BY DEF Current, IInv, Kept, Shaped, AnyRun
<1>2. CASE Current = "flashinfer"
  BY <1>1, <1>2, ValidWhole DEF UpToDate, Incomplete
<1>3. CASE Current = "vllm"
  <2>1. "vllm" \in run.kinds
    BY <1>3, Components2 DEF Current, IInv, Listing, KindsOf
  <2>2. dir["vllm"].wheels # {}
    BY <1>3, <2>1 DEF UpToDate, Present, LocalNewer, Named
  <2> QED
    BY <1>1, <1>3, <2>2, AnyVllmWhole
<1> QED
  BY <1>1, <1>2, <1>3 DEF Components

LEMMA KeepLocalStep ==
  ASSUME IInv, KeepLocal
  PROVE  IInv'
<1>1. /\ run.step = "decide" /\ UpToDate /\ UNCHANGED <<release, cache, made, count>>
      /\ Turns(Passed, run.listed, run.kinds, run.commit, run.todo, run.upset)
  BY PassedIn, GoToTurns DEF KeepLocal, At
<1>2. Shaped' /\ Offered' /\ Kept' /\ StillHeld'
  BY <1>1, SameProfiles DEF Current, cache, IInv, Shaped, Turns
<1>3. Listing' /\ Placed'
  BY <1>1, PassedIn DEF Current, IInv, Listing, Placed, cache, Turns
<1>4. Whole(Current, dir[Current].wheels) /\ Current \in Components
  BY <1>1, UpToDateWhole DEF Current, IInv, Shaped, AnyRun
<1>5. Ordered' /\ Told'
  BY <1>1, <1>4, PassedIn DEF Current, IInv, Ordered, Told, cache, Turns, Whole, Passed, Components
<1> QED
  BY <1>2, <1>3, <1>5 DEF Current, IInv

LEMMA NeedDownloadStep ==
  ASSUME IInv, NeedDownload
  PROVE  IInv'
<1> DEFINE p == dir[Current]
           q == [p EXCEPT !.aside = {}, !.asideMark = 0]
<1>1. /\ run.step = "decide" /\ UNCHANGED <<release, parked, made>>
      /\ count' \in [{"run", "fault", "kill"} -> Nat] /\ dir' = [dir EXCEPT ![Current] = q]
      /\ \/ Turns("sweep", run.listed, run.kinds, run.commit, run.todo, run.upset)
         \/ Turns("sweep", run.listed, run.kinds, run.commit, run.todo, TRUE)
  <2>1. CASE Fault("sweep")
    BY <2>1, FaultTurns DEF NeedDownload, At, Steps, SetDir
  <2>2. CASE GoTo("sweep") /\ UNCHANGED count
    BY <2>2, GoToTurns DEF NeedDownload, At, Steps, SetDir, IInv, Shaped
  <2> QED
    BY <2>1, <2>2 DEF NeedDownload
<1>2. /\ p = run.found[Current] /\ p \in AnyProfile /\ p \in Profiles(Current) /\ Sound(Current, p)
      /\ Current \in Components
  BY <1>1 DEF Current, IInv, Placed, Kept, Shaped, AnyRun, Sound
<1>3. /\ q \in AnyProfile /\ q \in Profiles(Current) /\ q.wheels = p.wheels /\ q.mark = p.mark
      /\ q.asideMark = 0 /\ q.aside = {}
  BY <1>2 DEF AnyProfile, Profiles
<1>4. Sound(Current, q)
  BY <1>2, <1>3, FewerSound
<1> HIDE DEF q
<1>5. Offered' /\ Kept' /\ StillHeld' /\ run'.found = run.found
  BY <1>1, <1>2, <1>3, <1>4, Settled DEF Turns
<1>6. /\ dir' \in [Components -> AnyProfile] /\ dir'[Current] = q
      /\ \A c \in Components : c # Current => dir'[c] = dir[c]
  BY <1>1, <1>3, OneProfile
<1>7. Shaped'
  BY <1>1, <1>6 DEF Current, IInv, Shaped, Turns
<1>8. Listing'
  BY <1>1 DEF Current, IInv, Listing, Answers, Turns
<1>9. Placed'
  <2>1. run'.step = "sweep" /\ run'.comp = run.comp /\ run'.found = run.found
    BY <1>1 DEF Turns
  <2>2. /\ q.wheels \cup q.aside = run.found[Current].wheels
        /\ q.mark = run.found[Current].mark /\ q.asideMark = 0
    BY <1>2, <1>3
  <2> QED
    BY <1>6, <2>1, <2>2 DEF Current, Placed
<1>10. Ordered' /\ Told'
  BY <1>1, <1>6, Components2 DEF Current, IInv, Ordered, Told, Turns, Whole
<1> QED
  BY <1>5, <1>7, <1>8, <1>9, <1>10 DEF IInv

LEMMA SweepStep ==
  ASSUME IInv, Sweep
  PROVE  IInv'
<1> DEFINE p == dir[Current]
           f == run.found[Current]
<1>1. /\ run.step = "sweep" /\ UNCHANGED <<release, parked, made, count>>
      /\ p \in AnyProfile /\ p \in Profiles(Current) /\ Sound(Current, p) /\ Current \in Components
      /\ p.wheels \cup p.aside = f.wheels /\ p.mark = f.mark /\ p.asideMark = 0
  BY DEF Current, Sweep, At, IInv, Placed, Kept, Shaped, AnyRun, Sound
<1>2. CASE p.wheels # {}
  <2>1. PICK w \in p.wheels : w = First(p.wheels)
    BY <1>1, <1>2, FirstIn DEF Profiles
  <2> DEFINE q == [p EXCEPT !.wheels = @ \ {w}, !.aside = @ \cup {w}]
  <2>2. dir' = [dir EXCEPT ![Current] = q] /\ run' = run
    BY <1>2, <2>1 DEF Sweep, SetDir
  <2>3. /\ q \in AnyProfile /\ q \in Profiles(Current) /\ q.wheels = p.wheels \ {w} /\ q.mark = p.mark
        /\ q.aside = p.aside \cup {w} /\ q.asideMark = 0
    BY <1>1, <2>1 DEF AnyProfile, Profiles
  <2>4. Sound(Current, q)
    BY <1>1, <2>3, FewerSound
  <2>5. q.wheels \cup q.aside = f.wheels
    BY <1>1, <2>1, <2>3
  <2>6. Offered' /\ Kept' /\ StillHeld'
    BY <1>1, <2>2, <2>3, <2>4, <2>5, Settled
  <2>7. /\ dir' \in [Components -> AnyProfile] /\ dir'[Current] = q
        /\ \A c \in Components : c # Current => dir'[c] = dir[c]
    BY <2>2, <2>3, OneProfile
  <2>8. Shaped' /\ Listing'
    BY <1>1, <2>2, <2>7 DEF Current, IInv, Shaped, Listing, Answers
  <2>9. Placed'
    BY <1>1, <2>2, <2>3, <2>5, <2>7 DEF Current, Placed
  <2>10. Ordered' /\ Told'
    BY <1>1, <2>2, <2>7, Components2 DEF Current, IInv, Ordered, Told, Whole
  <2> QED
    BY <2>6, <2>8, <2>9, <2>10 DEF IInv
<1>3. CASE p.wheels = {}
  <2> DEFINE q == Swept(p)
  <2>1. /\ dir' = [dir EXCEPT ![Current] = q]
        /\ Turns("fetch", run.listed, run.kinds, run.commit, run.kinds, run.upset)
    <3>1. dir' = [dir EXCEPT ![Current] = q] /\ run' = [run EXCEPT !.step = "fetch", !.todo = run.kinds]
      BY <1>3 DEF Sweep, SetDir
    <3> QED
      BY <3>1 DEF Turns, IInv, Shaped, AnyRun, Steps
  <2>2. /\ q \in AnyProfile /\ q \in Profiles(Current) /\ q.wheels = {} /\ q.mark = 0
        /\ q.aside = p.aside /\ q.asideMark = p.mark
    BY <1>1, <1>3 DEF AnyProfile, Profiles, Swept
  <2>3. Sound(Current, q)
    BY <1>1, <2>2, FewerSound
  <2>4. q.aside = f.wheels
    BY <1>1, <1>3, <2>2
  <2>5. Offered' /\ Kept' /\ StillHeld'
    BY <1>1, <2>1, <2>2, <2>3, <2>4, Settled DEF Turns
  <2>6. /\ dir' \in [Components -> AnyProfile] /\ dir'[Current] = q
        /\ \A c \in Components : c # Current => dir'[c] = dir[c]
    BY <2>1, <2>2, OneProfile
  <2>7. Shaped' /\ Listing'
    BY <1>1, <2>1, <2>6 DEF Current, IInv, Shaped, Listing, Answers, Turns
  <2>8. [kind : run.kinds \ run.kinds, set : {run.listed}] = {}
    OBVIOUS
  <2>9. Placed'
    BY <1>1, <2>1, <2>2, <2>4, <2>6, <2>8 DEF Current, Placed, Turns
  <2>10. Ordered' /\ Told'
    BY <1>1, <2>1, <2>6, Components2 DEF Current, IInv, Ordered, Told, Whole, Turns
  <2> QED
    BY <2>5, <2>7, <2>9, <2>10 DEF IInv
<1> QED
  BY <1>2, <1>3

LEMMA FetchStep ==
  ASSUME IInv, Fetch
  PROVE  IInv'
<1> DEFINE p == dir[Current]
           f == run.found[Current]
<1>1. /\ run.step = "fetch" /\ UNCHANGED <<release, parked, made, count>>
      /\ p \in AnyProfile /\ p \in Profiles(Current) /\ Sound(Current, p) /\ Current \in Components
      /\ p.aside = f.wheels /\ p.asideMark = f.mark /\ p.mark = 0
      /\ p.wheels = [kind : run.kinds \ run.todo, set : {run.listed}]
  BY DEF Current, Fetch, At, IInv, Placed, Kept, Shaped, AnyRun, Sound
<1>2. PICK k \in run.todo :
        /\ dir' = [dir EXCEPT ![Current] = [p EXCEPT !.wheels = @ \cup {[kind |-> k, set |-> release[Current].set]}]]
        /\ run' = [run EXCEPT !.todo = @ \ {k}]
  BY DEF Fetch, SetDir
<1>3. /\ release[Current].set = run.listed /\ run.commit \in {0, run.listed}
      /\ run.listed \in Sets(Current) /\ run.kinds \subseteq KindsOf[Current] /\ run.todo \subseteq run.kinds
  BY <1>1 DEF Current, Fetch, IInv, Listing, Told
<1>4. PICK w \in Wheels(Current) : w = [kind |-> k, set |-> run.listed]
  BY <1>3 DEF Wheels
<1> DEFINE q == [p EXCEPT !.wheels = @ \cup {w}]
<1>5. dir' = [dir EXCEPT ![Current] = q]
  BY <1>2, <1>3, <1>4
<1>6. Turns("fetch", run.listed, run.kinds, run.commit, run.todo \ {k}, run.upset)
  BY <1>1, <1>2 DEF Turns, IInv, Shaped, AnyRun
<1>7. Wheels(Current) \subseteq [kind : Kinds, set : Nat]
  BY <1>1, KindsThere, WheelAssumption DEF Wheels, Sets
<1>8. /\ q \in AnyProfile /\ q \in Profiles(Current) /\ q.wheels = p.wheels \cup {w} /\ q.mark = 0
      /\ q.aside = p.aside /\ q.asideMark = p.asideMark
  BY <1>1, <1>7 DEF AnyProfile, Profiles
<1>9. q.wheels = [kind : run.kinds \ (run.todo \ {k}), set : {run.listed}]
  <2>1. ASSUME NEW v \in [kind : run.kinds \ (run.todo \ {k}), set : {run.listed}]
        PROVE  v \in p.wheels \cup {w}
    <3>1. v = [kind |-> v.kind, set |-> run.listed] /\ v.kind \in run.kinds \ (run.todo \ {k})
      OBVIOUS
    <3> QED
      BY <1>1, <1>4, <3>1
  <2>2. p.wheels \cup {w} \subseteq [kind : run.kinds \ (run.todo \ {k}), set : {run.listed}]
    BY <1>1, <1>3, <1>4
  <2> QED
    BY <1>8, <2>1, <2>2
<1>10. Sound(Current, q)
  <2>1. \A v \in q.wheels : v.set = run.listed
    BY <1>9
  <2> QED
    BY <1>3, <1>8, <2>1 DEF Sound
<1>11. Offered' /\ Kept' /\ StillHeld'
  BY <1>1, <1>5, <1>6, <1>8, <1>10, Settled DEF Turns
<1>12. /\ dir' \in [Components -> AnyProfile] /\ dir'[Current] = q
       /\ \A c \in Components : c # Current => dir'[c] = dir[c]
  BY <1>5, <1>8, OneProfile
<1>13. Shaped' /\ Listing'
  BY <1>1, <1>6, <1>12 DEF Current, IInv, Shaped, Listing, Answers, Turns
<1>14. Placed'
  BY <1>1, <1>3, <1>6, <1>8, <1>9, <1>12 DEF Current, Placed, Turns
<1>15. Ordered' /\ Told'
  BY <1>1, <1>6, <1>12, Components2 DEF Current, IInv, Ordered, Told, Whole, Turns
<1> QED
  BY <1>11, <1>13, <1>14, <1>15 DEF IInv

LEMMA FetchFailsStep ==
  ASSUME IInv, FetchFails
  PROVE  IInv'
<1>1. /\ run.step = "fetch" /\ UNCHANGED <<release, cache, made>>
      /\ count' \in [{"run", "fault", "kill"} -> Nat]
      /\ Turns("undo", run.listed, run.kinds, run.commit, run.todo, TRUE)
  <2>1. CASE Answers
    BY <2>1, FaultTurns DEF FetchFails, At, Steps
  <2>2. CASE ~Answers
    <3>1. run.step = "fetch" /\ run.upset = TRUE /\ GoTo("undo") /\ UNCHANGED <<release, cache, made, count>>
      BY <2>2 DEF FetchFails, At, IInv, Listing
    <3> QED
      BY <3>1, GoToTurns DEF IInv, Shaped, Steps
  <2> QED
    BY <2>1, <2>2
<1>2. Shaped' /\ Offered' /\ Kept' /\ StillHeld'
  BY <1>1, SameProfiles DEF cache, IInv, Shaped, Turns
<1>3. Listing' /\ Placed'
  BY <1>1 DEF Current, IInv, Listing, Placed, cache, Turns
<1>4. Ordered' /\ Told'
  BY <1>1 DEF Current, IInv, Ordered, Told, cache, Turns, Whole
<1> QED
  BY <1>2, <1>3, <1>4 DEF IInv

\* A download that reaches its end has brought all of its set.
LEMMA FetchedWhole ==
  ASSUME IInv, run.step = "fetch", run.todo = {}
  PROVE  /\ dir[Current].wheels = [kind : run.kinds, set : {run.listed}]
         /\ ~Incomplete => run.kinds = KindsOf[Current]
         /\ Incomplete => run.upset = TRUE
<1>1. /\ dir[Current].wheels = [kind : run.kinds, set : {run.listed}] /\ run.listed \in Sets(Current)
      /\ run.kinds \subseteq KindsOf[Current] /\ Current \in Components /\ Sound(Current, dir[Current])
      /\ run.kinds # KindsOf[Current] => run.upset = TRUE /\ Current = "flashinfer"
  BY DEF Current, IInv, Placed, Listing, Kept, Shaped, AnyRun
<1>2. ASSUME run.kinds = KindsOf[Current]
      PROVE  ~Incomplete
  <2>1. PICK k \in KindsOf[Current] : TRUE
    BY <1>1, KindsThere
  <2>2. [kind |-> k, set |-> run.listed] \in dir[Current].wheels
    BY <1>1, <1>2
  <2>3. Whole(Current, dir[Current].wheels)
    BY <1>1, <1>2, <2>2 DEF Whole
  <2> QED
    BY <1>1, <2>3, WholeValid DEF Incomplete
<1>3. ASSUME run.kinds # KindsOf[Current]
      PROVE  Incomplete
  <2>1. PICK k \in KindsOf[Current] : k \notin run.kinds
    BY <1>1, <1>3
  <2>2. ~One(dir[Current].wheels, k)
    BY <1>1, <2>1 DEF One
  <2> QED
    BY <1>1, <1>3, <2>2 DEF Incomplete, Valid
<1> QED
  BY <1>1, <1>2, <1>3

LEMMA FetchedStep ==
  ASSUME IInv, Fetched
  PROVE  IInv'
<1> DEFINE p == dir[Current]
           f == run.found[Current]
           q == [p EXCEPT !.aside = {}, !.asideMark = 0]
<1>1. /\ run.step = "fetch" /\ run.todo = {} /\ UNCHANGED <<release, parked, made, count>>
      /\ p \in AnyProfile /\ p \in Profiles(Current) /\ Sound(Current, p) /\ Current \in Components
      /\ p.mark = 0 /\ p.aside = f.wheels /\ p.asideMark = f.mark
      /\ run.listed \in Sets(Current) /\ (run.kinds # {} => run.commit \in {0, run.listed})
  BY DEF Current, Fetched, At, IInv, Placed, Kept, Shaped, AnyRun, Sound, Listing
<1>2. CASE Incomplete
  <2>1. UNCHANGED dir /\ run.upset = TRUE
        /\ Turns("undo", run.listed, run.kinds, run.commit, run.todo, run.upset)
    BY <1>1, <1>2, FetchedWhole, GoToTurns DEF Fetched, Steps
  <2>2. Shaped' /\ Offered' /\ Kept' /\ StillHeld'
    BY <1>1, <2>1, SameProfiles DEF IInv, Shaped, Turns
  <2>3. Listing' /\ Placed'
    BY <1>1, <2>1 DEF Current, IInv, Listing, Placed, Turns
  <2>4. Ordered' /\ Told'
    BY <1>1, <2>1 DEF Current, IInv, Ordered, Told, Turns, Whole
  <2> QED
    BY <2>2, <2>3, <2>4 DEF IInv
<1>3. CASE ~Incomplete
  <2>1. /\ dir' = [dir EXCEPT ![Current] = q]
        /\ Turns("mark", run.listed, run.kinds, run.commit, run.todo, run.upset)
    BY <1>3, GoToTurns DEF Fetched, SetDir, Steps
  <2>2. /\ q \in AnyProfile /\ q \in Profiles(Current) /\ q.wheels = p.wheels /\ q.mark = 0
    BY <1>1 DEF AnyProfile, Profiles
  <2>3. Sound(Current, q)
    BY <1>1, <2>2, FewerSound
  <2>4. q.wheels = [kind : KindsOf[Current], set : {run.listed}] /\ run.commit \in {0, run.listed}
    BY <1>1, <1>3, <2>2, FetchedWhole, KindsThere
  <2>5. Whole(Current, q.wheels)
    <3>1. PICK k \in KindsOf[Current] : TRUE
      BY <1>1, KindsThere
    <3>2. [kind |-> k, set |-> run.listed] \in q.wheels
      BY <2>4
    <3> QED
      BY <1>1, <2>4, <3>2 DEF Whole
  <2>6. Offered' /\ Kept' /\ StillHeld'
    BY <1>1, <2>1, <2>2, <2>3, <2>5, Settled DEF Turns
  <2>7. /\ dir' \in [Components -> AnyProfile] /\ dir'[Current] = q
        /\ \A c \in Components : c # Current => dir'[c] = dir[c]
    BY <2>1, <2>2, OneProfile
  <2>8. Shaped' /\ Listing'
    BY <1>1, <2>1, <2>7 DEF Current, IInv, Shaped, Listing, Answers, Turns
  <2>9. Placed'
    BY <1>1, <2>1, <2>2, <2>4, <2>7 DEF Current, Placed, Turns
  <2>10. Ordered' /\ Told'
    BY <1>1, <2>1, <2>7, Components2 DEF Current, IInv, Ordered, Told, Whole, Turns
  <2> QED
    BY <2>6, <2>8, <2>9, <2>10 DEF IInv
<1> QED
  BY <1>2, <1>3

LEMMA WriteMarkStep ==
  ASSUME IInv, WriteMark
  PROVE  IInv'
<1> DEFINE p == dir[Current]
           m == IF run.commit = 0 THEN p.mark ELSE run.commit
           q == [p EXCEPT !.mark = m]
<1>1. /\ run.step = "mark" /\ UNCHANGED <<release, parked, made, count>>
      /\ p \in AnyProfile /\ p \in Profiles(Current) /\ Sound(Current, p) /\ Current \in Components
      /\ p.wheels = [kind : KindsOf[Current], set : {run.listed}] /\ p.mark = 0
      /\ run.commit \in {0, run.listed} /\ run.listed \in Sets(Current)
  BY DEF Current, WriteMark, At, IInv, Placed, Kept, Shaped, AnyRun, Sound, Listing
<1>2. /\ dir' = [dir EXCEPT ![Current] = q]
      /\ Turns(Passed, run.listed, run.kinds, run.commit, run.todo, run.upset)
  BY PassedIn, GoToTurns DEF WriteMark, SetDir
<1>3. m \in {0, run.listed} /\ m \in Nat
  BY <1>1, WheelAssumption DEF Sets
<1>4. /\ q \in AnyProfile /\ q \in Profiles(Current) /\ q.wheels = p.wheels /\ q.mark = m
  <2>1. m \in Sets(Current) \cup {0}
    BY <1>1, <1>3
  <2> HIDE DEF m
  <2> QED
    BY <1>1, <1>3, <2>1 DEF AnyProfile, Profiles
<1>5. Sound(Current, q)
  <2> HIDE DEF q, m
  <2>1. \A w \in q.wheels : w.set = run.listed
    BY <1>1, <1>4
  <2> QED
    BY <1>1, <1>3, <1>4, <2>1 DEF Sound
<1>6. Whole(Current, q.wheels)
  <2>1. PICK k \in KindsOf[Current] : TRUE
    BY <1>1, KindsThere
  <2>2. [kind |-> k, set |-> run.listed] \in q.wheels
    BY <1>1, <1>4
  <2> HIDE DEF q, m
  <2> QED
    BY <1>1, <1>4, <2>2 DEF Whole
<1> HIDE DEF q, m
<1>7. Offered' /\ Kept' /\ StillHeld'
  BY <1>1, <1>2, <1>4, <1>5, <1>6, Settled DEF Turns
<1>8. /\ dir' \in [Components -> AnyProfile] /\ dir'[Current] = q
      /\ \A c \in Components : c # Current => dir'[c] = dir[c]
  BY <1>2, <1>4, OneProfile
<1>9. Shaped'
  BY <1>1, <1>2, <1>8 DEF Current, IInv, Shaped, Turns
<1>10. Listing' /\ Placed'
  BY <1>2, PassedIn DEF Current, Listing, Placed, Turns
<1>11. Ordered'
  BY <1>1, <1>2, <1>6, <1>8, PassedIn, Components2 DEF Current, IInv, Ordered, Turns, Passed
<1>12. Told'
  BY <1>1, <1>2, PassedIn DEF Current, IInv, Told, Turns
<1> QED
  BY <1>7, <1>9, <1>10, <1>11, <1>12 DEF IInv

LEMMA UndoStep ==
  ASSUME IInv, Undo
  PROVE  IInv'
<1> DEFINE p == dir[Current]
           f == run.found[Current]
<1>1. /\ run.step = "undo" /\ UNCHANGED <<release, parked, made, count>>
      /\ p \in AnyProfile /\ p \in Profiles(Current) /\ Sound(Current, p) /\ Current \in Components
      /\ p.mark = 0 /\ p.aside = f.wheels /\ p.asideMark = f.mark
  BY DEF Current, Undo, At, IInv, Placed, Kept, Shaped, AnyRun, Sound
<1>2. CASE p.wheels # {}
  <2>1. PICK w \in p.wheels : dir' = [dir EXCEPT ![Current] = [p EXCEPT !.wheels = @ \ {w}]] /\ run' = run
    BY <1>2 DEF Undo, SetDir
  <2> DEFINE q == [p EXCEPT !.wheels = @ \ {w}]
  <2>2. /\ q \in AnyProfile /\ q \in Profiles(Current) /\ q.wheels = p.wheels \ {w} /\ q.mark = 0
        /\ q.aside = p.aside /\ q.asideMark = p.asideMark
    BY <1>1 DEF AnyProfile, Profiles
  <2>3. Sound(Current, q)
    BY <1>1, <2>2, FewerSound
  <2>4. Offered' /\ Kept' /\ StillHeld'
    BY <1>1, <2>1, <2>2, <2>3, Settled
  <2>5. /\ dir' \in [Components -> AnyProfile] /\ dir'[Current] = q
        /\ \A c \in Components : c # Current => dir'[c] = dir[c]
    BY <2>1, <2>2, OneProfile
  <2>6. Shaped' /\ Listing'
    BY <1>1, <2>1, <2>5 DEF Current, IInv, Shaped, Listing
  <2>7. Placed'
    BY <1>1, <2>1, <2>2, <2>5 DEF Current, Placed
  <2>8. Ordered' /\ Told'
    BY <1>1, <2>1, <2>5, Components2 DEF Current, IInv, Ordered, Told, Whole
  <2> QED
    BY <2>4, <2>6, <2>7, <2>8 DEF IInv
<1>3. CASE p.wheels = {}
  <2>1. UNCHANGED dir /\ Turns("restore", run.listed, run.kinds, run.commit, run.todo, run.upset)
    BY <1>3, GoToTurns DEF Undo, Steps
  <2>2. Shaped' /\ Offered' /\ Kept' /\ StillHeld'
    BY <1>1, <2>1, SameProfiles DEF IInv, Shaped, Turns
  <2>3. p.wheels \cup p.aside = f.wheels
    BY <1>1, <1>3
  <2>4. Listing' /\ Placed'
    BY <1>1, <2>1, <2>3 DEF Current, IInv, Listing, Placed, Turns
  <2>5. Ordered' /\ Told'
    BY <1>1, <2>1 DEF Current, IInv, Ordered, Told, Turns, Whole
  <2> QED
    BY <2>2, <2>4, <2>5 DEF IInv
<1> QED
  BY <1>2, <1>3

LEMMA RestoreStep ==
  ASSUME IInv, Restore
  PROVE  IInv'
<1> DEFINE p == dir[Current]
           f == run.found[Current]
<1>1. /\ run.step = "restore" /\ UNCHANGED <<release, parked, made, count>>
      /\ p \in AnyProfile /\ p \in Profiles(Current) /\ Sound(Current, f) /\ Current \in Components
      /\ p.mark = 0 /\ p.wheels \cup p.aside = f.wheels /\ p.asideMark = f.mark
  BY DEF Current, Restore, At, IInv, Placed, Kept, Shaped, AnyRun, Sound
<1>2. CASE p.aside # {}
  <2>1. PICK w \in p.aside : w = First(p.aside)
    BY <1>1, <1>2, FirstIn DEF Profiles
  <2> DEFINE q == [p EXCEPT !.wheels = @ \cup {w}, !.aside = @ \ {w}]
  <2>2. dir' = [dir EXCEPT ![Current] = q] /\ run' = run
    BY <1>2, <2>1 DEF Restore, SetDir
  <2>3. /\ q \in AnyProfile /\ q \in Profiles(Current) /\ q.wheels = p.wheels \cup {w} /\ q.mark = 0
        /\ q.aside = p.aside \ {w} /\ q.asideMark = p.asideMark
    BY <1>1, <2>1 DEF AnyProfile, Profiles
  <2>4. q.wheels \cup q.aside = f.wheels
    BY <1>1, <2>1, <2>3
  <2>5. Sound(Current, q)
    BY <1>1, <2>3, <2>4, FewerSound
  <2>6. Offered' /\ Kept' /\ StillHeld'
    BY <1>1, <2>2, <2>3, <2>4, <2>5, Settled
  <2>7. /\ dir' \in [Components -> AnyProfile] /\ dir'[Current] = q
        /\ \A c \in Components : c # Current => dir'[c] = dir[c]
    BY <2>2, <2>3, OneProfile
  <2>8. Shaped' /\ Listing'
    BY <1>1, <2>2, <2>7 DEF Current, IInv, Shaped, Listing
  <2>9. Placed'
    BY <1>1, <2>2, <2>3, <2>4, <2>7 DEF Current, Placed
  <2>10. Ordered' /\ Told'
    BY <1>1, <2>2, <2>7, Components2 DEF Current, IInv, Ordered, Told, Whole
  <2> QED
    BY <2>6, <2>8, <2>9, <2>10 DEF IInv
<1>3. CASE p.aside = {}
  <2> DEFINE q == Unswept(p)
  <2>1. /\ dir' = [dir EXCEPT ![Current] = q]
        /\ Turns("existing", run.listed, run.kinds, run.commit, run.todo, run.upset)
    BY <1>3, GoToTurns DEF Restore, SetDir, Steps
  <2>2. /\ q \in AnyProfile /\ q \in Profiles(Current) /\ q.wheels = p.wheels /\ q.mark = f.mark
    BY <1>1 DEF AnyProfile, Profiles, Unswept
  <2>3. q.wheels = f.wheels
    BY <1>1, <1>3, <2>2
  <2>4. Sound(Current, q)
    BY <1>1, <2>2, <2>3, FewerSound
  <2> HIDE DEF q
  <2>5. Offered' /\ Kept' /\ StillHeld'
    BY <1>1, <2>1, <2>2, <2>3, <2>4, Settled DEF Turns
  <2>6. /\ dir' \in [Components -> AnyProfile] /\ dir'[Current] = q
        /\ \A c \in Components : c # Current => dir'[c] = dir[c]
    BY <2>1, <2>2, OneProfile
  <2>7. Shaped' /\ Listing'
    BY <1>1, <2>1, <2>6 DEF Current, IInv, Shaped, Listing, Turns
  <2>8. Placed'
    BY <1>1, <2>1, <2>2, <2>3, <2>6 DEF Current, Placed, Turns
  <2>9. Ordered' /\ Told'
    BY <1>1, <2>1, <2>6, Components2 DEF Current, IInv, Ordered, Told, Whole, Turns
  <2> QED
    BY <2>5, <2>7, <2>8, <2>9 DEF IInv
<1> QED
  BY <1>2, <1>3

-----------------------------------------------------------------------------
(***************************************************************************)
(* Steps that begin or end something.                                      *)
(***************************************************************************)
LEMMA NoRunIn ==
  /\ NoRun \in AnyRun /\ NoRun.step = "off" /\ NoRun.end = "none" /\ NoRun.comp = "flashinfer"
  /\ NoRun.listed = 0 /\ NoRun.commit = 0 /\ NoRun.todo = {} /\ NoRun.kinds = {}
  /\ \A c \in Components : NoRun.found[c] = NoWheels
<1>1. NoWheels \in AnyProfile
  BY DEF NoWheels, AnyProfile
<1> QED
  BY <1>1 DEF NoRun, AnyRun, Steps, Components, Modes

\* When a run has ended, its profiles are what matters.
LEMMA Ended ==
  ASSUME IInv, NEW how \in {"none", "ok", "failed"}, End(how), Offered',
         dir' \in [Components -> AnyProfile], parked' \in [Components -> AnyProfile],
         \A c \in Components : Sound(c, dir'[c]) /\ Sound(c, parked'[c]),
         count' \in [{"run", "fault", "kill"} -> Nat], UNCHANGED <<release, made>>
  PROVE  IInv' /\ run'.step = "off" /\ run'.end = how
<1>1. /\ run' \in AnyRun /\ run'.step = "off" /\ run'.end = how /\ run'.comp = "flashinfer"
      /\ run'.listed = 0 /\ run'.commit = 0 /\ run'.todo = {} /\ run'.kinds = {}
      /\ \A c \in Components : run'.found[c] = NoWheels
  BY NoRunIn DEF End, AnyRun
<1>2. Kept' /\ StillHeld'
  <2>1. \A c \in Components : Sound(c, run'.found[c]) /\ ~Whole(c, run'.found[c].wheels)
    BY <1>1, NoWheelsSound
  <2> QED
    BY <2>1 DEF Kept, StillHeld, Sound, Profiles, Whole
<1>3. Shaped'
  BY <1>1 DEF Shaped, IInv
<1>4. Listing' /\ Placed' /\ Ordered' /\ Told'
  BY <1>1, Components2 DEF Current, Listing, Placed, Ordered, Told
<1> QED
  BY <1>1, <1>2, <1>3, <1>4 DEF IInv

\* A fault is counted.
LEMMA TickCounts ==
  ASSUME IInv, NEW kind \in {"run", "fault", "kill"}, NEW bound, Tick(kind, bound)
  PROVE  count' \in [{"run", "fault", "kill"} -> Nat] /\ count' # count
<1>1. count' = [count EXCEPT ![kind] = @ + 1] /\ count \in [{"run", "fault", "kill"} -> Nat]
  BY DEF Tick, IInv, Shaped
<1>2. count'[kind] = count[kind] + 1 /\ count[kind] \in Nat
  BY <1>1
<1>3. count' # count
  BY <1>2
<1>4. count' \in [{"run", "fault", "kill"} -> Nat]
  BY <1>1
<1> QED
  BY <1>3, <1>4

LEMMA UseExistingStep ==
  ASSUME IInv, UseExisting
  PROVE  IInv' /\ run.upset = TRUE
<1>1. /\ run.step = "existing" /\ UNCHANGED <<release, cache, made, count>> /\ run.upset = TRUE
      /\ Offered'
  BY DEF UseExisting, At, IInv, Ordered, Offered
<1>2. CASE GoTo(Passed)
  <2>1. Turns(Passed, run.listed, run.kinds, run.commit, run.todo, run.upset)
    BY <1>2, PassedIn, GoToTurns
  <2>2. Shaped' /\ Offered' /\ Kept' /\ StillHeld'
    BY <1>1, <2>1, SameProfiles DEF cache, IInv, Shaped, Turns
  <2>3. Listing' /\ Placed'
    BY <2>1, PassedIn DEF Current, Listing, Placed, Turns
  <2>4. Ordered' /\ Told'
    BY <1>1, <2>1, PassedIn, Components2 DEF Current, IInv, Ordered, Told, Turns, Passed, cache, Whole, Shaped, AnyRun
  <2> QED
    BY <1>1, <2>2, <2>3, <2>4 DEF IInv
<1>3. CASE End("failed")
  BY <1>1, <1>3, Ended DEF cache, IInv, Shaped, Kept
<1> QED
  BY <1>2, <1>3 DEF UseExisting

LEMMA BuildStep ==
  ASSUME IInv, Build
  PROVE  IInv'
<1>1. /\ run.step = "build" /\ UNCHANGED <<release, dir, parked, count>> /\ Current \in Components
      /\ made[Current] + 1 \in Sets(Current) /\ made' = [made EXCEPT ![Current] = @ + 1]
      /\ made \in [Components -> Nat]
  BY DEF Current, Build, At, cache, IInv, Shaped, AnyRun
<1>2. Turns("park", made[Current] + 1, run.kinds, run.commit, run.todo, run.upset)
  <2>1. PICK n \in Nat : n = made[Current] + 1
    BY <1>1
  <2>2. run' = [run EXCEPT !.step = "park", !.listed = n]
    BY <2>1 DEF Build
  <2> QED
    BY <2>1, <2>2 DEF Turns, IInv, Shaped, AnyRun, Steps
<1>3. made' \in [Components -> Nat] /\ \A c \in Components : made'[c] \in Sets(c) \cup {0}
  BY <1>1 DEF IInv, Offered
<1>4. Offered'
  BY <1>1, <1>3 DEF IInv, Offered
<1>5. Kept'
  BY <1>1, <1>2 DEF IInv, Kept, Sound, Profiles, Turns
<1>6. StillHeld'
  BY <1>1, <1>2 DEF IInv, StillHeld, Whole, Turns
<1>7. Shaped'
  BY <1>1, <1>2, <1>3 DEF IInv, Shaped, Turns
<1>8. Listing' /\ Placed'
  BY <1>1, <1>2 DEF Current, IInv, Listing, Placed, Turns
<1>9. Ordered' /\ Told'
  BY <1>1, <1>2 DEF Current, IInv, Ordered, Told, Turns, Whole
<1> QED
  BY <1>4, <1>5, <1>6, <1>7, <1>8, <1>9 DEF IInv

LEMMA BuildFailsStep ==
  ASSUME IInv, BuildFails
  PROVE  IInv'
<1>1. UNCHANGED <<release, dir, parked, made>> /\ End("failed") /\ Offered'
      /\ count' \in [{"run", "fault", "kill"} -> Nat]
  BY TickCounts DEF BuildFails, cache, IInv, Offered
<1> QED
  BY <1>1, Ended DEF IInv, Shaped, Kept

\* A change of both of a component's directories leaves the other component's alone.
LEMMA OneParked ==
  ASSUME IInv, NEW q \in AnyProfile, parked' = [parked EXCEPT ![Current] = q]
  PROVE  /\ parked' \in [Components -> AnyProfile] /\ parked'[Current] = q
         /\ \A c \in Components : c # Current => parked'[c] = parked[c]
  BY DEF Current, IInv, Shaped, AnyRun

LEMMA BothSettled ==
  ASSUME IInv, NEW q \in AnyProfile, NEW r \in AnyProfile, Sound(Current, q), Sound(Current, r),
         dir' = [dir EXCEPT ![Current] = q], parked' = [parked EXCEPT ![Current] = r],
         Whole(Current, run.found[Current].wheels) =>
           Whole(Current, q.wheels) \/ run.found[Current].wheels \subseteq q.wheels \cup q.aside \cup r.wheels,
         run'.found = run.found, UNCHANGED <<release, made>>
  PROVE  Offered' /\ Kept' /\ StillHeld'
<1>1. /\ dir'[Current] = q /\ Current \in Components /\ parked'[Current] = r
      /\ \A c \in Components : c # Current => dir'[c] = dir[c] /\ parked'[c] = parked[c]
  BY OneProfile, OneParked
<1>2. Kept'
  <2>1. SUFFICES ASSUME NEW c \in Components
                 PROVE  Sound(c, dir'[c]) /\ Sound(c, parked'[c]) /\ Sound(c, run.found[c])
    BY DEF Kept, Sound, Profiles
  <2> QED
    BY <1>1, <2>1 DEF IInv, Kept
<1>3. StillHeld'
  <2>1. SUFFICES ASSUME NEW c \in Components, Whole(c, run.found[c].wheels)
                 PROVE  \/ Whole(c, dir'[c].wheels)
                        \/ run.found[c].wheels \subseteq dir'[c].wheels \cup dir'[c].aside \cup parked'[c].wheels
    BY DEF StillHeld, Whole
  <2>2. CASE c = Current
    BY <1>1, <2>1, <2>2
  <2>3. CASE c # Current
    BY <1>1, <2>1, <2>3 DEF IInv, StillHeld
  <2> QED
    BY <2>2, <2>3
<1>4. Offered'
  BY DEF Offered, IInv
<1> QED
  BY <1>2, <1>3, <1>4

LEMMA ParkStep ==
  ASSUME IInv, Park
  PROVE  IInv'
<1>1. /\ run.step = "park" /\ UNCHANGED <<release, made, count>> /\ Current \in Components
      /\ dir[Current] = run.found[Current] /\ run.listed \in Sets(Current)
      /\ dir[Current] \in AnyProfile /\ Sound(Current, dir[Current])
      /\ parked' = [parked EXCEPT ![Current] = dir[Current]] /\ dir' = [dir EXCEPT ![Current] = NoWheels]
  BY DEF Current, Park, SetDir, At, IInv, Placed, Kept, Shaped, AnyRun
<1>2. Turns("promote", run.listed, run.kinds, run.commit, run.todo, run.upset)
  BY GoToTurns DEF Park, Steps
<1>3. Sound(Current, NoWheels) /\ NoWheels \in AnyProfile
  BY <1>1, NoWheelsSound
<1>4. Offered' /\ Kept' /\ StillHeld'
  BY <1>1, <1>2, <1>3, BothSettled DEF Turns
<1>5. /\ dir' \in [Components -> AnyProfile] /\ dir'[Current] = NoWheels
      /\ \A c \in Components : c # Current => dir'[c] = dir[c]
      /\ parked' \in [Components -> AnyProfile] /\ parked'[Current] = dir[Current]
  BY <1>1, <1>3, OneProfile, OneParked
<1>6. Shaped' /\ Listing' /\ Placed'
  BY <1>1, <1>2, <1>5 DEF Current, IInv, Shaped, Listing, Placed, Turns
<1>7. Ordered' /\ Told'
  BY <1>1, <1>2, <1>5, Components2 DEF Current, IInv, Ordered, Told, Whole, Turns
<1> QED
  BY <1>4, <1>6, <1>7 DEF IInv

LEMMA PromoteStep ==
  ASSUME IInv, Promote
  PROVE  IInv'
<1> DEFINE q == Profile(Current, run.listed)
<1>1. /\ run.step = "promote" /\ UNCHANGED <<release, parked, made, count>> /\ Current \in Components
      /\ run.listed \in Sets(Current) /\ dir' = [dir EXCEPT ![Current] = q]
  BY DEF Current, Promote, SetDir, At, IInv, Placed, Shaped, AnyRun
<1>2. Turns("unpark", run.listed, run.kinds, run.commit, run.todo, run.upset)
  BY GoToTurns DEF Promote, Steps
<1>3. q \in AnyProfile /\ Sound(Current, q) /\ Whole(Current, q.wheels)
  BY <1>1, ProfileSound
<1> HIDE DEF q
<1>4. Offered' /\ Kept' /\ StillHeld'
  BY <1>1, <1>2, <1>3, Settled DEF Turns
<1>5. /\ dir' \in [Components -> AnyProfile] /\ dir'[Current] = q
      /\ \A c \in Components : c # Current => dir'[c] = dir[c]
  BY <1>1, <1>3, OneProfile
<1>6. Shaped' /\ Listing'
  BY <1>1, <1>2, <1>5 DEF Current, IInv, Shaped, Listing, Turns
<1>7. Placed'
  BY <1>1, <1>2, <1>5 DEF Current, Placed, Turns, q
<1>8. Ordered' /\ Told'
  BY <1>1, <1>2, <1>5, Components2 DEF Current, IInv, Ordered, Told, Whole, Turns
<1> QED
  BY <1>4, <1>6, <1>7, <1>8 DEF IInv

LEMMA PromoteFailsStep ==
  ASSUME IInv, PromoteFails
  PROVE  IInv' /\ dir'[Current] = run.found[Current]
<1>1. /\ run.step = "promote" /\ UNCHANGED <<release, made>> /\ Current \in Components
      /\ count' \in [{"run", "fault", "kill"} -> Nat] /\ End("failed") /\ Offered'
      /\ parked[Current] = run.found[Current] /\ parked[Current] \in AnyProfile
      /\ dir' = [dir EXCEPT ![Current] = parked[Current]]
      /\ parked' = [parked EXCEPT ![Current] = NoWheels]
  BY TickCounts DEF Current, PromoteFails, SetDir, At, IInv, Placed, Offered, Shaped, AnyRun
<1>2. Sound(Current, NoWheels) /\ NoWheels \in AnyProfile
  BY <1>1, NoWheelsSound
<1>3. /\ dir' \in [Components -> AnyProfile] /\ dir'[Current] = parked[Current]
      /\ \A c \in Components : c # Current => dir'[c] = dir[c]
      /\ parked' \in [Components -> AnyProfile] /\ parked'[Current] = NoWheels
      /\ \A c \in Components : c # Current => parked'[c] = parked[c]
  BY <1>1, <1>2, OneProfile, OneParked
<1>4. \A c \in Components : Sound(c, dir'[c]) /\ Sound(c, parked'[c])
  BY <1>1, <1>2, <1>3 DEF IInv, Kept
<1> QED
  BY <1>1, <1>3, <1>4, Ended

LEMMA UnparkStep ==
  ASSUME IInv, Unpark
  PROVE  IInv'
<1>1. /\ run.step = "unpark" /\ UNCHANGED <<release, dir, made, count>> /\ Current \in Components
      /\ run.listed \in Sets(Current) /\ dir[Current] = Profile(Current, run.listed)
      /\ dir[Current] \in AnyProfile /\ dir' = [dir EXCEPT ![Current] = dir[Current]]
      /\ parked' = [parked EXCEPT ![Current] = NoWheels]
  BY DEF Current, Unpark, At, IInv, Placed, Shaped, AnyRun
<1>2. Turns(Passed, run.listed, run.kinds, run.commit, run.todo, run.upset)
  BY PassedIn, GoToTurns DEF Unpark
<1>3. /\ Sound(Current, NoWheels) /\ NoWheels \in AnyProfile
      /\ Sound(Current, dir[Current]) /\ Whole(Current, dir[Current].wheels)
  BY <1>1, NoWheelsSound, ProfileSound
<1>4. Offered' /\ Kept' /\ StillHeld'
  BY <1>1, <1>2, <1>3, BothSettled DEF Turns
<1>5. parked' \in [Components -> AnyProfile]
  BY <1>1, <1>3, OneParked
<1>6. Shaped'
  BY <1>1, <1>2, <1>5 DEF Current, IInv, Shaped, Turns
<1>7. Listing' /\ Placed'
  BY <1>2, PassedIn DEF Current, Listing, Placed, Turns
<1>8. Ordered' /\ Told'
  BY <1>1, <1>2, <1>3, PassedIn, Components2 DEF Current, IInv, Ordered, Told, Whole, Turns, Passed
<1> QED
  BY <1>4, <1>6, <1>7, <1>8 DEF IInv

\* A component is begun with the profile as it is.
LEMMA Begun ==
  ASSUME NEW r, NEW c, r \in AnyRun, c \in Components
  PROVE  /\ Begin(r, c) \in AnyRun /\ Begin(r, c).step \in {"build", "list"} /\ Begin(r, c).end = "none"
         /\ Begin(r, c).comp = c /\ Begin(r, c).listed = 0 /\ Begin(r, c).commit = 0
         /\ Begin(r, c).todo = {} /\ Begin(r, c).found = r.found /\ Begin(r, c).upset = r.upset
<1>1. r.found \in [Components -> AnyProfile] /\ r.mode \in [Components -> Modes] /\ r.upset \in BOOLEAN
  BY DEF AnyRun
<1> QED
  BY <1>1, NoRunIn DEF Begin, AnyRun, Steps

LEMMA ValidateStep ==
  ASSUME IInv, Validate
  PROVE  IInv' /\ (run'.end = "failed" => run.upset = TRUE)
<1>1. /\ run.step = "validate" /\ UNCHANGED <<release, dir, parked, made, count>>
      /\ Current = "flashinfer" /\ run \in AnyRun /\ dir["vllm"] = run.found["vllm"]
      /\ Sound("flashinfer", dir["flashinfer"]) /\ Offered'
      /\ run.upset = TRUE \/ Whole("flashinfer", dir["flashinfer"].wheels)
  BY Components2 DEF Validate, At, cache, IInv, Ordered, Kept, Shaped, Offered
<1>2. CASE Valid("flashinfer", dir["flashinfer"].wheels)
  <2>1. /\ run' \in AnyRun /\ run'.step \in {"build", "list"} /\ run'.end = "none"
        /\ run'.comp = "vllm" /\ run'.listed = 0 /\ run'.commit = 0
        /\ run'.todo = {} /\ run'.found = run.found /\ run'.upset = run.upset
    BY <1>1, <1>2, Begun, Components2 DEF Validate
  <2>2. Whole("flashinfer", dir["flashinfer"].wheels)
    BY <1>1, <1>2, ValidWhole, Components2
  <2>3. Shaped' /\ Offered' /\ Kept' /\ StillHeld'
    BY <1>1, <2>1, SameProfiles DEF IInv, Shaped
  <2>4. Listing' /\ Placed'
    BY <1>1, <2>1 DEF Current, Listing, Placed
  <2>5. Ordered'
    BY <1>1, <2>1, <2>2, Components2 DEF Current, Ordered, Whole
  <2>6. Told'
    BY <2>1 DEF Current, Told
  <2> QED
    BY <2>1, <2>3, <2>4, <2>5, <2>6 DEF IInv
<1>3. CASE ~Valid("flashinfer", dir["flashinfer"].wheels)
  <2>1. End("failed") /\ run.upset = TRUE
    BY <1>1, <1>3, WholeValid, Components2 DEF Validate
  <2> QED
    BY <1>1, <2>1, Ended DEF IInv, Shaped, Kept
<1> QED
  BY <1>2, <1>3

LEMMA MakeImageStep ==
  ASSUME IInv, MakeImage
  PROVE  /\ IInv'
         /\ run'.end = "ok" => \A c \in Components : Whole(c, dir[c].wheels)
         /\ run'.end = "failed" => run.upset = TRUE
<1>1. /\ run.step = "image" /\ UNCHANGED <<release, dir, parked, made, count>> /\ Offered'
      /\ Current = "vllm" /\ Whole("flashinfer", dir["flashinfer"].wheels)
      /\ run.upset = TRUE \/ Whole("vllm", dir["vllm"].wheels)
  BY Components2 DEF MakeImage, At, cache, IInv, Ordered, Offered
<1>2. CASE \A c \in Components : Valid(c, dir[c].wheels)
  <2>1. End("ok")
    BY <1>2 DEF MakeImage
  <2>2. IInv' /\ run'.end = "ok"
    BY <1>1, <2>1, Ended DEF IInv, Shaped, Kept
  <2>3. \A c \in Components : Whole(c, dir[c].wheels)
    BY <1>2, ValidWhole DEF IInv, Kept
  <2> QED
    BY <2>2, <2>3
<1>3. CASE ~\A c \in Components : Valid(c, dir[c].wheels)
  <2>1. End("failed")
    BY <1>3 DEF MakeImage
  <2>2. IInv' /\ run'.end = "failed"
    BY <1>1, <2>1, Ended DEF IInv, Shaped, Kept
  <2>3. run.upset = TRUE
    BY <1>1, <1>3, WholeValid DEF Components
  <2> QED
    BY <2>2, <2>3
<1> QED
  BY <1>2, <1>3

LEMMA ImageFailsStep ==
  ASSUME IInv, ImageFails
  PROVE  IInv' /\ run'.end = "failed"
<1>1. UNCHANGED <<release, dir, parked, made>> /\ End("failed") /\ Offered'
      /\ count' \in [{"run", "fault", "kill"} -> Nat]
  BY TickCounts DEF ImageFails, cache, IInv, Offered
<1> QED
  BY <1>1, Ended DEF IInv, Shaped, Kept

\* A run that begins with FlashInfer has found what is there.
LEMMA FirstBegun ==
  ASSUME IInv, NEW r \in AnyRun, r.found = dir, run' = Begin(r, "flashinfer"),
         UNCHANGED <<release, dir, parked, made>>, count' \in [{"run", "fault", "kill"} -> Nat]
  PROVE  IInv'
<1>1. /\ run' \in AnyRun /\ run'.step \in {"build", "list"} /\ run'.end = "none"
      /\ run'.comp = "flashinfer" /\ run'.listed = 0 /\ run'.commit = 0
      /\ run'.todo = {} /\ run'.found = dir
  BY Begun, Components2
<1>2. Shaped' /\ Offered'
  BY <1>1 DEF IInv, Shaped, Offered
<1>3. Kept' /\ StillHeld'
  BY <1>1 DEF IInv, Kept, StillHeld, Sound, Profiles
<1>4. Listing' /\ Placed' /\ Told'
  BY <1>1 DEF Current, Listing, Placed, Told
<1>5. Ordered'
  BY <1>1, Components2 DEF Current, Ordered
<1> QED
  BY <1>2, <1>3, <1>4, <1>5 DEF IInv

LEMMA StartStep ==
  ASSUME IInv, NEW mode \in [Components -> Modes], NEW clean \in BOOLEAN, Start(mode, clean)
  PROVE  IInv'
<1> DEFINE fresh == [NoRun EXCEPT !.mode = mode]
<1>1. UNCHANGED <<release, dir, parked, made>> /\ count' \in [{"run", "fault", "kill"} -> Nat]
      /\ run' = IF clean THEN [fresh EXCEPT !.step = "clean"]
                ELSE Begin([fresh EXCEPT !.found = dir], "flashinfer")
  BY TickCounts DEF Start, cache
<1>2. CASE clean
  <2>1. /\ run' \in AnyRun /\ run'.step = "clean" /\ run'.end = "none" /\ run'.comp = "flashinfer"
        /\ run'.listed = 0 /\ run'.commit = 0 /\ run'.todo = {}
        /\ \A c \in Components : run'.found[c] = NoWheels
    BY <1>1, <1>2, NoRunIn DEF AnyRun, Steps
  <2>2. Kept' /\ StillHeld'
    <3>1. \A c \in Components : Sound(c, run'.found[c]) /\ ~Whole(c, run'.found[c].wheels)
      BY <2>1, NoWheelsSound
    <3> QED
      BY <1>1, <3>1 DEF IInv, Kept, StillHeld, Sound, Profiles, Whole
  <2>3. Shaped' /\ Offered'
    BY <1>1, <2>1 DEF IInv, Shaped, Offered
  <2>4. Listing' /\ Placed' /\ Told'
    BY <2>1 DEF Current, Listing, Placed, Told
  <2>5. Ordered'
    BY <2>1, Components2 DEF Current, Ordered
  <2> QED
    BY <2>2, <2>3, <2>4, <2>5 DEF IInv
<1>3. CASE ~clean
  <2>1. PICK r : r = [fresh EXCEPT !.found = dir]
    OBVIOUS
  <2>2. r \in AnyRun /\ r.found = dir
    BY <2>1, NoRunIn DEF AnyRun, IInv, Shaped
  <2> QED
    BY <1>1, <1>3, <2>1, <2>2, FirstBegun
<1> QED
  BY <1>2, <1>3

LEMMA CleanUpStep ==
  ASSUME IInv, CleanUp
  PROVE  IInv'
<1> DEFINE left == {c \in Components : dir[c].wheels # {} \/ dir[c].mark # 0}
           d == IF "flashinfer" \in left THEN "flashinfer" ELSE "vllm"
           p == dir[d]
<1>1. /\ run.step = "clean" /\ UNCHANGED <<release, parked, made, count>> /\ Current = "flashinfer"
      /\ run \in AnyRun /\ \A c \in Components : run.found[c] = NoWheels
  BY DEF CleanUp, At, IInv, Ordered, Shaped
<1>2. CASE left = {}
  <2>1. PICK r : r = [run EXCEPT !.found = dir]
    OBVIOUS
  <2>2. r \in AnyRun /\ r.found = dir
    BY <1>1, <2>1 DEF AnyRun, IInv, Shaped
  <2>3. run' = Begin(r, "flashinfer") /\ UNCHANGED dir
    BY <1>2, <2>1 DEF CleanUp
  <2> QED
    BY <1>1, <2>2, <2>3, FirstBegun DEF IInv, Shaped
<1>3. CASE left # {}
  <2>1. /\ d \in Components /\ p \in AnyProfile /\ p \in Profiles(d) /\ Sound(d, p)
        /\ dir \in [Components -> AnyProfile]
    BY Components2 DEF IInv, Kept, Shaped, Sound
  <2>2. PICK q : /\ dir' = [dir EXCEPT ![d] = q] /\ run' = run
                 /\ \/ p.wheels # {} /\ q = [p EXCEPT !.wheels = @ \ {First(@)}]
                    \/ p.wheels = {} /\ q = [p EXCEPT !.mark = 0]
    BY <1>3 DEF CleanUp
  <2>3. q \in AnyProfile /\ q \in Profiles(d) /\ q.wheels \subseteq p.wheels /\ q.mark \in {0, p.mark}
    <3>1. CASE p.wheels # {}
      <4>1. PICK w : w = First(p.wheels)
        OBVIOUS
      <4>2. q = [p EXCEPT !.wheels = @ \ {w}]
        BY <2>2, <3>1, <4>1
      <4> HIDE DEF d, p
      <4> QED
        BY <2>1, <4>2 DEF AnyProfile, Profiles
    <3>2. CASE p.wheels = {}
      <4>1. q = [p EXCEPT !.mark = 0]
        BY <2>2, <3>2
      <4> HIDE DEF d, p
      <4> QED
        BY <2>1, <4>1 DEF AnyProfile, Profiles
    <3> QED
      BY <3>1, <3>2
  <2>4. Sound(d, q)
    BY <2>1, <2>3, FewerSound
  <2> HIDE DEF d, p, left
  <2>5. /\ dir' \in [Components -> AnyProfile] /\ dir'[d] = q
        /\ \A c \in Components : c # d => dir'[c] = dir[c]
    BY <2>1, <2>2, <2>3
  <2>6. Kept'
    <3>1. SUFFICES ASSUME NEW c \in Components
                   PROVE  Sound(c, dir'[c]) /\ Sound(c, parked[c]) /\ Sound(c, run.found[c])
      BY <1>1, <2>2 DEF Kept, Sound, Profiles
    <3> QED
      BY <2>4, <2>5, <3>1 DEF IInv, Kept
  <2>7. StillHeld'
    <3>1. \A c \in Components : ~Whole(c, run.found[c].wheels)
      BY <1>1, NoWheelsSound
    <3> QED
      BY <2>2, <3>1 DEF StillHeld, Whole
  <2>8. Shaped' /\ Offered'
    BY <1>1, <2>2, <2>5 DEF IInv, Shaped, Offered
  <2>9. Listing' /\ Placed' /\ Told'
    BY <1>1, <2>2 DEF Current, IInv, Listing, Placed, Told
  <2>10. Ordered'
    BY <1>1, <2>2, Components2 DEF Current, IInv, Ordered
  <2> QED
    BY <2>6, <2>7, <2>8, <2>9, <2>10 DEF IInv
<1> QED
  BY <1>2, <1>3

LEMMA KillStep ==
  ASSUME IInv, Kill
  PROVE  IInv' /\ run'.end = "killed"
<1>1. UNCHANGED <<release, dir, parked, made>> /\ count' \in [{"run", "fault", "kill"} -> Nat]
  BY TickCounts DEF Kill, cache
<1>2. /\ run' \in AnyRun /\ run'.step = "off" /\ run'.end = "killed" /\ run'.comp = "flashinfer"
      /\ run'.listed = 0 /\ run'.commit = 0 /\ run'.todo = {} /\ run'.found = run.found
  BY NoRunIn DEF Kill, AnyRun, IInv, Shaped
<1>3. Shaped' /\ Offered' /\ Kept' /\ StillHeld'
  BY <1>1, <1>2, SameProfiles DEF IInv, Shaped
<1>4. Listing' /\ Placed' /\ Told'
  BY <1>2 DEF Current, Listing, Placed, Told
<1>5. Ordered'
  BY <1>2, Components2 DEF Current, Ordered
<1> QED
  BY <1>2, <1>3, <1>4, <1>5 DEF IInv

-----------------------------------------------------------------------------
(***************************************************************************)
(* Releases.                                                               *)
(***************************************************************************)
\* Whatever happens to a release, a run that is under way is upset, and keeps what it has.
LEMMA ReleaseChanged ==
  ASSUME IInv, run' = [run EXCEPT !.upset = ~At("off")], UNCHANGED <<cache, count>>,
         release' \in [Components -> [set : Nat, kinds : SUBSET Kinds]], made' \in [Components -> Nat],
         Offered', Listing'
  PROVE  IInv' /\ run'.step = run.step /\ run'.end = run.end
<1>1. /\ run' \in AnyRun /\ run'.step = run.step /\ run'.end = run.end /\ run'.comp = run.comp
      /\ run'.listed = run.listed /\ run'.commit = run.commit /\ run'.todo = run.todo
      /\ run'.kinds = run.kinds /\ run'.found = run.found /\ run'.upset = ~At("off")
  BY DEF IInv, Shaped, AnyRun
<1>2. run.step # "off" => run'.upset = TRUE
  BY <1>1 DEF At
<1>3. Kept' /\ StillHeld'
  <2>1. Kept'
    BY <1>1 DEF IInv, Kept, cache, Sound, Profiles
  <2>2. StillHeld'
    BY <1>1 DEF IInv, StillHeld, cache, Whole
  <2> QED
    BY <2>1, <2>2
<1>4. Shaped'
  BY <1>1 DEF IInv, Shaped, cache
<1>5. Placed' /\ Told'
  BY <1>1 DEF Current, IInv, Placed, Told, cache
<1>6. Ordered'
  BY <1>1, <1>2 DEF Current, IInv, Ordered, cache, Whole
<1> QED
  BY <1>1, <1>3, <1>4, <1>5, <1>6 DEF IInv

LEMMA PublishStep ==
  ASSUME IInv, NEW c \in Components, NEW lacking \in {{}, {"provider"}},
         Publish(c, KindsOf[c] \ lacking)
  PROVE  IInv' /\ run'.step = run.step /\ run'.end = run.end
<1> DEFINE new == made[c] + 1
           kinds == KindsOf[c] \ lacking
<1>1. /\ new \in Sets(c) /\ new \in Nat /\ new # 0 /\ UNCHANGED <<cache, count>>
      /\ Downloading(c) => VersionOf[c][new] # VersionOf[c][run.listed]
      /\ made' = [made EXCEPT ![c] = new] /\ made \in [Components -> Nat]
      /\ release \in [Components -> [set : Nat, kinds : SUBSET Kinds]]
      /\ release' = [release EXCEPT ![c] = [set |-> new, kinds |-> kinds]]
      /\ run' = [run EXCEPT !.upset = ~At("off")]
  BY WheelAssumption DEF Publish, IInv, Shaped, Sets
<1>2. kinds \in SUBSET Kinds /\ kinds \subseteq KindsOf[c] /\ (c = "vllm" => kinds = KindsOf[c])
  BY KindsThere DEF KindsOf, Kinds
<1> HIDE DEF kinds, new
<1>3. /\ release' \in [Components -> [set : Nat, kinds : SUBSET Kinds]]
      /\ release'[c].set = new /\ release'[c].kinds = kinds
      /\ \A d \in Components : d # c => release'[d] = release[d]
  BY <1>1, <1>2
<1>4. made' \in [Components -> Nat] /\ \A d \in Components : made'[d] \in Sets(d) \cup {0}
  BY <1>1 DEF IInv, Offered
<1>5. Offered'
  BY <1>1, <1>2, <1>3, <1>4 DEF IInv, Offered
<1>6. /\ run'.step = run.step /\ run'.comp = run.comp /\ run'.listed = run.listed
      /\ run'.commit = run.commit /\ run'.kinds = run.kinds /\ (run.step # "off" => run'.upset = TRUE)
      /\ Current \in Components
  BY <1>1 DEF Current, IInv, Shaped, AnyRun, At
<1>7. Listing'
  <2>1. SUFFICES ASSUME run.step \in {"page", "decide", "sweep", "fetch", "mark"}
                 PROVE  Listing'
    BY <1>6 DEF Listing
  <2>2. CASE c = Current
    <3>1. VersionOf[c][new] # VersionOf[c][run.listed]
      BY <1>1, <2>1, <2>2 DEF Downloading
    <3>2. ~Answers'
      BY <1>3, <1>6, <2>2, <3>1 DEF Answers, Current
    <3>3. release'[Current].set # 0 /\ run'.upset = TRUE
      BY <1>1, <1>3, <1>6, <2>1, <2>2
    <3> QED
      BY <1>6, <2>1, <3>2, <3>3 DEF Current, IInv, Listing
  <2>3. CASE c # Current
    <3>1. release'[Current] = release[Current] /\ run'.upset = TRUE
      BY <1>3, <1>6, <2>1, <2>3
    <3> QED
      BY <1>6, <2>1, <3>1 DEF Current, IInv, Listing, Answers
  <2> QED
    BY <2>2, <2>3
<1> QED
  BY <1>1, <1>3, <1>4, <1>5, <1>7, ReleaseChanged

LEMMA RepairStep ==
  ASSUME IInv, NEW c \in Components, Repair(c)
  PROVE  IInv' /\ run'.step = run.step /\ run'.end = run.end
<1>1. /\ UNCHANGED <<cache, made, count>>
      /\ release \in [Components -> [set : Nat, kinds : SUBSET Kinds]]
      /\ release' = [release EXCEPT ![c].kinds = KindsOf[c]]
      /\ run' = [run EXCEPT !.upset = ~At("off")]
  BY DEF Repair, IInv, Shaped
<1>2. /\ release' \in [Components -> [set : Nat, kinds : SUBSET Kinds]]
      /\ release'[c].set = release[c].set /\ release'[c].kinds = KindsOf[c]
      /\ \A d \in Components : d # c => release'[d] = release[d]
  BY <1>1, KindsThere
<1>3. Offered'
  BY <1>1, <1>2 DEF IInv, Offered
<1>4. /\ run'.step = run.step /\ run'.comp = run.comp /\ run'.listed = run.listed
      /\ run'.commit = run.commit /\ run'.kinds = run.kinds /\ (run.step # "off" => run'.upset = TRUE)
      /\ Current \in Components
  BY <1>1 DEF Current, IInv, Shaped, AnyRun, At
<1>5. Listing'
  <2>1. release'[Current].set = release[Current].set
    BY <1>2, <1>4
  <2> QED
    BY <1>4, <2>1 DEF Current, IInv, Listing, Answers
<1> QED
  BY <1>1, <1>2, <1>3, <1>5, ReleaseChanged DEF IInv, Shaped

-----------------------------------------------------------------------------
(***************************************************************************)
(* The theorems.                                                           *)
(***************************************************************************)
LEMMA Initially ==
  ASSUME Init
  PROVE  IInv
<1>1. PICK n \in {0, 1} : made = [c \in Components |-> n]
  BY DEF Init
<1>2. \A c \in Components : 1 \in Sets(c)
  BY WheelAssumption DEF Sets
<1>3. PICK have \in SUBSET {c \in Components : made[c] = 1} :
        dir = [c \in Components |-> IF c \in have THEN Profile(c, 1) ELSE NoWheels]
  BY DEF Init
<1>4. \A c \in Components : dir[c] \in AnyProfile /\ Sound(c, dir[c])
  BY <1>2, <1>3, ProfileSound, NoWheelsSound
<1>5. /\ parked = [c \in Components |-> NoWheels] /\ run = NoRun
      /\ count = [k \in {"run", "fault", "kill"} |-> 0]
      /\ release = [c \in Components |->
                      [set |-> made[c], kinds |-> IF made[c] = 0 THEN {} ELSE KindsOf[c]]]
  BY DEF Init
<1>6. Shaped
  <2>1. dir \in [Components -> AnyProfile]
    BY <1>3, <1>4
  <2>2. parked \in [Components -> AnyProfile] /\ run \in AnyRun
    BY <1>5, NoWheelsSound, NoRunIn
  <2>3. made \in [Components -> Nat] /\ count \in [{"run", "fault", "kill"} -> Nat]
    BY <1>1, <1>5
  <2>4. release \in [Components -> [set : Nat, kinds : SUBSET Kinds]]
    BY <1>1, <1>5, KindsThere
  <2> QED
    BY <2>1, <2>2, <2>3, <2>4 DEF Shaped
<1>7. Offered
  BY <1>1, <1>2, <1>5 DEF Offered
<1>8. Kept /\ StillHeld
  <2>1. \A c \in Components : run.found[c] = NoWheels
    BY <1>5, NoRunIn
  <2> QED
    BY <1>4, <1>5, <2>1, NoWheelsSound DEF Kept, StillHeld
<1>9. Listing /\ Placed /\ Ordered /\ Told
  BY <1>5, NoRunIn, Components2 DEF Current, Listing, Placed, Ordered, Told
<1> QED
  BY <1>6, <1>7, <1>8, <1>9 DEF IInv

LEMMA Stuttering ==
  ASSUME IInv, UNCHANGED vars
  PROVE  IInv'
<1>1. UNCHANGED <<release, dir, parked, made, run, count>>
  BY DEF vars, cache
<1>2. Offered' /\ Kept' /\ StillHeld'
  BY <1>1, SameProfiles
<1>3. Shaped' /\ Listing' /\ Placed' /\ Told'
  BY <1>1 DEF Current, IInv, Shaped, Listing, Answers, Placed, Told
<1>4. Ordered'
  BY <1>1 DEF Current, IInv, Ordered, Whole
<1> QED
  BY <1>2, <1>3, <1>4 DEF IInv

LEMMA Inductive ==
  ASSUME IInv, [Next]_vars
  PROVE  IInv'
<1>1. CASE \E mode \in [Components -> Modes], clean \in BOOLEAN : Start(mode, clean)
  BY <1>1, StartStep
<1>2. CASE List \/ NotListed \/ ReadCommit \/ KeepLocal \/ NeedDownload
  BY <1>2, ListStep, NotListedStep, ReadCommitStep, KeepLocalStep, NeedDownloadStep
<1>3. CASE Sweep \/ Fetch \/ FetchFails \/ Fetched \/ WriteMark \/ Undo \/ Restore \/ UseExisting
  BY <1>3, SweepStep, FetchStep, FetchFailsStep, FetchedStep, WriteMarkStep, UndoStep, RestoreStep,
     UseExistingStep
<1>4. CASE Build \/ BuildFails \/ Park \/ Promote \/ PromoteFails \/ Unpark
  BY <1>4, BuildStep, BuildFailsStep, ParkStep, PromoteStep, PromoteFailsStep, UnparkStep
<1>5. CASE CleanUp \/ Validate \/ MakeImage \/ ImageFails \/ Kill
  BY <1>5, CleanUpStep, ValidateStep, MakeImageStep, ImageFailsStep, KillStep
<1>6. CASE \E c \in Components : \E lacking \in {{}, {"provider"}} : Publish(c, KindsOf[c] \ lacking)
  BY <1>6, PublishStep
<1>7. CASE \E c \in Components : Repair(c)
  BY <1>7, RepairStep
<1>8. CASE UNCHANGED vars
  BY <1>8, Stuttering
<1> QED
  BY <1>1, <1>2, <1>3, <1>4, <1>5, <1>6, <1>7, <1>8 DEF Next, Step

LEMMA Invariance == Spec => []IInv
<1>1. Init => IInv
  BY Initially
<1>2. IInv /\ [Next]_vars => IInv'
  BY Inductive
<1> QED
  BY <1>1, <1>2, PTL DEF Spec

\* Every variable has its type.
THEOREM TypeCorrect == Spec => []TypeOK
<1>1. ASSUME IInv
      PROVE  TypeOK
  <2>1. \A c \in Components :
          /\ release[c] \in [set : Sets(c) \cup {0}, kinds : SUBSET KindsOf[c]]
          /\ {dir[c], parked[c], run.found[c]} \subseteq Profiles(c)
          /\ made[c] \in Sets(c) \cup {0}
    BY <1>1 DEF IInv, Offered, Kept, Sound, Shaped
  <2>2. /\ run.step \in Steps /\ run.end \in {"none", "ok", "failed", "killed"}
        /\ run.comp \in Components /\ run.mode \in [Components -> Modes] /\ run.upset \in BOOLEAN
        /\ run.kinds \subseteq KindsOf["flashinfer"] \cup KindsOf["vllm"]
        /\ count \in [{"run", "fault", "kill"} -> Nat]
    BY <1>1 DEF IInv, Shaped, AnyRun, Kinds, KindsOf
  <2>3. /\ run.listed \in Sets(Current) \cup {0} /\ run.commit \in Sets(Current) \cup {0}
        /\ run.todo \subseteq run.kinds
    BY <1>1 DEF IInv, Told
  <2> QED
    BY <2>1, <2>2, <2>3 DEF TypeOK
<1> QED
  BY <1>1, Invariance, PTL

\* A profile's mark, which lets later runs pass without a download, is the commit of its wheels.
THEOREM MarksCorrect == Spec => []MarksMatch
<1>1. IInv => MarksMatch
  BY DEF IInv, Kept, Sound, MarksMatch
<1> QED
  BY <1>1, Invariance, PTL

\* No kill and no failure takes a whole set from the disk before another is in its place.
THEOREM WheelsHeld == Spec => []StillHeld
<1>1. IInv => StillHeld
  BY DEF IInv
<1> QED
  BY <1>1, Invariance, PTL

-----------------------------------------------------------------------------
(***************************************************************************)
(* What steps may never do.                                                *)
(***************************************************************************)
\* Each action of the script belongs to one step.
LEMMA Guards ==
  /\ CleanUp => run.step = "clean"
  /\ List \/ NotListed => run.step = "list"
  /\ ReadCommit => run.step = "page"
  /\ KeepLocal \/ NeedDownload => run.step = "decide"
  /\ Sweep => run.step = "sweep"
  /\ Fetch \/ FetchFails \/ Fetched => run.step = "fetch"
  /\ WriteMark => run.step = "mark"
  /\ Undo => run.step = "undo"
  /\ Restore => run.step = "restore"
  /\ UseExisting => run.step = "existing"
  /\ Build \/ BuildFails => run.step = "build"
  /\ Park => run.step = "park"
  /\ Promote \/ PromoteFails => run.step = "promote"
  /\ Unpark => run.step = "unpark"
  /\ Validate => run.step = "validate"
  /\ MakeImage \/ ImageFails => run.step = "image"
<1>1. /\ CleanUp => run.step = "clean"
      /\ List \/ NotListed => run.step = "list"
      /\ ReadCommit => run.step = "page"
      /\ KeepLocal \/ NeedDownload => run.step = "decide"
  BY DEF CleanUp, List, NotListed, ReadCommit, KeepLocal, NeedDownload, At
<1>2. /\ Sweep => run.step = "sweep"
      /\ Fetch \/ FetchFails \/ Fetched => run.step = "fetch"
      /\ WriteMark => run.step = "mark"
      /\ Undo => run.step = "undo"
      /\ Restore => run.step = "restore"
      /\ UseExisting => run.step = "existing"
  BY DEF Sweep, Fetch, FetchFails, Fetched, WriteMark, Undo, Restore, UseExisting, At
<1>3. /\ Build \/ BuildFails => run.step = "build"
      /\ Park => run.step = "park"
      /\ Promote \/ PromoteFails => run.step = "promote"
      /\ Unpark => run.step = "unpark"
      /\ Validate => run.step = "validate"
      /\ MakeImage \/ ImageFails => run.step = "image"
  BY DEF Build, BuildFails, Park, Promote, PromoteFails, Unpark, Validate, MakeImage, ImageFails, At
<1> QED
  BY <1>1, <1>2, <1>3

\* Where the script goes on, it has not ended.
LEMMA GoesOn ==
  ASSUME IInv,
         \/ CleanUp \/ List \/ NotListed \/ ReadCommit \/ KeepLocal \/ NeedDownload
         \/ Sweep \/ Fetch \/ FetchFails \/ Fetched \/ WriteMark \/ Undo \/ Restore
         \/ Build \/ Park \/ Promote \/ Unpark
  PROVE  run'.end = "none"
<1>1. run \in AnyRun /\ (run.step # "off" => run.end = "none")
  BY DEF IInv, Shaped, Ordered
<1>2. CASE CleanUp
  <2>1. run.end = "none"
    BY <1>1, <1>2, Guards
  <2>2. run' = run \/ run'.end = "none"
    <3>1. \A r, c : Begin(r, c).end = "none"
      BY NoRunIn DEF Begin, AnyRun
    <3> QED
      BY <1>2, <3>1 DEF CleanUp
  <2> QED
    BY <2>1, <2>2
<1>3. CASE List \/ NotListed \/ ReadCommit \/ KeepLocal \/ NeedDownload
  <2>1. run.end = "none"
    BY <1>1, <1>3, Guards
  <2>2. run'.end = run.end
    BY <1>1, <1>3 DEF List, NotListed, ReadCommit, KeepLocal, NeedDownload, GoTo, Fault, AnyRun
  <2> QED
    BY <2>1, <2>2
<1>4. CASE Sweep \/ Fetch \/ FetchFails \/ Fetched \/ WriteMark \/ Undo \/ Restore
  <2>1. run.end = "none"
    BY <1>1, <1>4, Guards
  <2>2. run'.end = run.end
    BY <1>1, <1>4 DEF Sweep, Fetch, FetchFails, Fetched, WriteMark, Undo, Restore, GoTo, Fault, AnyRun
  <2> QED
    BY <2>1, <2>2
<1>5. CASE Build \/ Park \/ Promote \/ Unpark
  <2>1. run.end = "none"
    BY <1>1, <1>5, Guards
  <2>2. run'.end = run.end
    BY <1>1, <1>5 DEF Build, Park, Promote, Unpark, GoTo, AnyRun
  <2> QED
    BY <2>1, <2>2
<1> QED
  BY <1>2, <1>3, <1>4, <1>5

\* Where a run ends, and why it fails.
LEMMA StepEnds ==
  ASSUME IInv, Step
  PROVE  /\ run'.end = "ok" => MakeImage
         /\ run'.end = "failed" => run.upset = TRUE \/ count' # count
<1>1. CASE UseExisting
  <2>1. run.end = "none" /\ run.upset = TRUE
    BY <1>1, UseExistingStep, Guards DEF IInv, Ordered
  <2>2. run'.end = "none" \/ run'.end = "failed"
    BY <1>1, <2>1, NoRunIn DEF UseExisting, GoTo, End, IInv, Shaped, AnyRun
  <2> QED
    BY <2>1, <2>2
<1>2. CASE BuildFails \/ PromoteFails \/ ImageFails
  <2>1. End("failed") /\ count' # count
    BY <1>2, TickCounts DEF BuildFails, PromoteFails, ImageFails
  <2>2. run'.end = "failed"
    BY <2>1, NoRunIn DEF End, AnyRun
  <2> QED
    BY <2>1, <2>2
<1>3. CASE Validate
  <2>1. run'.end = "none" \/ run'.end = "failed"
    BY <1>3, NoRunIn DEF Validate, Begin, End, AnyRun
  <2> QED
    BY <1>3, <2>1, ValidateStep
<1>4. CASE MakeImage
  BY <1>4, MakeImageStep
<1> QED
  BY <1>1, <1>2, <1>3, <1>4, GoesOn DEF Step

\* A step that ends a run is one of the script's, or a kill.
LEMMA OnlyTheScript ==
  ASSUME IInv, Next, run.step # "off", run'.step # run.step, run'.end # "killed"
  PROVE  Step
<1>1. ~\E mode \in [Components -> Modes], clean \in BOOLEAN : Start(mode, clean)
  BY DEF Start, At
<1>2. ~\E c \in Components : \E lacking \in {{}, {"provider"}} : Publish(c, KindsOf[c] \ lacking)
  BY PublishStep
<1>3. ~\E c \in Components : Repair(c)
  BY RepairStep
<1>4. ~Kill
  BY KillStep
<1> QED
  BY <1>1, <1>2, <1>3, <1>4 DEF Next

\* Images are only made of whole sets, whatever happened before.
THEOREM ImagesWhole == Spec => ImageWhole
<1>1. ASSUME IInv, IInv', Next, ~At("off"), run'.end = "ok"
      PROVE  \A c \in Components : Whole(c, dir[c].wheels)
  <2>1. run.step # "off" /\ run.end = "none" /\ run'.step = "off"
    BY <1>1 DEF At, IInv, Ordered
  <2>2. MakeImage
    BY <1>1, <2>1, OnlyTheScript, StepEnds
  <2> QED
    BY <1>1, <2>2, MakeImageStep
<1>2. IInv /\ IInv' /\ [Next]_vars
        => [~At("off") /\ run'.end = "ok" => \A c \in Components : Whole(c, dir[c].wheels)]_vars
  BY <1>1
<1> QED
  BY <1>2, Invariance, PTL DEF Spec, ImageWhole

\* A run that nothing upset and in which nothing failed makes its image.
THEOREM RunsRecover == Spec => RecoversAlone
<1>1. ASSUME IInv, Next, ~At("off"), run'.step = "off", run'.end = "failed"
      PROVE  run.upset \/ count' # count
  <2>1. Step
    BY <1>1, OnlyTheScript DEF At
  <2>2. run.upset = TRUE \/ count' # count
    BY <1>1, <2>1, StepEnds
  <2> QED
    BY <2>2
<1>2. IInv /\ [Next]_vars
        => [~At("off") /\ run'.step = "off" /\ run'.end = "failed" => run.upset \/ count' # count]_vars
  BY <1>1
<1> QED
  BY <1>2, Invariance, PTL DEF Spec, RecoversAlone

\* What is reported to have failed has left the profile as it was found.
THEOREM FailuresKeep == Spec => KeptOnFailure
<1>1. ASSUME IInv, IInv', Next, run.step = "restore", run'.step = "existing"
      PROVE  /\ dir'[Current].wheels = run.found[Current].wheels
             /\ dir'[Current].mark = run.found[Current].mark
  <2>1. run'.end = "none"
    BY <1>1 DEF IInv, Ordered
  <2>2. Restore
    BY <1>1, <2>1, OnlyTheScript, Guards DEF Step
  <2>3. run'.comp = run.comp /\ run'.found = run.found
    BY <1>1, <2>2 DEF Restore, GoTo, IInv, Shaped, AnyRun
  <2> QED
    BY <1>1, <2>3 DEF Current, IInv, Placed
<1>2. ASSUME IInv, Next, run.step \in {"build", "promote"}, run'.step = "off", run'.end = "failed"
      PROVE  /\ dir'[Current].wheels = run.found[Current].wheels
             /\ dir'[Current].mark = run.found[Current].mark
  <2>1. Build \/ BuildFails \/ Promote \/ PromoteFails
    BY <1>2, OnlyTheScript, Guards DEF Step
  <2>2. BuildFails \/ PromoteFails
    BY <1>2, <2>1, GoesOn
  <2>3. CASE BuildFails
    BY <1>2, <2>3, Guards DEF Current, BuildFails, cache, IInv, Placed
  <2>4. CASE PromoteFails
    BY <1>2, <2>4, PromoteFailsStep
  <2> QED
    BY <2>2, <2>3, <2>4
<1>3. IInv /\ IInv' /\ [Next]_vars
        => [\/ At("restore") /\ run'.step = "existing"
            \/ run.step \in {"build", "promote"} /\ run'.step = "off" /\ run'.end = "failed"
            => /\ dir'[Current].wheels = run.found[Current].wheels
               /\ dir'[Current].mark = run.found[Current].mark]_vars
  BY <1>1, <1>2 DEF At
<1> QED
  BY <1>3, Invariance, PTL DEF Spec, KeptOnFailure
=============================================================================
