---------------------------- MODULE SourcePatches ----------------------------
(***************************************************************************)
(* The scripts that edit vLLM, FlashInfer, InstantTensor and Torch sources *)
(* while the image is built (src/docker/*.py, in the Dockerfile's order)   *)
(* and the mods that edit the installed packages of a running container.   *)
(*                                                                         *)
(* A text is a record that says how many times each passage a script looks *)
(* for occurs in it; `exists' is 0 for a file that is not there.  A tree   *)
(* is a record of texts.  Each script is an operator that says what it     *)
(* decides on a tree before its first write: to keep it, to refuse it, or  *)
(* the writes it makes, in order.  The machine runs a series of scripts    *)
(* over one tree, one write at a time, may run the series again, and may   *)
(* lose a mod of a running container between or in the middle of writes.   *)
(* Two mods ask the container more than its sources, and may fail there    *)
(* with files written.                                                     *)
(***************************************************************************)
EXTENDS Integers, Sequences, SequencesExt, FiniteSets

CONSTANTS
    Starts,     \* the series checked: [steps, tree, env] records
    MaxRounds,  \* how often a series is applied to the same tree
    MaxKills    \* how often a mod is lost while it writes

ASSUME BoundsAssumption == MaxRounds \in Nat \ {0} /\ MaxKills \in Nat

VARIABLES
    steps,    \* the scripts of the series
    env,      \* the options the scripts read from their environment
    tree,     \* the texts of the files they edit
    todo,     \* the scripts still to run, the first one running if busy
    pending,  \* the writes the running script still has to make
    busy,     \* a script has decided and not ended
    base,     \* the tree the running, or the refusing, script found
    status,   \* "running", "refused" or "done"
    rounds, kills

vars == <<steps, env, tree, todo, pending, busy, base, status, rounds, kills>>

-----------------------------------------------------------------------------
(* What a script decides. *)

Keep == [refused |-> FALSE, writes |-> <<>>]
Refuse == [refused |-> TRUE, writes |-> <<>>]
Write(f, text) ==
    [refused |-> FALSE, writes |-> <<[file |-> f, text |-> text, atomic |-> FALSE]>>]
Replace(f, text) ==     \* through a temporary file
    [refused |-> FALSE, writes |-> <<[file |-> f, text |-> text, atomic |-> TRUE]>>]
Then(a, b) == [refused |-> a.refused \/ b.refused, writes |-> a.writes \o b.writes]

Known(refuse, outcome) == IF refuse THEN Refuse ELSE outcome

(* A text with one occurrence of each old passage turned into the new one. *)
Swap(text, pairs) ==
    [p \in DOMAIN text |->
        text[p] + Cardinality({q \in pairs : q[2] = p})
                - Cardinality({q \in pairs : q[1] = p})]
Add(text, P) == [p \in DOMAIN text |-> IF p \in P THEN text[p] + 1 ELSE text[p]]
AddMissing(text, P) == Add(text, {p \in P : text[p] = 0})
Once(text, P) == \A p \in P : text[p] = 1

-----------------------------------------------------------------------------
(* The image build: vLLM's source tree. *)

(* Every endpoint behind the key; the option's help text is in one of two files. *)
ApiKeyAuth(t) ==
    LET cli == IF t.common.exists = 1 THEN "common" ELSE "launchers"
        old == {"guard", "call", "notes"}
    IN  IF t.auth.exists = 0 THEN Keep
        ELSE Known(t[cli].exists = 0 \/ ~Once(t.auth, old) \/ t[cli].help # 1,
                   Then(Write("auth", Swap(t.auth, {<<p, "fixed">> : p \in old})),
                        Write(cli, Swap(t[cli], {<<"help", "fixed">>}))))

SwaBlockSize(t) ==
    LET f == t.attention
        anchors == f.anchor + f.spec
        patched == f.fixed + f.specFixed
        divisor == {"divParam", "divSelection", "divCall"}
    IN  IF patched + f.stray > 0
        THEN Known(patched # 1 \/ f.stray > 0 \/ anchors > 0, Keep)
        ELSE IF f.selector = 0 THEN Keep
        ELSE IF \E p \in divisor : f[p] > 0
             THEN Known(~Once(f, divisor) \/ anchors > 0, Keep)
        ELSE IF f.legacy > 0 /\ f.budget + anchors = 0 THEN Keep
        ELSE Known(anchors # 1,
                   Write("attention", Swap(f, IF f.anchor = 1 THEN {<<"anchor", "fixed">>}
                                              ELSE {<<"spec", "specFixed">>})))

Mrv2Upstream(f) == f.collection > 0      \* faulty variant: forgets its own edit

Mrv2Fixed(f) == (f.poolFixed > 0 /\ f.cleanFixed > 0) \/ f.collection > 0
Mrv2Affected(f) == f.profiler > 0 /\ f.pool + f.poolFixed + f.handle > 0

Mrv2Speculator(t) ==
    LET f == t.profiler
        old == {"decl", "pool", "clean"}
        fixes == {<<"decl", "declFixed">>, <<"pool", "poolFixed">>, <<"clean", "cleanFixed">>}
    IN  IF Mrv2Fixed(f) \/ ~Mrv2Affected(f) THEN Keep
        ELSE Known(~Once(f, old),
                   Write("profiler", Swap(f, fixes)))

(* Opt-in: the import of an alignment constant the B12X sources forgot. *)
C128aAlignment(t, e) ==
    IF e.c128a = "invalid" THEN Refuse
    ELSE IF e.c128a = "off" \/ t.mla.uses = 0 \/ t.mla.binds > 0 THEN Keep
    ELSE Known(t.compressor.is128 = 0 \/ t.mla.imports # 1,
               Write("mla", Swap(t.mla, {<<"imports", "binds">>})))

(* The three patchers of vLLM PR #47392: a passage is added where it is    *)
(* missing, and needs its anchor (its name with At) exactly once.          *)
Unanchored(f, P) == \E p \in P : f[p] = 0 /\ f[p \o "At"] # 1

UtilUnknown(f) ==
    \/ f.capability = 0 /\ (Unanchored(f, {"inspect"}) \/ f.capabilityAt # 1)
    \/ Unanchored(f, {"export"})
UtilPatched(f) ==
    IF f.capability > 0 THEN AddMissing(f, {"export"})
    ELSE Swap(AddMissing(f, {"inspect", "export"}), {<<"capabilityAt", "capability">>})

ExpertAdds == {"imports", "map", "config", "wrapper", "forward"}
ExpertUnknown(f) ==
    Unanchored(f, ExpertAdds) \/ (f.support = 0 /\ f.legacy + f.gelu # 1)
ExpertPatched(f) ==
    LET added == AddMissing(f, ExpertAdds)
    IN  IF f.support > 0 THEN added
        ELSE Swap(added, {<<IF f.legacy = 1 THEN "legacy" ELSE "gelu", "support">>})

OracleUnknown(f) == Unanchored(f, {"activation", "helper"}) \/ f.clampSet = 0
OraclePatched(f) ==
    AddMissing(f, {"activation", "helper"}
                  \cup (IF f.inClamp = 0 THEN {"adds"} ELSE {}))

SwigluoaiInTurn(t) ==      \* faulty variant: each file is checked when its turn comes
    IF t.expert.exists = 0 THEN Keep
    ELSE IF t.util.exists = 0 \/ UtilUnknown(t.util) THEN Refuse
    ELSE Then(Write("util", UtilPatched(t.util)),
              Known(ExpertUnknown(t.expert) \/ t.oracle.exists = 0 \/ OracleUnknown(t.oracle),
                    Then(Write("expert", ExpertPatched(t.expert)),
                         Write("oracle", OraclePatched(t.oracle)))))

(* All three texts are computed before the first one is written. *)
Swigluoai(t) ==
    LET changed(f, text) == IF text = t[f] THEN Keep ELSE Write(f, text)
    IN  IF t.expert.exists = 0 THEN Keep
        ELSE Known(\/ t.util.exists = 0 \/ UtilUnknown(t.util)
                   \/ ExpertUnknown(t.expert)
                   \/ t.oracle.exists = 0 \/ OracleUnknown(t.oracle),
                   Then(changed("util", UtilPatched(t.util)),
                        Then(changed("expert", ExpertPatched(t.expert)),
                             changed("oracle", OraclePatched(t.oracle)))))

TopkSoftplus(t) ==
    LET f == t.ops
        direct == f.direct + f.misplaced + f.fixed > 0
        bare == f.bareReturn + f.misplaced > 0
    IN  IF f.exists = 0 THEN Refuse
        ELSE IF f.function = 0 \/ f.padding = 0 \/ f.fixed > 0 THEN Keep
        ELSE IF direct /\ f.xpu = 0 /\ ~bare THEN Keep
        ELSE Known(f.misplaced # 1, Write("ops", Swap(f, {<<"misplaced", "fixed">>})))

PreserveSm12x(t, e) ==
    LET f == t.cmake
    IN  IF ~e.sm12x THEN Keep
        ELSE IF f.exists = 0 THEN Refuse
        ELSE IF f.subs > 0 THEN Keep
        ELSE IF f.sm121 = 1 THEN Write("cmake", Swap(f, {<<"sm121", "subs">>}))
        ELSE Known(f.default # 1, Write("cmake", Swap(f, {<<"default", "subs">>})))

DiffusionCausal(t) ==
    LET f == t.attnUtils
        fixes == {<<"signature", "signatureFixed">>, <<"group", "groupFixed">>}
    IN  IF f.exists = 0 THEN Refuse
        ELSE IF f.signatureFixed > 0 /\ f.groupFixed > 0 THEN Keep
        ELSE IF f.signature > 0 /\ f.group > 0
             THEN Write("attnUtils", Swap(f, fixes))
        ELSE Keep

(* The workarounds that skip whatever they do not know.  Each looks for the *)
(* fixed form first; MiniMax's looks for the broken form and replaces all.  *)
LenientBlind(f, text) ==      \* faulty variant: never looks for the broken form
    IF text.fixed > 0 THEN Keep ELSE Write(f, Swap(text, {<<"broken", "fixed">>}))

Lenient(f, text) ==
    IF text.fixed > 0 \/ text.broken = 0 THEN Keep
    ELSE Write(f, Swap(text, {<<"broken", "fixed">>}))
Gemma4Embedding(t) == Lenient("proposer", t.proposer)
Sm120Topk(t) == Lenient("indexer", t.indexer)
AutogptqQzeros(t) == Lenient("autogptq", t.autogptq)
RoutedExperts(t) == Lenient("routed", t.routed)
MinimaxIpc(t) ==
    LET f == t.minimax
    IN  IF f.broken = 0 THEN Keep
        ELSE Write("minimax", [f EXCEPT !.fixed = @ + f.broken, !.broken = 0])

(* GPU worker: release the profiling allocations before the cache is sized. *)
(* `measure' is the call on a line of its own, `inline' the call elsewhere. *)
KvRefreshed(f) == f.measure + f.inline > 0 /\ f.charge > 0
KvCleanup(t) ==
    LET f == t.worker
        before == {p \in {"cleanBeforeSnapshot"} : f.snapshot > 0}
        first == IF before # {} THEN before ELSE {"cleanBeforeFree"}
        new == Add(f, (IF f.prealloc > 0 /\ KvRefreshed(f) THEN {}
                       ELSE {p \in {"importGc"} : f.importGc = 0})
                      \cup (IF KvRefreshed(f) THEN {} ELSE first \cup {"measure", "charge"})
                      \cup {p \in {"trim", "prealloc"} : f[p] = 0})
    IN  Known(\/ f.exists = 0
              \/ ~KvRefreshed(f) /\ f.snapshot + f.freeMemory = 0
              \/ f.trim = 0 /\ new.measure = 0
              \/ f.prealloc = 0 /\ f.initialize = 0,
              IF new = f THEN Keep ELSE Write("worker", new))

(* `trim' is the whole block at the end of the function, `stray' its marker *)
(* elsewhere, `freezeLast' that gc.freeze() ends the function before it.    *)
HeapTrim(t) ==
    LET f == t.gc
        marked == f.trim + f.stray
    IN  Known(\/ f.exists = 0 \/ f.function # 1
              \/ marked > 0 /\ (marked # 1 \/ f.trim # 1)
              \/ f.freezeLast = 0 \/ f.collect = 0,
              IF marked > 0 THEN Keep ELSE Write("gc", Add(f, {"trim"})))

MoeTuning(t) ==
    LET f == t.moe
        old == {"patterns", "copyOld", "owners", "rangeOld"}
    IN  IF f.exists = 0 \/ f.make = 0 THEN Keep
        ELSE IF f.make > 1 \/ f.call # 1 THEN Refuse
        ELSE IF f.mark > 0
             THEN Known(f.owners + f.otherOwner > 0 \/ f.copyNew = 0, Keep)
        ELSE IF f.owners + f.otherOwner = 0 THEN Keep
        ELSE Known(f.otherOwner > 0 \/ ~Once(f, old),
                   Write("moe", Swap(f, {<<"patterns", "mark">>, <<"copyOld", "copyNew">>,
                                         <<"owners", "-">>, <<"rangeOld", "-">>})))

TuningBatch(t) ==
    LET f == t.prepare
    IN  IF f.exists = 0 THEN Keep
        ELSE IF f.function # 1 \/ f.session # 1 THEN Refuse
        ELSE IF f.batchOne + f.batchOther > 0
             THEN Known(f.batchOne # 1 \/ f.batchOther > 0, Keep)
        ELSE Known(f.keywords = 0, Write("prepare", Add(f, {"batchOne"})))

(* Two places of one file: the accessor and the registry of submodules.    *)
(* An accessor is the old one, this script's, one that names the reference *)
(* module directly, another one that still names the old module, or a     *)
(* foreign one.                                                            *)
ScaleSwizzle(t) ==
    LET f == t.b12x
        helpers == f.old + f.fixed + f.direct + f.namesOld + f.foreign
    IN  IF f.exists = 0 \/ helpers = 0 THEN Keep
        ELSE IF helpers > 1 THEN Refuse
        ELSE IF f.namesOld + f.foreign = 1
             THEN Known(f.namesOld = 1 \/ f.stray > 0, Keep)
        ELSE IF f.registry # 1 THEN Refuse
        ELSE IF f.direct = 1 THEN Known(f.reference # 1, Keep)
        ELSE IF f.fixed = 1 THEN Known(f.reference # 1 \/ f.entry # 1, Keep)
        ELSE Known(f.entry # 1 \/ f.reference > 0 \/ f.decorated > 0,
                   Write("b12x", Swap(Add(f, {"reference"}), {<<"old", "fixed">>})))

(* Run on the source tree, and again on the package that was installed. *)
WslUma(t) ==
    LET f == t.mem
        guarded == IF f.guard = 1 THEN Swap(f, {<<"guard", "guardFixed">>}) ELSE f
        new == AddMissing(guarded, {"importWsl"})
    IN  Known(\/ f.exists = 0 \/ f.measure # 1 \/ f.guard + f.guardFixed # 1
              \/ f.importWsl = 0 /\ f.importPlatform # 1,
              IF new = f THEN Keep ELSE Write("mem", new))

(* The pins of every path are counted, whatever version they name. *)
PinCutlass(t) ==
    LET f == t.requirements
    IN  Known(f.exists = 0 \/ f.otherPin + f.pin # 1,
              Write("requirements", [f EXCEPT !.pin = 1, !.otherPin = 0]))

-----------------------------------------------------------------------------
(* The image build: FlashInfer's sources and the installed packages. *)

LoaderOnce(t) ==      \* faulty variant: the fixed form anywhere is enough
    IF t.storage.fixed > 0 \/ t.storage.broken = 0 THEN Keep
    ELSE Write("storage", Swap(t.storage, {<<"broken", "fixed">>}))

LoaderIncludeOrder(t) ==
    LET f == t.storage
    IN  IF f.broken = 0 THEN Keep
        ELSE Known(f.broken # 1, Write("storage", Swap(f, {<<"broken", "fixed">>})))

InstantTensorMemory(t) ==
    LET f == t.impl
        old == f.query + f.queryUma
        new == f.fixed + f.fixedUma
    IN  IF f.exists = 0 \/ f.method # 1 THEN Refuse
        ELSE IF old = 0 /\ new = 1 THEN Keep
        ELSE Known(old # 1 \/ new # 0,
                   Write("impl", Swap(f, IF f.query = 1 THEN {<<"query", "fixed">>}
                                         ELSE {<<"queryUma", "fixedUma">>})))

TorchSchema(t) ==
    LET f == t.library
    IN  IF f.exists = 0 \/ f.function # 1 THEN Refuse
        ELSE IF f.loop = 0 /\ f.loopFixed = 1 THEN Keep
        ELSE Known(f.loop # 1 \/ f.loopFixed # 0,
                   Write("library", Swap(f, {<<"loop", "loopFixed">>})))

-----------------------------------------------------------------------------
(* Mods: scripts run inside a container that already exists. *)

HybridDraftLoader(t) ==
    LET f == t.loader
    IN  Known(f.exists = 0 \/ f.getModel = 0 \/ f.getLoader = 0
              \/ (IF f.marker > 0 THEN f.helper = 0 \/ f.marker > 1 \/ f.uses = 0
                  ELSE f.anchor # 1),
              IF f.marker > 0 THEN Keep
              ELSE Replace("loader", Swap(Add(f, {"marker", "helper"}),
                                          {<<"anchor", "uses">>})))

ZeroCopy(t) ==
    LET f == t.weights
        copies == f.copyTrue + f.copyFalse + f.copyOther
    IN  Known(\/ f.exists = 0 \/ f.marker > 1
              \/ f.iterator # 1 \/ f.safeOpen # 1 \/ copies # 1 \/ f.copyOther > 0
              \/ f.copyFalse = 0 /\ f.marker > 0,
              IF f.copyFalse = 1 THEN Keep
              ELSE Replace("weights", Swap(Add(f, {"marker"}), {<<"copyTrue", "copyFalse">>})))

InklingPatch(t) ==
    LET f == t.inkling
        old == {"helper", "seqlen", "split"}
        dispatch == IF f.upstream > 0 THEN "upstream" ELSE "legacy"
    IN  Known(\/ f.exists = 0 \/ f.functions = 0
              \/ (IF f.marker > 0 THEN f.adapter = 0
                  ELSE ~Once(f, old) \/ f[dispatch] # 1),
              IF f.marker > 0 THEN Keep
              ELSE Replace("inkling", Swap(f, {<<"helper", "marker">>, <<dispatch, "adapter">>,
                                               <<"seqlen", "-">>, <<"split", "-">>})))

(* Checks the module, installs the kernel bundle and its adapter, and only *)
(* then points the module at them; PreflightFails and ImportFails are the   *)
(* other ways out.                                                         *)
InklingMod(t) ==
    LET patch == InklingPatch(t)
    IN  Known(patch.refused,
              Then(Write("vendor", [exists |-> 1, whole |-> 1]),
                   Then(Write("adapter", [exists |-> 1, whole |-> 1]), patch)))

(* The router's gate: one constructor call, whose quant_config keyword is  *)
(* the model's, None, missing, or something else.                          *)
QwenRouterGate(t) ==
    LET f == t.qwen
    IN  Known(\/ f.exists = 0 \/ f.block # 1 \/ f.binding # 1 \/ f.gate # 1 \/ f.known = 0
              \/ f.quantNone + f.quantModel + f.quantOther > 1 \/ f.quantOther > 0,
              IF f.quantModel = 1 THEN Keep
              ELSE Write("qwen", [f EXCEPT !.quantNone = 0, !.quantModel = 1]))

RopeKeys(t) ==
    LET f == t.rope
    IN  Known(f.exists = 0, Write("rope", [f EXCEPT !.set = @ + f.list, !.list = 0]))

(* The memory profiler: three sources get a hook at their very end, and the *)
(* package a helper module and a manifest.                                  *)
Hooked(f) == f.hook + f.hookStray > 0
HookUnknown(f, shape) ==
    IF Hooked(f) THEN f.hook # 1 \/ f.hookStray > 0 ELSE f[shape] # 1
Hook(f) == IF Hooked(f) THEN f ELSE Add(f, {"hook"})

ApiFile(t) == IF t.serverUtils.lifespan > 0 THEN "serverUtils" ELSE "apiServer"

ProfileSomewhere(t, hooked) == hooked # {}      \* faulty variant: one hook is enough

ProfileWhole(t, hooked) ==
    /\ hooked = {"worker", "gc", ApiFile(t)}
    /\ t.manifest.exists = 1 /\ t.helper.exists = 1

MemoryProfile(t, e) ==
    LET api == ApiFile(t)
        run == IF e.run = 0 THEN 10 + Cardinality(t.directories.runs) ELSE e.run
        hooked == {f \in {"worker", "gc", api} : Hooked(t[f])}
        made == [exists |-> 1, whole |-> 1]
    IN  IF \/ t.worker.exists = 0 \/ t.gc.exists = 0 \/ t[api].lifespan = 0
           \/ HookUnknown(t.worker, "startup") \/ HookUnknown(t.gc, "function")
           \/ HookUnknown(t[api], "context")
        THEN Refuse
        ELSE IF hooked # {}
        THEN Known(\/ ~ProfileWhole(t, hooked)
                   \/ e.run # 0 /\ e.run # t.manifest.run, Keep)
        ELSE Known(run \in t.directories.runs,
                   Then(Replace("directories", [runs |-> t.directories.runs \cup {run}]),
                   Then(Write("helper", made),
                   Then(Write("manifest", [exists |-> 1, run |-> run]),
                   Then(Write("worker", Hook(t.worker)),
                   Then(Write("gc", Hook(t.gc)), Write(api, Hook(t[api]))))))))

-----------------------------------------------------------------------------
(* The passages a script looks for, or adds, in the files it reads. *)
Looks(script) ==
    LET worker == {"importGc", "measure", "inline", "charge", "snapshot", "freeMemory",
                   "cleanBeforeSnapshot", "cleanBeforeFree", "trim", "prealloc", "initialize",
                   "startup", "hook", "hookStray"}
        gc == {"function", "collect", "freezeLast", "trim", "stray", "hook", "hookStray"}
        api == {"lifespan", "context", "hook", "hookStray"}
        lenient == {"fixed", "broken"}
    IN CASE script = "api_key_auth" -> [auth |-> {"guard", "call", "notes", "fixed"},
                                        common |-> {"help", "fixed"}, launchers |-> {"help", "fixed"}]
      [] script = "swa_block_size" ->
            [attention |-> {"anchor", "spec", "fixed", "specFixed", "stray", "selector",
                            "divParam", "divSelection", "divCall", "legacy", "budget"}]
      [] script = "mrv2_speculator" ->
            [profiler |-> {"profiler", "decl", "pool", "clean", "declFixed", "poolFixed",
                           "cleanFixed", "collection", "handle"}]
      [] script = "c128a" -> [mla |-> {"uses", "binds", "imports"}, compressor |-> {"is128"}]
      [] script = "swigluoai" ->
            [util |-> {"capability", "capabilityAt", "inspect", "inspectAt", "export", "exportAt"},
             expert |-> {"imports", "importsAt", "map", "mapAt", "config", "configAt", "wrapper",
                         "wrapperAt", "forward", "forwardAt", "support", "legacy", "gelu"},
             oracle |-> {"activation", "activationAt", "helper", "helperAt", "clampSet",
                         "inClamp", "adds"}]
      [] script = "topk_softplus" ->
            [ops |-> {"function", "padding", "fixed", "direct", "xpu", "bareReturn", "misplaced"}]
      [] script = "sm12x" -> [cmake |-> {"subs", "sm121", "default"}]
      [] script = "diffusion" -> [attnUtils |-> {"signature", "signatureFixed", "group", "groupFixed"}]
      [] script = "gemma4" -> [proposer |-> lenient]
      [] script = "sm120_topk" -> [indexer |-> lenient]
      [] script = "autogptq" -> [autogptq |-> lenient]
      [] script = "routed_experts" -> [routed |-> lenient]
      [] script = "minimax" -> [minimax |-> lenient]
      [] script = "loader_include_order" -> [storage |-> lenient]
      [] script = "kv_cleanup" -> [worker |-> worker]
      [] script = "heap_trim" -> [gc |-> gc]
      [] script = "memory_profile" ->
            [worker |-> worker, gc |-> gc, serverUtils |-> api, apiServer |-> api,
             helper |-> {"whole"}, manifest |-> {"run"}, directories |-> {"runs"}]
      [] script = "moe_tuning" ->
            [moe |-> {"make", "call", "mark", "owners", "otherOwner", "patterns", "copyOld",
                      "copyNew", "rangeOld"}]
      [] script = "tuning_batch" ->
            [prepare |-> {"function", "session", "batchOne", "batchOther", "keywords"}]
      [] script = "scale_swizzle" ->
            [b12x |-> {"old", "fixed", "direct", "namesOld", "foreign", "stray", "registry",
                       "entry", "reference", "decorated"}]
      [] script = "wsl_uma" ->
            [mem |-> {"measure", "guard", "guardFixed", "importWsl", "importPlatform"}]
      [] script = "pin_cutlass" -> [requirements |-> {"pin", "otherPin"}]
      [] script = "instanttensor_memory" ->
            [impl |-> {"method", "query", "queryUma", "fixed", "fixedUma"}]
      [] script = "torch_schema" -> [library |-> {"function", "loop", "loopFixed"}]
      [] script = "hybrid_draft_loader" ->
            [loader |-> {"getModel", "getLoader", "helper", "marker", "uses", "anchor"}]
      [] script = "zero_copy" ->
            [weights |-> {"iterator", "safeOpen", "copyTrue", "copyFalse", "copyOther", "marker"}]
      [] script = "inkling" ->
            [inkling |-> {"functions", "marker", "adapter", "helper", "seqlen", "split",
                          "upstream", "legacy"},
             vendor |-> {"whole"}, adapter |-> {"whole"}]
      [] script = "qwen_router_gate" ->
            [qwen |-> {"block", "binding", "gate", "known", "quantNone", "quantModel", "quantOther"}]
      [] script = "rope_keys" -> [rope |-> {"list", "set"}]
      [] OTHER -> <<>>

Readable(script, t) ==
    \A f \in DOMAIN Looks(script) : f \in DOMAIN t /\ Looks(script)[f] \subseteq DOMAIN t[f]

(* A text counts occurrences; in a file that is not there nothing occurs.   *)
IsText(text) ==
    /\ text \in [DOMAIN text -> Nat] /\ "exists" \in DOMAIN text
    /\ text.exists = 0 => \A p \in DOMAIN text : text[p] = 0
Sources(t) == DOMAIN t \ {"directories", "manifest"}

(* A tree may be profiled before only as a whole: two of the hooks are not  *)
(* there without what the profiler installs before them.                   *)
ProfiledWhole(t) ==
    t.worker.hook > 0 /\ t.gc.hook > 0
        => t.helper.whole = 1 /\ t.manifest.run \in t.directories.runs

(* The files a script makes, and the run directories, which are not texts.  *)
Shaped(script, t) ==
    /\ script = "inkling" =>
          DOMAIN t.vendor = {"exists", "whole"} /\ DOMAIN t.adapter = {"exists", "whole"}
    /\ script = "memory_profile" =>
          /\ DOMAIN t.helper = {"exists", "whole"} /\ DOMAIN t.manifest = {"exists", "run"}
          /\ DOMAIN t.directories = {"runs"} /\ ProfiledWhole(t)

ASSUME StartsAssumption ==
    \A s \in Starts :
        /\ s.steps \in Seq(ToSet(s.steps)) /\ s.steps # <<>>
        /\ s.tree = [f \in DOMAIN s.tree |-> s.tree[f]]
        /\ \A f \in Sources(s.tree) : IsText(s.tree[f])
        /\ \A script \in ToSet(s.steps) : Readable(script, s.tree) /\ Shaped(script, s.tree)

-----------------------------------------------------------------------------
(* Running a series. *)

Mods == {"hybrid_draft_loader", "zero_copy", "inkling", "qwen_router_gate",
         "rope_keys", "memory_profile"}

Outcome(script, t, e) ==
    CASE script = "api_key_auth" -> ApiKeyAuth(t)
      [] script = "swa_block_size" -> SwaBlockSize(t)
      [] script = "mrv2_speculator" -> Mrv2Speculator(t)
      [] script = "c128a" -> C128aAlignment(t, e)
      [] script = "swigluoai" -> Swigluoai(t)
      [] script = "topk_softplus" -> TopkSoftplus(t)
      [] script = "sm12x" -> PreserveSm12x(t, e)
      [] script = "diffusion" -> DiffusionCausal(t)
      [] script = "gemma4" -> Gemma4Embedding(t)
      [] script = "sm120_topk" -> Sm120Topk(t)
      [] script = "autogptq" -> AutogptqQzeros(t)
      [] script = "minimax" -> MinimaxIpc(t)
      [] script = "routed_experts" -> RoutedExperts(t)
      [] script = "kv_cleanup" -> KvCleanup(t)
      [] script = "heap_trim" -> HeapTrim(t)
      [] script = "moe_tuning" -> MoeTuning(t)
      [] script = "tuning_batch" -> TuningBatch(t)
      [] script = "scale_swizzle" -> ScaleSwizzle(t)
      [] script = "wsl_uma" -> WslUma(t)
      [] script = "pin_cutlass" -> PinCutlass(t)
      [] script = "loader_include_order" -> LoaderIncludeOrder(t)
      [] script = "instanttensor_memory" -> InstantTensorMemory(t)
      [] script = "torch_schema" -> TorchSchema(t)
      [] script = "hybrid_draft_loader" -> HybridDraftLoader(t)
      [] script = "zero_copy" -> ZeroCopy(t)
      [] script = "inkling" -> InklingMod(t)
      [] script = "qwen_router_gate" -> QwenRouterGate(t)
      [] script = "rope_keys" -> RopeKeys(t)
      [] script = "memory_profile" -> MemoryProfile(t, e)
      [] OTHER -> Keep

Init ==
    /\ \E s \in Starts : steps = s.steps /\ env = s.env /\ tree = s.tree
    /\ todo = steps /\ pending = <<>> /\ busy = "idle" /\ base = tree
    /\ status = "running" /\ rounds = 1 /\ kills = 0

(* A script reads its files and decides. *)
Decide ==
    /\ status = "running" /\ busy = "idle" /\ todo # <<>>
    /\ LET o == Outcome(Head(todo), tree, env)
       IN  pending' = o.writes /\ busy' = IF o.refused THEN "fails" ELSE "edits"
    /\ base' = tree
    /\ UNCHANGED <<steps, env, tree, todo, status, rounds, kills>>

MakeWrite ==
    /\ pending # <<>>
    /\ tree' = [tree EXCEPT ![Head(pending).file] = Head(pending).text]
    /\ pending' = Tail(pending)
    /\ UNCHANGED <<steps, env, todo, busy, base, status, rounds, kills>>

(* A failed script fails the build, or the start of the container. *)
Fail ==
    /\ busy = "fails" /\ pending = <<>>
    /\ busy' = "idle" /\ status' = "refused"
    /\ UNCHANGED <<steps, env, tree, todo, pending, base, rounds, kills>>

(* Inkling's mod looks for the GPU and the packages its kernels need before *)
(* it installs anything ...                                                *)
PreflightFails ==
    /\ status = "running" /\ busy = "idle" /\ Head(todo) = "inkling"
    /\ base' = tree /\ status' = "refused"
    /\ UNCHANGED <<steps, env, tree, todo, pending, busy, rounds, kills>>

(* A mod fails with the writes it has made in place.                       *)
FailsHalfway(script) ==
    /\ busy = "edits" /\ Head(todo) = script
    /\ busy' = "idle" /\ pending' = <<>> /\ status' = "refused"
    /\ UNCHANGED <<steps, env, tree, todo, base, rounds, kills>>

(* ... and imports what it has installed before it touches the dispatch.   *)
ImportFails == FailsHalfway("inkling") /\ pending = InklingPatch(base).writes

(* The profiler, installed, takes a first measurement if there is none.    *)
BaselineFails == FailsHalfway("memory_profile") /\ pending = <<>>

EndScript ==
    /\ busy = "edits" /\ pending = <<>>
    /\ busy' = "idle" /\ todo' = Tail(todo)
    /\ status' = IF Tail(todo) = <<>> THEN "done" ELSE status
    /\ UNCHANGED <<steps, env, tree, pending, base, rounds, kills>>

(* The same series on the patched tree: the build of a cached checkout, the *)
(* mods of a container started again.                                       *)
Again ==
    /\ status = "done" /\ rounds < MaxRounds
    /\ rounds' = rounds + 1 /\ todo' = steps /\ status' = "running"
    /\ UNCHANGED <<steps, env, tree, pending, busy, base, kills>>

(* A mod is killed with writes to make and will be applied again.  A file   *)
(* that is not written through a temporary one may have been emptied.  (A   *)
(* build that is killed loses its layer, tree and all.)                     *)
Emptied(text) == [p \in DOMAIN text |-> IF p = "exists" THEN 1 ELSE 0]
Kill ==
    /\ pending # <<>> /\ Head(todo) \in Mods /\ kills < MaxKills
    /\ kills' = kills + 1 /\ pending' = <<>> /\ busy' = "idle"
    /\ LET w == Head(pending)
       IN  \/ tree' = tree
           \/ ~w.atomic /\ tree' = [tree EXCEPT ![w.file] = Emptied(w.text)]
    /\ UNCHANGED <<steps, env, todo, base, status, rounds>>

Next ==
    \/ Decide \/ MakeWrite \/ Fail \/ EndScript \/ Again \/ Kill
    \/ PreflightFails \/ ImportFails \/ BaselineFails

Spec == Init /\ [][Next]_vars

-----------------------------------------------------------------------------

TypeOK ==
    /\ DOMAIN tree = DOMAIN base
    /\ \A f \in DOMAIN tree : DOMAIN tree[f] = DOMAIN base[f]
    /\ \A f \in DOMAIN tree \ {"directories", "manifest"} :
          \A p \in DOMAIN tree[f] : tree[f][p] \in Nat
    /\ busy \in {"idle", "edits", "fails"} /\ status \in {"running", "refused", "done"}
    /\ rounds \in 1 .. MaxRounds /\ kills \in 0 .. MaxKills

(* A script that does not know what it finds has written none of its files: *)
(* the three files of the SwiGLU-OAI patch and the two of the API-key patch *)
(* are all checked before the first is written, and "unknown partial source *)
(* shapes fail the build" without a half-edited tree.  Only a mod that took *)
(* the sources fails with something written: Inkling's, whose own files are *)
(* then there and nothing else has changed, and the profiler, installed.    *)
RefusalLeavesTree ==
    status = "refused" /\ tree # base =>
        /\ ~Outcome(Head(todo), base, env).refused
        /\ \/ Head(todo) = "inkling"
              /\ tree.vendor.whole = 1 /\ tree.adapter.whole = 1
              /\ \A f \in DOMAIN tree \ {"vendor", "adapter"} : tree[f] = base[f]
           \/ Head(todo) = "memory_profile"
              /\ \A w \in ToSet(Outcome("memory_profile", base, env).writes) :
                    tree[w.file] = w.text

(* Applying a series again to what it made changes nothing and fails at    *)
(* nothing: no script mistakes another one's edit of a shared file, or the *)
(* rest of its own anchors, for a layout it does not know.  The API-key    *)
(* patch is the exception, it only takes a fresh checkout.                 *)
ReapplyQuiet ==
    status = "done" =>
        \A s \in ToSet(steps) \ {"api_key_auth"} :
            LET o == Outcome(s, tree, env)
            IN  ~o.refused /\ (s # "inkling" => \A w \in ToSet(o.writes) : w.text = tree[w.file])

(* The passage a script exists to remove, or the one it exists to add,     *)
(* judged from the sources alone.                                          *)
Affected(s, t, e) ==
    CASE s = "api_key_auth" -> t.auth.guard + t.auth.call > 0
      [] s = "swa_block_size" -> t.attention.selector > 0 /\ t.attention.anchor + t.attention.spec > 0
      [] s = "mrv2_speculator" -> Mrv2Affected(t.profiler) /\ ~Mrv2Fixed(t.profiler)
      [] s = "c128a" -> e.c128a # "off" /\ t.mla.uses > 0 /\ t.mla.binds = 0
      [] s = "swigluoai" ->
            t.expert.exists = 1 /\ (\/ t.util.capability = 0 \/ t.util.export = 0
                                    \/ t.expert.support = 0 \/ t.expert.wrapper = 0
                                    \/ t.expert.forward = 0 \/ t.expert.imports = 0
                                    \/ t.oracle.inClamp + t.oracle.adds = 0)
      [] s = "topk_softplus" -> t.ops.padding > 0 /\ t.ops.function > 0
                                /\ t.ops.misplaced > 0 /\ t.ops.fixed = 0
      [] s = "sm12x" -> e.sm12x /\ t.cmake.subs = 0
      [] s = "kv_cleanup" -> t.worker.trim = 0 \/ t.worker.prealloc = 0 \/ ~KvRefreshed(t.worker)
      [] s = "heap_trim" -> t.gc.trim = 0
      [] s = "moe_tuning" -> t.moe.make > 0 /\ t.moe.owners + t.moe.otherOwner > 0
      [] s = "tuning_batch" -> t.prepare.exists = 1 /\ t.prepare.batchOne # 1
      [] s = "scale_swizzle" -> t.b12x.old + t.b12x.namesOld > 0
      [] s = "wsl_uma" -> t.mem.guard > 0 \/ t.mem.guardFixed = 0 \/ t.mem.importWsl = 0
      [] s = "pin_cutlass" -> t.requirements.otherPin > 0
      [] s = "loader_include_order" -> t.storage.broken > 0
      [] s = "instanttensor_memory" -> t.impl.query + t.impl.queryUma > 0
      [] s = "torch_schema" -> t.library.loop > 0
      [] s = "minimax" -> t.minimax.broken > 0
      [] s = "hybrid_draft_loader" -> t.loader.uses = 0 \/ t.loader.helper = 0
      [] s = "zero_copy" -> t.weights.copyTrue > 0
      [] s = "inkling" -> t.inkling.adapter = 0
      [] s = "qwen_router_gate" -> t.qwen.quantModel = 0
      [] s = "rope_keys" -> t.rope.list > 0
      [] OTHER -> FALSE

(* When a series of strict scripts has ended well, no file is left with    *)
(* what the scripts exist to remove and none lacks what they add, however  *)
(* the sources differed from the known releases and in whatever order the  *)
(* scripts and mods touched the shared files.                              *)
NothingAffectedLeft ==
    status = "done" => \A s \in ToSet(steps) : ~Affected(s, tree, env)

(* A mod that reports success has installed all of itself, even when an    *)
(* earlier attempt in the same container was killed between its writes:    *)
(* the profiler's three hooks go with its helper and with the manifest of  *)
(* a run whose directory exists, and Inkling's dispatch with the kernels.  *)
InstalledWhole ==
    status = "done" =>
        /\ "memory_profile" \in ToSet(steps) =>
              /\ tree.worker.hook = 1 /\ tree.gc.hook = 1
              /\ tree[ApiFile(tree)].hook = 1
              /\ tree.helper.whole = 1 /\ tree.manifest.run \in tree.directories.runs
              /\ env.run \in {0, tree.manifest.run}
        /\ "inkling" \in ToSet(steps) /\ tree.inkling.adapter > 0 =>
              tree.vendor.whole = 1 /\ tree.adapter.whole = 1
=============================================================================
