---------------------------- MODULE MCSourcePatches ----------------------------
(* Sources to patch: the releases the scripts know, and every source that  *)
(* differs from one of them in one or two passages or lacks a file.        *)
EXTENDS SourcePatches

Text(all, on) == [p \in all \cup {"exists"} |-> IF p \in on \cup {"exists"} THEN 1 ELSE 0]
Absent(text) == [p \in DOMAIN text |-> 0]

Fixed == {"directories", "manifest", "helper", "vendor", "adapter"}

Varied(t) ==
    {t} \cup
    UNION {{[t EXCEPT ![f][p] = n] : p \in DOMAIN t[f] \ {"exists"}, n \in 0 .. 2}
             \cup {[t EXCEPT ![f] = Absent(t[f])]}
           : f \in {g \in DOMAIN t \ Fixed : t[g].exists = 1}}
Varied2(t) == UNION {Varied(u) : u \in Varied(t)}

Plain == [c128a |-> "off", sm12x |-> FALSE, run |-> 0]
Series(scripts, trees, envs) ==
    {[steps |-> scripts, tree |-> t, env |-> e] : t \in trees, e \in envs}

Two(trees) == UNION {Varied2(t) : t \in trees}
One(trees) == UNION {Varied(t) : t \in trees}

ApiTrees ==
    LET cli == {"help", "fixed"}  au == {"guard", "call", "notes", "fixed"}
    IN  {[auth |-> Text(au, {"guard", "call", "notes"}),
          common |-> Text(cli, {"help"}), launchers |-> Absent(Text(cli, {}))],
         [auth |-> Text(au, {"guard", "call", "notes"}),
          common |-> Absent(Text(cli, {})), launchers |-> Text(cli, {"help"})]}

SwaTrees ==
    LET all == {"anchor", "spec", "fixed", "specFixed", "stray", "selector",
                "divParam", "divSelection", "divCall", "legacy", "budget"}
    IN  {[attention |-> Text(all, on)] : on \in
            {{"selector", "anchor"}, {"selector", "spec"}, {"selector", "legacy"},
             {"selector", "divParam", "divSelection", "divCall", "budget"}, {}}}

Mrv2Trees ==
    LET all == {"profiler", "decl", "pool", "clean", "declFixed", "poolFixed",
                "cleanFixed", "collection", "handle"}
    IN  {[profiler |-> Text(all, on)] : on \in
            {{"profiler", "decl", "pool", "clean"}, {"profiler", "handle", "collection"}}}

C128aTrees == {[mla |-> Text({"uses", "binds", "imports"}, {"uses", "imports"}),
                compressor |-> Text({"is128"}, {"is128"})]}

SwigluTrees ==
    LET u == {"capability", "capabilityAt", "inspect", "inspectAt", "export", "exportAt"}
        x == {"imports", "importsAt", "map", "mapAt", "config", "configAt", "wrapper",
              "wrapperAt", "forward", "forwardAt", "support", "legacy", "gelu"}
        o == {"activation", "activationAt", "helper", "helperAt", "clampSet", "inClamp", "adds"}
        ats == {"capabilityAt", "inspectAt", "exportAt", "importsAt", "mapAt", "configAt",
                "wrapperAt", "forwardAt", "activationAt", "helperAt", "clampSet"}
    IN  {[util |-> Text(u, ats \cap u), expert |-> Text(x, (ats \cap x) \cup {s}),
          oracle |-> Text(o, ats \cap o)] : s \in {"legacy", "gelu"}}

Simple(f, all, ons) == {[g \in {f} |-> Text(all, on)] : on \in ons}

WorkerSites == {"importGc", "measure", "inline", "charge", "snapshot", "freeMemory",
                "cleanBeforeSnapshot", "cleanBeforeFree", "trim", "prealloc",
                "initialize", "startup", "hook", "hookStray"}
GcSites == {"function", "collect", "freezeLast", "trim", "stray", "hook", "hookStray"}
WorkerTrees ==
    {[worker |-> Text(WorkerSites, on), gc |-> Text(GcSites, {"function", "collect", "freezeLast"})]
        : on \in {{"freeMemory", "initialize", "startup"},
                  {"snapshot", "freeMemory", "initialize", "startup"},
                  {"importGc", "measure", "charge", "freeMemory", "initialize", "startup"}}}
ApiSites == {"lifespan", "context", "hook", "hookStray"}
ProfileTrees ==
    {[worker |-> Text(WorkerSites, {"snapshot", "freeMemory", "initialize", "startup"}),
      gc |-> Text(GcSites, {"function", "collect", "freezeLast"}),
      serverUtils |-> Text(ApiSites, on),
      apiServer |-> Text(ApiSites, {"lifespan", "context"} \ on),
      helper |-> [exists |-> 0, whole |-> 0], manifest |-> [exists |-> 0, run |-> 0],
      directories |-> [runs |-> r]] : on \in {{}, {"lifespan", "context"}}, r \in {{}, {2}}}

InklingTrees ==
    LET all == {"functions", "marker", "adapter", "helper", "seqlen", "split",
                "upstream", "legacy"}
    IN  {[inkling |-> Text(all, {"functions", "helper", "seqlen", "split", d}),
          vendor |-> [exists |-> 0, whole |-> 0], adapter |-> [exists |-> 0, whole |-> 0]]
            : d \in {"upstream", "legacy"}}

LenientText == {"fixed", "broken"}

AllStarts ==
    Series(<<"api_key_auth">>, Two(ApiTrees), {Plain})
    \cup Series(<<"swa_block_size">>, Two(SwaTrees), {Plain})
    \cup Series(<<"mrv2_speculator">>, Two(Mrv2Trees), {Plain})
    \cup Series(<<"c128a">>, Two(C128aTrees),
                {[Plain EXCEPT !.c128a = c] : c \in {"on", "off", "invalid"}})
    \cup Series(<<"swigluoai">>, Two(SwigluTrees), {Plain})
    \cup Series(<<"topk_softplus">>,
                Two(Simple("ops", {"function", "padding", "fixed", "direct", "xpu",
                                   "bareReturn", "misplaced"},
                           {{"function", "padding", "xpu", "misplaced"},
                            {"function", "direct"}})), {Plain})
    \cup Series(<<"sm12x">>, Two(Simple("cmake", {"subs", "sm121", "default"},
                                        {{"default"}, {"sm121"}})),
                {[Plain EXCEPT !.sm12x = b] : b \in BOOLEAN})
    \cup Series(<<"diffusion">>,
                Two(Simple("attnUtils", {"signature", "signatureFixed", "group", "groupFixed"},
                           {{"signature", "group"}})), {Plain})
    \cup UNION {Series(<<s[1]>>, One(Simple(s[2], LenientText, {{"broken"}})), {Plain})
                : s \in {<<"gemma4", "proposer">>, <<"sm120_topk", "indexer">>,
                         <<"autogptq", "autogptq">>, <<"minimax", "minimax">>,
                         <<"routed_experts", "routed">>,
                         <<"loader_include_order", "storage">>}}
    \cup Series(<<"kv_cleanup", "heap_trim">>, Two(WorkerTrees), {Plain})
    \cup Series(<<"kv_cleanup", "heap_trim", "memory_profile">>, One(ProfileTrees),
                {[Plain EXCEPT !.run = r] : r \in {0, 1, 2}})
    \cup Series(<<"memory_profile", "kv_cleanup", "heap_trim">>, One(ProfileTrees), {Plain})
    \cup Series(<<"moe_tuning">>,
                Two(Simple("moe", {"make", "call", "mark", "owners", "otherOwner", "patterns",
                                   "copyOld", "copyNew", "rangeOld"},
                           {{"make", "call", "owners", "patterns", "copyOld", "rangeOld"}})),
                {Plain})
    \cup Series(<<"tuning_batch">>,
                Two(Simple("prepare", {"function", "session", "batchOne", "batchOther", "keywords"},
                           {{"function", "session", "keywords"}})), {Plain})
    \cup Series(<<"scale_swizzle">>,
                Two(Simple("b12x", {"old", "fixed", "direct", "namesOld", "foreign", "stray",
                                    "registry", "entry", "reference", "decorated"},
                           {{"old", "registry", "entry"}, {"direct", "registry", "reference"}})),
                {Plain})
    \cup Series(<<"wsl_uma", "wsl_uma">>,
                Two(Simple("mem", {"measure", "guard", "guardFixed", "importWsl",
                                   "importPlatform"},
                           {{"measure", "guard", "importPlatform"}})), {Plain})
    \cup Series(<<"pin_cutlass">>, Two(Simple("requirements", {"pin", "otherPin"},
                                              {{"pin"}, {"otherPin"}})), {Plain})
    \cup Series(<<"instanttensor_memory">>,
                Two(Simple("impl", {"method", "query", "queryUma", "fixed", "fixedUma"},
                           {{"method", "query"}, {"method", "queryUma"}})), {Plain})
    \cup Series(<<"torch_schema">>, Two(Simple("library", {"function", "loop", "loopFixed"},
                                               {{"function", "loop"}})), {Plain})
    \cup Series(<<"hybrid_draft_loader">>,
                Two(Simple("loader", {"getModel", "getLoader", "helper", "marker", "uses", "anchor"},
                           {{"getModel", "getLoader", "anchor"}})), {Plain})
    \cup Series(<<"zero_copy">>,
                Two(Simple("weights", {"iterator", "safeOpen", "copyTrue", "copyFalse",
                                       "copyOther", "marker"},
                           {{"iterator", "safeOpen", "copyTrue"}})), {Plain})
    \cup Series(<<"inkling">>, Two(InklingTrees), {Plain})
    \cup Series(<<"qwen_router_gate">>,
                Two(Simple("qwen", {"block", "binding", "gate", "known", "quantNone",
                                    "quantModel", "quantOther"},
                           {{"block", "binding", "gate", "known", "quantNone"},
                            {"block", "binding", "gate", "known"}})), {Plain})
    \cup Series(<<"rope_keys">>, Two(Simple("rope", {"list", "set"}, {{"list"}})), {Plain})
================================================================================
