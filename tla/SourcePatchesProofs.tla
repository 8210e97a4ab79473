-------------------------- MODULE SourcePatchesProofs --------------------------
(***************************************************************************)
(* Proved for every tree whose texts count occurrences, every series and   *)
(* any number of rounds and kills: a script that fails has left the tree   *)
(* alone, or is one of the two mods that check again what they installed;  *)
(* and a series that has ended well has left nothing affected, has nothing *)
(* to do when it is applied again, and has its mods installed whole.       *)
(*                                                                         *)
(* Every script is "sound" on every tree it can read: it refuses it or     *)
(* whatever it writes leaves the script nothing to do; scripts that share  *)
(* a file leave each other's work alone; so the scripts of a series that   *)
(* have ended stay good under every write of the next ones, and a kill     *)
(* that empties a file one of them needs leaves the mod that was killed a  *)
(* file it refuses (Series, the inductive invariant).                      *)
(***************************************************************************)
EXTENDS SourcePatches, FiniteSetTheorems, TLAPS

-----------------------------------------------------------------------------
(* What it takes for a script to be done with a tree.  A script is good on *)
(* a tree if nothing it exists to remove or to add is left or lacking and  *)
(* if, applied again, it would change nothing; it mends a tree if whatever *)
(* it writes there makes it good.  Swaps are followed pair by pair, because*)
(* their counts are cardinalities.                                         *)

(* Applied again a script changes nothing. *)
Settled(s, t, e) ==
    LET o == Outcome(s, t, e)
    IN  ~o.refused /\ (s # "inkling" => \A w \in ToSet(o.writes) : w.text = t[w.file])

Good(s, t, e) ==
    /\ ~Affected(s, t, e)
    /\ s # "api_key_auth" => Settled(s, t, e)
    /\ s = "memory_profile" =>
          /\ t.worker.hook = 1 /\ t.gc.hook = 1 /\ t[ApiFile(t)].hook = 1
          /\ t.helper.whole = 1 /\ t.manifest.run \in t.directories.runs
          /\ e.run \in {0, t.manifest.run}
    /\ s = "inkling" /\ t.inkling.adapter > 0 => t.vendor.whole = 1 /\ t.adapter.whole = 1

Fits(text, new) == IsText(new) /\ DOMAIN new = DOMAIN text
Mends(s, F, t, e) ==
    LET o == Outcome(s, t, e)
    IN  \/ o = Refuse
        \/ o = Keep /\ Good(s, t, e)
        \/ \E x, b : /\ o = [refused |-> FALSE, writes |-> <<[file |-> F, text |-> x, atomic |-> b]>>]
                     /\ Fits(t[F], x) /\ Good(s, [t EXCEPT ![F] = x], e)

IsTree(t) == t = [f \in DOMAIN t |-> t[f]] /\ \A f \in Sources(t) : IsText(t[f])

LEMMA KeepSettled == ASSUME NEW s, NEW t, NEW e, Outcome(s, t, e) = Keep PROVE Settled(s, t, e)
BY DEF Settled, Keep, ToSet

LEMMA FitsBy ==
    ASSUME NEW text, NEW new, IsText(text), DOMAIN new = DOMAIN text, new \in [DOMAIN new -> Nat], new["exists"] > 0
    PROVE  Fits(text, new)
BY DEF Fits, IsText

One(p, q) == IF p = q THEN 1 ELSE 0

LEMMA SwapMore ==
    ASSUME NEW text, IsText(text), NEW P, IsFiniteSet(P), NEW a, NEW b, <<a, b>> \notin P,
           NEW new, new = P \cup {<<a, b>>}, NEW p \in DOMAIN text
    PROVE  IsFiniteSet(new) /\ Swap(text, new)[p] = Swap(text, P)[p] + One(p, b) - One(p, a)
<1> DEFINE to(Q) == {q \in Q : q[2] = p}
           from(Q) == {q \in Q : q[1] = p}
<1>1. IsFiniteSet(to(P)) /\ IsFiniteSet(from(P))
  BY FS_Subset
<1>2. /\ to(new) = IF p = b THEN to(P) \cup {<<a, b>>} ELSE to(P)
      /\ from(new) = IF p = a THEN from(P) \cup {<<a, b>>} ELSE from(P)
      /\ <<a, b>> \notin to(P) /\ <<a, b>> \notin from(P)
  OBVIOUS
<1>3. /\ Cardinality(to(P)) \in Nat /\ Cardinality(from(P)) \in Nat
      /\ Cardinality(to(P) \cup {<<a, b>>}) = Cardinality(to(P)) + 1
      /\ Cardinality(from(P) \cup {<<a, b>>}) = Cardinality(from(P)) + 1
      /\ IsFiniteSet(new)
  BY <1>1, <1>2, FS_AddElement, FS_CardinalityType
<1>4. \A Q : Swap(text, Q)[p] = text[p] + Cardinality(to(Q)) - Cardinality(from(Q))
  BY DEF Swap
<1>5. text[p] \in Nat BY DEF IsText
<1> HIDE DEF to, from
<1>6. Cardinality(to(new)) = Cardinality(to(P)) + One(p, b)
  BY <1>2, <1>3 DEF One
<1>7. Cardinality(from(new)) = Cardinality(from(P)) + One(p, a)
  BY <1>2, <1>3 DEF One
<1>8. One(p, a) \in Int /\ One(p, b) \in Int BY DEF One
<1>9. Swap(text, new)[p] = text[p] + Cardinality(to(new)) - Cardinality(from(new)) BY <1>4
<1>10. Swap(text, P)[p] = text[p] + Cardinality(to(P)) - Cardinality(from(P)) BY <1>4
<1> QED BY <1>3, <1>5, <1>6, <1>7, <1>8, <1>9, <1>10

LEMMA SwapOne ==
    ASSUME NEW text, IsText(text), NEW a, NEW b, NEW P, P = {<<a, b>>}
    PROVE  /\ DOMAIN Swap(text, P) = DOMAIN text /\ IsFiniteSet(P)
           /\ \A p \in DOMAIN text : Swap(text, P)[p] = text[p] + One(p, b) - One(p, a)
<1> DEFINE none == {}
<1>1. IsFiniteSet(none) /\ <<a, b>> \notin none /\ P = none \cup {<<a, b>>} BY FS_EmptySet
<1>2. \A p \in DOMAIN text : Swap(text, none)[p] = text[p]
  <2> SUFFICES ASSUME NEW p \in DOMAIN text PROVE Swap(text, none)[p] = text[p] OBVIOUS
  <2>1. {q \in none : q[1] = p} = {} /\ {q \in none : q[2] = p} = {} OBVIOUS
  <2> QED BY <2>1, FS_EmptySet DEF Swap, IsText
<1> HIDE DEF none
<1>3. \A p \in DOMAIN text : Swap(text, P)[p] = Swap(text, none)[p] + One(p, b) - One(p, a)
  BY <1>1, SwapMore
<1>4. DOMAIN Swap(text, P) = DOMAIN text BY DEF Swap
<1>5. IsFiniteSet(P) BY FS_Singleton
<1> QED BY <1>2, <1>3, <1>4, <1>5

LEMMA SwapTwo ==
    ASSUME NEW text, IsText(text), NEW a, NEW b, NEW c, NEW d, a # c, NEW P, P = {<<a, b>>, <<c, d>>}
    PROVE  /\ DOMAIN Swap(text, P) = DOMAIN text /\ IsFiniteSet(P)
           /\ \A p \in DOMAIN text :
                 Swap(text, P)[p] = text[p] + One(p, b) - One(p, a) + One(p, d) - One(p, c)
<1> DEFINE one == {<<a, b>>}
<1>1. P = one \cup {<<c, d>>} /\ <<c, d>> \notin one OBVIOUS
<1>2. IsFiniteSet(one) /\ \A p \in DOMAIN text : Swap(text, one)[p] = text[p] + One(p, b) - One(p, a)
  BY SwapOne
<1> HIDE DEF one
<1>3. \A p \in DOMAIN text : Swap(text, P)[p] = Swap(text, one)[p] + One(p, d) - One(p, c)
  BY <1>1, <1>2, SwapMore
<1>4. DOMAIN Swap(text, P) = DOMAIN text BY DEF Swap
<1>5. IsFiniteSet(P) BY <1>1, <1>2, FS_AddElement
<1> QED BY <1>2, <1>3, <1>4, <1>5

(* The same result about a named set of pairs: an enumeration of many      *)
(* values is a poor pattern to match the lemma by.                         *)
Couple(a1, b1, a2, b2) == {<<a1, b1>>, <<a2, b2>>}

LEMMA SwapCouple ==
    ASSUME NEW text, IsText(text), NEW a1, NEW b1, NEW a2, NEW b2, a1 # a2
    PROVE  LET two == Couple(a1, b1, a2, b2)
           IN  /\ IsFiniteSet(two)
               /\ \A p \in DOMAIN text :
                     Swap(text, two)[p] = text[p] + One(p, b1) - One(p, a1) + One(p, b2) - One(p, a2)
BY SwapTwo DEF Couple

LEMMA SwapThree ==
    ASSUME NEW text, IsText(text), NEW a1, NEW b1, NEW a2, NEW b2, NEW a3, NEW b3,
           a1 # a2, a1 # a3, a2 # a3, NEW P, P = {<<a1, b1>>, <<a2, b2>>, <<a3, b3>>}
    PROVE  /\ DOMAIN Swap(text, P) = DOMAIN text /\ IsFiniteSet(P)
           /\ \A p \in DOMAIN text :
                 Swap(text, P)[p] = text[p] + One(p, b1) - One(p, a1) + One(p, b2) - One(p, a2)
                                            + One(p, b3) - One(p, a3)
<1> DEFINE two == Couple(a1, b1, a2, b2)
<1>1. P = two \cup {<<a3, b3>>} /\ <<a3, b3>> \notin two BY DEF Couple
<1>2. /\ IsFiniteSet(two)
      /\ \A p \in DOMAIN text : Swap(text, two)[p] = text[p] + One(p, b1) - One(p, a1) + One(p, b2) - One(p, a2)
  BY SwapCouple
<1> HIDE DEF two
<1>3. \A p \in DOMAIN text : Swap(text, P)[p] = Swap(text, two)[p] + One(p, b3) - One(p, a3)
  BY <1>1, <1>2, SwapMore
<1>4. DOMAIN Swap(text, P) = DOMAIN text BY DEF Swap
<1>5. IsFiniteSet(P) BY <1>1, <1>2, FS_AddElement
<1> QED BY <1>2, <1>3, <1>4, <1>5

Triple(a1, b1, a2, b2, a3, b3) == {<<a1, b1>>, <<a2, b2>>, <<a3, b3>>}

LEMMA SwapTriple ==
    ASSUME NEW text, IsText(text), NEW a1, NEW b1, NEW a2, NEW b2, NEW a3, NEW b3,
           a1 # a2, a1 # a3, a2 # a3
    PROVE  LET three == Triple(a1, b1, a2, b2, a3, b3)
           IN  /\ IsFiniteSet(three)
               /\ \A p \in DOMAIN text :
                     Swap(text, three)[p] = text[p] + One(p, b1) - One(p, a1) + One(p, b2) - One(p, a2)
                                                    + One(p, b3) - One(p, a3)
BY SwapThree DEF Triple

LEMMA SwapFour ==
    ASSUME NEW text, IsText(text), NEW a1, NEW b1, NEW a2, NEW b2, NEW a3, NEW b3, NEW a4, NEW b4,
           a1 # a2, a1 # a3, a2 # a3, a1 # a4, a2 # a4, a3 # a4,
           NEW P, P = {<<a1, b1>>, <<a2, b2>>, <<a3, b3>>, <<a4, b4>>}
    PROVE  /\ DOMAIN Swap(text, P) = DOMAIN text /\ IsFiniteSet(P)
           /\ \A p \in DOMAIN text :
                 Swap(text, P)[p] = text[p] + One(p, b1) - One(p, a1) + One(p, b2) - One(p, a2)
                                            + One(p, b3) - One(p, a3) + One(p, b4) - One(p, a4)
<1> DEFINE three == Triple(a1, b1, a2, b2, a3, b3)
<1>1. P = three \cup {<<a4, b4>>} /\ <<a4, b4>> \notin three BY DEF Triple
<1>2. /\ IsFiniteSet(three)
      /\ \A p \in DOMAIN text :
            Swap(text, three)[p] = text[p] + One(p, b1) - One(p, a1) + One(p, b2) - One(p, a2)
                                           + One(p, b3) - One(p, a3)
  BY SwapTriple
<1> HIDE DEF three
<1>3. \A p \in DOMAIN text : Swap(text, P)[p] = Swap(text, three)[p] + One(p, b4) - One(p, a4)
  BY <1>1, <1>2, SwapMore
<1>4. DOMAIN Swap(text, P) = DOMAIN text BY DEF Swap
<1>5. IsFiniteSet(P) BY <1>1, <1>2, FS_AddElement
<1> QED BY <1>2, <1>3, <1>4, <1>5

LEMMA SwapFits ==
    ASSUME NEW text, IsText(text), text["exists"] # 0, NEW P, IsFiniteSet(P),
           \A q \in P : /\ q[1] # "exists" /\ q[2] # "exists" /\ text[q[1]] > 0
                        /\ \A r \in P : r[1] = q[1] => r = q
    PROVE  Fits(text, Swap(text, P))
<1> DEFINE new == Swap(text, P)
<1>1. ASSUME NEW p \in DOMAIN text PROVE new[p] \in Nat /\ (p = "exists" => new[p] = text[p])
  <2> DEFINE to == {q \in P : q[2] = p}
             from == {q \in P : q[1] = p}
  <2>1. new[p] = text[p] + Cardinality(to) - Cardinality(from) BY <1>1 DEF Swap
  <2>2. IsFiniteSet(to) /\ Cardinality(to) \in Nat BY FS_Subset, FS_CardinalityType
  <2>3. text[p] \in Nat BY <1>1 DEF IsText
  <2>4. CASE from = {}
    <3>1. Cardinality(from) = 0 BY <2>4, FS_EmptySet
    <3>2. p = "exists" => to = {} OBVIOUS
    <3>3. p = "exists" => Cardinality(to) = 0 BY <3>2, FS_EmptySet
    <3> QED BY <2>1, <2>2, <2>3, <3>1, <3>3
  <2>5. CASE from # {}
    <3>1. PICK q \in from : TRUE BY <2>5
    <3>2. from = {q} BY <3>1
    <3>3. Cardinality(from) = 1 BY <3>2, FS_Singleton
    <3>4. text[p] > 0 /\ p # "exists" BY <3>1
    <3> HIDE DEF from, to, new
    <3> QED BY <2>1, <2>2, <2>3, <3>3, <3>4
  <2> QED BY <2>4, <2>5
<1>2. DOMAIN new = DOMAIN text /\ new = [p \in DOMAIN text |-> new[p]] BY DEF Swap
<1> HIDE DEF new
<1>3. new \in [DOMAIN new -> Nat] BY <1>1, <1>2
<1>4. new["exists"] > 0 BY <1>1 DEF IsText
<1> QED BY <1>2, <1>3, <1>4, FitsBy DEF new

LEMMA AddFits ==
    ASSUME NEW text, IsText(text), text["exists"] # 0, NEW P, "exists" \notin P
    PROVE  /\ Fits(text, Add(text, P))
           /\ \A p \in DOMAIN text : Add(text, P)[p] = IF p \in P THEN text[p] + 1 ELSE text[p]
<1>1. /\ Add(text, P) \in [DOMAIN text -> Nat] /\ DOMAIN Add(text, P) = DOMAIN text
      /\ \A p \in DOMAIN text : Add(text, P)[p] = IF p \in P THEN text[p] + 1 ELSE text[p]
  BY DEF Add, IsText
<1>2. Add(text, P)["exists"] > 0 BY <1>1 DEF IsText
<1> QED BY <1>1, <1>2, FitsBy

-----------------------------------------------------------------------------
(* The scripts that swap passages of one file: each mends its file. *)

LEMMA MendsPlain ==
    ASSUME NEW s, NEW F, NEW t, NEW e, s \notin {"memory_profile", "inkling"},
           Outcome(s, t, e) = Refuse \/ (Outcome(s, t, e) = Keep /\ ~Affected(s, t, e))
    PROVE  Mends(s, F, t, e)
BY KeepSettled DEF Mends, Good

LEMMA MendsWrite ==
    ASSUME NEW s, NEW F, NEW t, NEW e, NEW x, NEW u, s \notin {"memory_profile", "inkling"},
           Outcome(s, t, e) = Write(F, x), Fits(t[F], x), u = [t EXCEPT ![F] = x],
           Outcome(s, u, e) = Keep, ~Affected(s, u, e)
    PROVE  Mends(s, F, t, e)
<1>1. Good(s, u, e) BY KeepSettled DEF Good
<1>2. Outcome(s, t, e) = [refused |-> FALSE, writes |-> <<[file |-> F, text |-> x, atomic |-> FALSE]>>]
  BY DEF Write
<1> QED BY <1>1, <1>2 DEF Mends

LEMMA TorchSchemaMends ==
    ASSUME NEW t, NEW e, IsTree(t), Readable("torch_schema", t)
    PROVE  Mends("torch_schema", "library", t, e)
<1> DEFINE f == t.library
           P == {<<"loop", "loopFixed">>}
           x == Swap(f, P)
           u == [t EXCEPT !.library = x]
<1>1. "library" \in DOMAIN t /\ IsText(f) /\ {"function", "loop", "loopFixed", "exists"} \subseteq DOMAIN f
  BY DEF Readable, Looks, IsTree, Sources, IsText
<1>2. \A p \in {"function", "loop", "loopFixed", "exists"} : f[p] \in Nat /\ (f.exists = 0 => f[p] = 0)
  BY <1>1 DEF IsText
<1>3. u.library = x /\ \A g \in DOMAIN t \ {"library"} : u[g] = t[g]
  BY <1>1
<1>4. P = {<<"loop", "loopFixed">>}
  OBVIOUS
<1> HIDE DEF f, P, u
<1>5. CASE f.exists # 0 /\ f.function = 1 /\ f.loop = 1 /\ f.loopFixed = 0
  <2>1. /\ DOMAIN x = DOMAIN f /\ IsFiniteSet(P)
        /\ \A p \in DOMAIN f : x[p] = f[p] + One(p, "loopFixed") - One(p, "loop")
    BY <1>1, <1>4, SwapOne
  <2>2. \A r \in P : /\ r[1] # "exists" /\ r[2] # "exists" /\ f[r[1]] > 0
                    /\ \A w \in P : w[1] = r[1] => w = r
    BY <1>2, <1>4, <1>5
  <2>3. Fits(f, x)
    BY <1>1, <1>2, <1>5, <2>1, <2>2, SwapFits
  <2>4. TorchSchema(t) = Write("library", x)
    BY <1>2, <1>5 DEF TorchSchema, Known, f, P
  <2> HIDE DEF x
  <2>5. /\ x.function = f.function
        /\ x.loop = f.loop - 1
        /\ x.loopFixed = f.loopFixed + 1
        /\ x.exists = f.exists
    BY <1>1, <1>2, <2>1 DEF One
  <2>6. TorchSchema(u) = Keep /\ ~(u.library.loop > 0)
    BY <1>1, <1>2, <1>3, <1>5, <2>5 DEF TorchSchema, Known
  <2>7. Outcome("torch_schema", u, e) = Keep /\ ~Affected("torch_schema", u, e) /\ Outcome("torch_schema", t, e) = Write("library", x)
    BY <2>4, <2>6 DEF Outcome, Affected
  <2> QED BY <2>3, <2>7, MendsWrite DEF u, f
<1>6. CASE ~(f.exists # 0 /\ f.function = 1 /\ f.loop = 1 /\ f.loopFixed = 0)
  <2>1. TorchSchema(t) = Refuse \/ (TorchSchema(t) = Keep /\ ~(t.library.loop > 0))
    BY <1>1, <1>2, <1>6 DEF TorchSchema, Known, f
  <2>2. Outcome("torch_schema", t, e) = Refuse \/ (Outcome("torch_schema", t, e) = Keep /\ ~Affected("torch_schema", t, e))
    BY <2>1 DEF Outcome, Affected
  <2> QED BY <2>2, MendsPlain
<1> QED BY <1>5, <1>6

LEMMA Mrv2SpeculatorMends ==
    ASSUME NEW t, NEW e, IsTree(t), Readable("mrv2_speculator", t)
    PROVE  Mends("mrv2_speculator", "profiler", t, e)
<1> DEFINE f == t.profiler
           P == {<<"decl", "declFixed">>, <<"pool", "poolFixed">>, <<"clean", "cleanFixed">>}
           x == Swap(f, P)
           u == [t EXCEPT !.profiler = x]
<1>1. "profiler" \in DOMAIN t /\ IsText(f) /\ {"profiler", "decl", "pool", "clean", "declFixed", "poolFixed", "cleanFixed", "collection", "handle", "exists"} \subseteq DOMAIN f
  BY DEF Readable, Looks, IsTree, Sources, IsText
<1>2. \A p \in {"profiler", "decl", "pool", "clean", "declFixed", "poolFixed", "cleanFixed", "collection", "handle", "exists"} : f[p] \in Nat /\ (f.exists = 0 => f[p] = 0)
  BY <1>1 DEF IsText
<1>3. u.profiler = x /\ \A g \in DOMAIN t \ {"profiler"} : u[g] = t[g]
  BY <1>1
<1>4. P = {<<"decl", "declFixed">>, <<"pool", "poolFixed">>, <<"clean", "cleanFixed">>}
  OBVIOUS
<1> HIDE DEF f, P, u
<1>5. CASE ~Mrv2Fixed(f) /\ Mrv2Affected(f) /\ f.decl = 1 /\ f.pool = 1 /\ f.clean = 1
  <2>1. /\ DOMAIN x = DOMAIN f /\ IsFiniteSet(P)
        /\ \A p \in DOMAIN f : x[p] = f[p] + One(p, "declFixed") - One(p, "decl") + One(p, "poolFixed") - One(p, "pool") + One(p, "cleanFixed") - One(p, "clean")
    BY <1>1, <1>4, SwapThree
  <2>2. \A r \in P : /\ r[1] # "exists" /\ r[2] # "exists" /\ f[r[1]] > 0
                    /\ \A w \in P : w[1] = r[1] => w = r
    BY <1>2, <1>4, <1>5
  <2>3. Fits(f, x)
    BY <1>1, <1>2, <1>5, <2>1, <2>2, SwapFits
  <2>4. Mrv2Speculator(t) = Write("profiler", x)
    BY <1>2, <1>5 DEF Mrv2Speculator, Known, Once, Mrv2Affected, Mrv2Fixed, f, P
  <2> HIDE DEF x
  <2>5. /\ x.poolFixed = f.poolFixed + 1
        /\ x.cleanFixed = f.cleanFixed + 1
    BY <1>1, <1>2, <2>1 DEF One
  <2>6. Mrv2Speculator(u) = Keep /\ ~(Mrv2Affected(u.profiler) /\ ~Mrv2Fixed(u.profiler))
    BY <1>1, <1>2, <1>3, <1>5, <2>5 DEF Mrv2Speculator, Known, Once, Mrv2Affected, Mrv2Fixed
  <2>7. Outcome("mrv2_speculator", u, e) = Keep /\ ~Affected("mrv2_speculator", u, e) /\ Outcome("mrv2_speculator", t, e) = Write("profiler", x)
    BY <2>4, <2>6 DEF Outcome, Affected
  <2> QED BY <2>3, <2>7, MendsWrite DEF u, f
<1>6. CASE ~(~Mrv2Fixed(f) /\ Mrv2Affected(f) /\ f.decl = 1 /\ f.pool = 1 /\ f.clean = 1)
  <2>1. Mrv2Speculator(t) = Refuse \/ (Mrv2Speculator(t) = Keep /\ ~(Mrv2Affected(t.profiler) /\ ~Mrv2Fixed(t.profiler)))
    BY <1>1, <1>2, <1>6 DEF Mrv2Speculator, Known, Once, Mrv2Affected, Mrv2Fixed, f
  <2>2. Outcome("mrv2_speculator", t, e) = Refuse \/ (Outcome("mrv2_speculator", t, e) = Keep /\ ~Affected("mrv2_speculator", t, e))
    BY <2>1 DEF Outcome, Affected
  <2> QED BY <2>2, MendsPlain
<1> QED BY <1>5, <1>6

LEMMA C128aAlignmentMends ==
    ASSUME NEW t, NEW e, IsTree(t), Readable("c128a", t)
    PROVE  Mends("c128a", "mla", t, e)
<1> DEFINE f == t.mla
           P == {<<"imports", "binds">>}
           x == Swap(f, P)
           u == [t EXCEPT !.mla = x]
<1>1. "mla" \in DOMAIN t /\ IsText(f) /\ {"uses", "binds", "imports", "exists"} \subseteq DOMAIN f
  BY DEF Readable, Looks, IsTree, Sources, IsText
<1>2. \A p \in {"uses", "binds", "imports", "exists"} : f[p] \in Nat /\ (f.exists = 0 => f[p] = 0)
  BY <1>1 DEF IsText
<1>3. u.mla = x /\ \A g \in DOMAIN t \ {"mla"} : u[g] = t[g]
  BY <1>1
<1>4. P = {<<"imports", "binds">>}
  OBVIOUS
<1> HIDE DEF f, P, u
<1>5. CASE /\ e.c128a # "invalid" /\ e.c128a # "off" /\ f.uses # 0 /\ ~(f.binds > 0)
            /\ t.compressor.is128 # 0 /\ f.imports = 1
  <2>1. /\ DOMAIN x = DOMAIN f /\ IsFiniteSet(P)
        /\ \A p \in DOMAIN f : x[p] = f[p] + One(p, "binds") - One(p, "imports")
    BY <1>1, <1>4, SwapOne
  <2>2. \A r \in P : /\ r[1] # "exists" /\ r[2] # "exists" /\ f[r[1]] > 0
                    /\ \A w \in P : w[1] = r[1] => w = r
    BY <1>2, <1>4, <1>5
  <2>3. Fits(f, x)
    BY <1>1, <1>2, <1>5, <2>1, <2>2, SwapFits
  <2>4. C128aAlignment(t, e) = Write("mla", x)
    BY <1>2, <1>5 DEF C128aAlignment, Known, f, P
  <2> HIDE DEF x
  <2>5. /\ x.uses = f.uses
        /\ x.binds = f.binds + 1
        /\ x.imports = f.imports - 1
        /\ x.exists = f.exists
    BY <1>1, <1>2, <2>1 DEF One
  <2>6. C128aAlignment(u, e) = Keep /\ ~(e.c128a # "off" /\ u.mla.uses > 0 /\ u.mla.binds = 0)
    BY <1>1, <1>2, <1>3, <1>5, <2>5 DEF C128aAlignment, Known
  <2>7. Outcome("c128a", u, e) = Keep /\ ~Affected("c128a", u, e) /\ Outcome("c128a", t, e) = Write("mla", x)
    BY <2>4, <2>6 DEF Outcome, Affected
  <2> QED BY <2>3, <2>7, MendsWrite DEF u, f
<1>6. CASE ~(/\ e.c128a # "invalid" /\ e.c128a # "off" /\ f.uses # 0 /\ ~(f.binds > 0)
            /\ t.compressor.is128 # 0 /\ f.imports = 1)
  <2>1. C128aAlignment(t, e) = Refuse \/ (C128aAlignment(t, e) = Keep /\ ~(e.c128a # "off" /\ t.mla.uses > 0 /\ t.mla.binds = 0))
    BY <1>1, <1>2, <1>6 DEF C128aAlignment, Known, f
  <2>2. Outcome("c128a", t, e) = Refuse \/ (Outcome("c128a", t, e) = Keep /\ ~Affected("c128a", t, e))
    BY <2>1 DEF Outcome, Affected
  <2> QED BY <2>2, MendsPlain
<1> QED BY <1>5, <1>6

LEMMA TopkSoftplusMends ==
    ASSUME NEW t, NEW e, IsTree(t), Readable("topk_softplus", t)
    PROVE  Mends("topk_softplus", "ops", t, e)
<1> DEFINE f == t.ops
           P == {<<"misplaced", "fixed">>}
           x == Swap(f, P)
           u == [t EXCEPT !.ops = x]
<1>1. "ops" \in DOMAIN t /\ IsText(f) /\ {"function", "padding", "fixed", "direct", "xpu", "bareReturn", "misplaced", "exists"} \subseteq DOMAIN f
  BY DEF Readable, Looks, IsTree, Sources, IsText
<1>2. \A p \in {"function", "padding", "fixed", "direct", "xpu", "bareReturn", "misplaced", "exists"} : f[p] \in Nat /\ (f.exists = 0 => f[p] = 0)
  BY <1>1 DEF IsText
<1>3. u.ops = x /\ \A g \in DOMAIN t \ {"ops"} : u[g] = t[g]
  BY <1>1
<1>4. P = {<<"misplaced", "fixed">>}
  OBVIOUS
<1> HIDE DEF f, P, u
<1>5. CASE f.exists # 0 /\ f.function # 0 /\ f.padding # 0 /\ f.fixed = 0 /\ f.misplaced = 1
  <2>1. /\ DOMAIN x = DOMAIN f /\ IsFiniteSet(P)
        /\ \A p \in DOMAIN f : x[p] = f[p] + One(p, "fixed") - One(p, "misplaced")
    BY <1>1, <1>4, SwapOne
  <2>2. \A r \in P : /\ r[1] # "exists" /\ r[2] # "exists" /\ f[r[1]] > 0
                    /\ \A w \in P : w[1] = r[1] => w = r
    BY <1>2, <1>4, <1>5
  <2>3. Fits(f, x)
    BY <1>1, <1>2, <1>5, <2>1, <2>2, SwapFits
  <2>4. TopkSoftplus(t) = Write("ops", x)
    BY <1>2, <1>5 DEF TopkSoftplus, Known, f, P
  <2> HIDE DEF x
  <2>5. /\ x.function = f.function
        /\ x.padding = f.padding
        /\ x.fixed = f.fixed + 1
        /\ x.direct = f.direct
        /\ x.xpu = f.xpu
        /\ x.bareReturn = f.bareReturn
        /\ x.misplaced = f.misplaced - 1
        /\ x.exists = f.exists
    BY <1>1, <1>2, <2>1 DEF One
  <2>6. TopkSoftplus(u) = Keep /\ ~(u.ops.padding > 0 /\ u.ops.function > 0 /\ u.ops.misplaced > 0 /\ u.ops.fixed = 0)
    BY <1>1, <1>2, <1>3, <1>5, <2>5 DEF TopkSoftplus, Known
  <2>7. Outcome("topk_softplus", u, e) = Keep /\ ~Affected("topk_softplus", u, e) /\ Outcome("topk_softplus", t, e) = Write("ops", x)
    BY <2>4, <2>6 DEF Outcome, Affected
  <2> QED BY <2>3, <2>7, MendsWrite DEF u, f
<1>6. CASE ~(f.exists # 0 /\ f.function # 0 /\ f.padding # 0 /\ f.fixed = 0 /\ f.misplaced = 1)
  <2>1. TopkSoftplus(t) = Refuse \/ (TopkSoftplus(t) = Keep /\ ~(t.ops.padding > 0 /\ t.ops.function > 0 /\ t.ops.misplaced > 0 /\ t.ops.fixed = 0))
    BY <1>1, <1>2, <1>6 DEF TopkSoftplus, Known, f
  <2>2. Outcome("topk_softplus", t, e) = Refuse \/ (Outcome("topk_softplus", t, e) = Keep /\ ~Affected("topk_softplus", t, e))
    BY <2>1 DEF Outcome, Affected
  <2> QED BY <2>2, MendsPlain
<1> QED BY <1>5, <1>6

LEMMA DiffusionCausalMends ==
    ASSUME NEW t, NEW e, IsTree(t), Readable("diffusion", t)
    PROVE  Mends("diffusion", "attnUtils", t, e)
<1> DEFINE f == t.attnUtils
           P == {<<"signature", "signatureFixed">>, <<"group", "groupFixed">>}
           x == Swap(f, P)
           u == [t EXCEPT !.attnUtils = x]
<1>1. "attnUtils" \in DOMAIN t /\ IsText(f) /\ {"signature", "signatureFixed", "group", "groupFixed", "exists"} \subseteq DOMAIN f
  BY DEF Readable, Looks, IsTree, Sources, IsText
<1>2. \A p \in {"signature", "signatureFixed", "group", "groupFixed", "exists"} : f[p] \in Nat /\ (f.exists = 0 => f[p] = 0)
  BY <1>1 DEF IsText
<1>3. u.attnUtils = x /\ \A g \in DOMAIN t \ {"attnUtils"} : u[g] = t[g]
  BY <1>1
<1>4. P = {<<"signature", "signatureFixed">>, <<"group", "groupFixed">>}
  OBVIOUS
<1> HIDE DEF f, P, u
<1>5. CASE f.exists # 0 /\ ~(f.signatureFixed > 0 /\ f.groupFixed > 0) /\ f.signature > 0 /\ f.group > 0
  <2>1. /\ DOMAIN x = DOMAIN f /\ IsFiniteSet(P)
        /\ \A p \in DOMAIN f : x[p] = f[p] + One(p, "signatureFixed") - One(p, "signature") + One(p, "groupFixed") - One(p, "group")
    <3>1. P = {<<"group", "groupFixed">>, <<"signature", "signatureFixed">>} BY <1>4
    <3> QED BY <1>1, <3>1, SwapTwo
  <2>2. \A r \in P : /\ r[1] # "exists" /\ r[2] # "exists" /\ f[r[1]] > 0
                    /\ \A w \in P : w[1] = r[1] => w = r
    BY <1>2, <1>4, <1>5
  <2>3. Fits(f, x)
    BY <1>1, <1>2, <1>5, <2>1, <2>2, SwapFits
  <2>4. DiffusionCausal(t) = Write("attnUtils", x)
    BY <1>2, <1>5 DEF DiffusionCausal, Known, f, P
  <2> HIDE DEF x
  <2>5. /\ x.signature = f.signature - 1
        /\ x.signatureFixed = f.signatureFixed + 1
        /\ x.group = f.group - 1
        /\ x.groupFixed = f.groupFixed + 1
        /\ x.exists = f.exists
    BY <1>1, <1>2, <2>1 DEF One
  <2>6. DiffusionCausal(u) = Keep /\ ~(FALSE)
    BY <1>1, <1>2, <1>3, <1>5, <2>5 DEF DiffusionCausal, Known
  <2>7. Outcome("diffusion", u, e) = Keep /\ ~Affected("diffusion", u, e) /\ Outcome("diffusion", t, e) = Write("attnUtils", x)
    BY <2>4, <2>6 DEF Outcome, Affected
  <2> QED BY <2>3, <2>7, MendsWrite DEF u, f
<1>6. CASE ~(f.exists # 0 /\ ~(f.signatureFixed > 0 /\ f.groupFixed > 0) /\ f.signature > 0 /\ f.group > 0)
  <2>1. DiffusionCausal(t) = Refuse \/ (DiffusionCausal(t) = Keep /\ ~(FALSE))
    BY <1>1, <1>2, <1>6 DEF DiffusionCausal, Known, f
  <2>2. Outcome("diffusion", t, e) = Refuse \/ (Outcome("diffusion", t, e) = Keep /\ ~Affected("diffusion", t, e))
    BY <2>1 DEF Outcome, Affected
  <2> QED BY <2>2, MendsPlain
<1> QED BY <1>5, <1>6

LEMMA Gemma4EmbeddingMends ==
    ASSUME NEW t, NEW e, IsTree(t), Readable("gemma4", t)
    PROVE  Mends("gemma4", "proposer", t, e)
<1> DEFINE f == t.proposer
           P == {<<"broken", "fixed">>}
           x == Swap(f, P)
           u == [t EXCEPT !.proposer = x]
<1>1. "proposer" \in DOMAIN t /\ IsText(f) /\ {"fixed", "broken", "exists"} \subseteq DOMAIN f
  BY DEF Readable, Looks, IsTree, Sources, IsText
<1>2. \A p \in {"fixed", "broken", "exists"} : f[p] \in Nat /\ (f.exists = 0 => f[p] = 0)
  BY <1>1 DEF IsText
<1>3. u.proposer = x /\ \A g \in DOMAIN t \ {"proposer"} : u[g] = t[g]
  BY <1>1
<1>4. P = {<<"broken", "fixed">>}
  OBVIOUS
<1> HIDE DEF f, P, u
<1>5. CASE f.fixed = 0 /\ f.broken # 0
  <2>1. /\ DOMAIN x = DOMAIN f /\ IsFiniteSet(P)
        /\ \A p \in DOMAIN f : x[p] = f[p] + One(p, "fixed") - One(p, "broken")
    BY <1>1, <1>4, SwapOne
  <2>2. \A r \in P : /\ r[1] # "exists" /\ r[2] # "exists" /\ f[r[1]] > 0
                    /\ \A w \in P : w[1] = r[1] => w = r
    BY <1>2, <1>4, <1>5
  <2>3. Fits(f, x)
    BY <1>1, <1>2, <1>5, <2>1, <2>2, SwapFits
  <2>4. Gemma4Embedding(t) = Write("proposer", x)
    BY <1>2, <1>5 DEF Gemma4Embedding, Known, Lenient, f, P
  <2> HIDE DEF x
  <2>5. /\ x.fixed = f.fixed + 1
        /\ x.broken = f.broken - 1
        /\ x.exists = f.exists
    BY <1>1, <1>2, <2>1 DEF One
  <2>6. Gemma4Embedding(u) = Keep /\ ~(FALSE)
    BY <1>1, <1>2, <1>3, <1>5, <2>5 DEF Gemma4Embedding, Known, Lenient
  <2>7. Outcome("gemma4", u, e) = Keep /\ ~Affected("gemma4", u, e) /\ Outcome("gemma4", t, e) = Write("proposer", x)
    BY <2>4, <2>6 DEF Outcome, Affected
  <2> QED BY <2>3, <2>7, MendsWrite DEF u, f
<1>6. CASE ~(f.fixed = 0 /\ f.broken # 0)
  <2>1. Gemma4Embedding(t) = Refuse \/ (Gemma4Embedding(t) = Keep /\ ~(FALSE))
    BY <1>1, <1>2, <1>6 DEF Gemma4Embedding, Known, Lenient, f
  <2>2. Outcome("gemma4", t, e) = Refuse \/ (Outcome("gemma4", t, e) = Keep /\ ~Affected("gemma4", t, e))
    BY <2>1 DEF Outcome, Affected
  <2> QED BY <2>2, MendsPlain
<1> QED BY <1>5, <1>6

LEMMA Sm120TopkMends ==
    ASSUME NEW t, NEW e, IsTree(t), Readable("sm120_topk", t)
    PROVE  Mends("sm120_topk", "indexer", t, e)
<1> DEFINE f == t.indexer
           P == {<<"broken", "fixed">>}
           x == Swap(f, P)
           u == [t EXCEPT !.indexer = x]
<1>1. "indexer" \in DOMAIN t /\ IsText(f) /\ {"fixed", "broken", "exists"} \subseteq DOMAIN f
  BY DEF Readable, Looks, IsTree, Sources, IsText
<1>2. \A p \in {"fixed", "broken", "exists"} : f[p] \in Nat /\ (f.exists = 0 => f[p] = 0)
  BY <1>1 DEF IsText
<1>3. u.indexer = x /\ \A g \in DOMAIN t \ {"indexer"} : u[g] = t[g]
  BY <1>1
<1>4. P = {<<"broken", "fixed">>}
  OBVIOUS
<1> HIDE DEF f, P, u
<1>5. CASE f.fixed = 0 /\ f.broken # 0
  <2>1. /\ DOMAIN x = DOMAIN f /\ IsFiniteSet(P)
        /\ \A p \in DOMAIN f : x[p] = f[p] + One(p, "fixed") - One(p, "broken")
    BY <1>1, <1>4, SwapOne
  <2>2. \A r \in P : /\ r[1] # "exists" /\ r[2] # "exists" /\ f[r[1]] > 0
                    /\ \A w \in P : w[1] = r[1] => w = r
    BY <1>2, <1>4, <1>5
  <2>3. Fits(f, x)
    BY <1>1, <1>2, <1>5, <2>1, <2>2, SwapFits
  <2>4. Sm120Topk(t) = Write("indexer", x)
    BY <1>2, <1>5 DEF Sm120Topk, Known, Lenient, f, P
  <2> HIDE DEF x
  <2>5. /\ x.fixed = f.fixed + 1
        /\ x.broken = f.broken - 1
        /\ x.exists = f.exists
    BY <1>1, <1>2, <2>1 DEF One
  <2>6. Sm120Topk(u) = Keep /\ ~(FALSE)
    BY <1>1, <1>2, <1>3, <1>5, <2>5 DEF Sm120Topk, Known, Lenient
  <2>7. Outcome("sm120_topk", u, e) = Keep /\ ~Affected("sm120_topk", u, e) /\ Outcome("sm120_topk", t, e) = Write("indexer", x)
    BY <2>4, <2>6 DEF Outcome, Affected
  <2> QED BY <2>3, <2>7, MendsWrite DEF u, f
<1>6. CASE ~(f.fixed = 0 /\ f.broken # 0)
  <2>1. Sm120Topk(t) = Refuse \/ (Sm120Topk(t) = Keep /\ ~(FALSE))
    BY <1>1, <1>2, <1>6 DEF Sm120Topk, Known, Lenient, f
  <2>2. Outcome("sm120_topk", t, e) = Refuse \/ (Outcome("sm120_topk", t, e) = Keep /\ ~Affected("sm120_topk", t, e))
    BY <2>1 DEF Outcome, Affected
  <2> QED BY <2>2, MendsPlain
<1> QED BY <1>5, <1>6

LEMMA AutogptqQzerosMends ==
    ASSUME NEW t, NEW e, IsTree(t), Readable("autogptq", t)
    PROVE  Mends("autogptq", "autogptq", t, e)
<1> DEFINE f == t.autogptq
           P == {<<"broken", "fixed">>}
           x == Swap(f, P)
           u == [t EXCEPT !.autogptq = x]
<1>1. "autogptq" \in DOMAIN t /\ IsText(f) /\ {"fixed", "broken", "exists"} \subseteq DOMAIN f
  BY DEF Readable, Looks, IsTree, Sources, IsText
<1>2. \A p \in {"fixed", "broken", "exists"} : f[p] \in Nat /\ (f.exists = 0 => f[p] = 0)
  BY <1>1 DEF IsText
<1>3. u.autogptq = x /\ \A g \in DOMAIN t \ {"autogptq"} : u[g] = t[g]
  BY <1>1
<1>4. P = {<<"broken", "fixed">>}
  OBVIOUS
<1> HIDE DEF f, P, u
<1>5. CASE f.fixed = 0 /\ f.broken # 0
  <2>1. /\ DOMAIN x = DOMAIN f /\ IsFiniteSet(P)
        /\ \A p \in DOMAIN f : x[p] = f[p] + One(p, "fixed") - One(p, "broken")
    BY <1>1, <1>4, SwapOne
  <2>2. \A r \in P : /\ r[1] # "exists" /\ r[2] # "exists" /\ f[r[1]] > 0
                    /\ \A w \in P : w[1] = r[1] => w = r
    BY <1>2, <1>4, <1>5
  <2>3. Fits(f, x)
    BY <1>1, <1>2, <1>5, <2>1, <2>2, SwapFits
  <2>4. AutogptqQzeros(t) = Write("autogptq", x)
    BY <1>2, <1>5 DEF AutogptqQzeros, Known, Lenient, f, P
  <2> HIDE DEF x
  <2>5. /\ x.fixed = f.fixed + 1
        /\ x.broken = f.broken - 1
        /\ x.exists = f.exists
    BY <1>1, <1>2, <2>1 DEF One
  <2>6. AutogptqQzeros(u) = Keep /\ ~(FALSE)
    BY <1>1, <1>2, <1>3, <1>5, <2>5 DEF AutogptqQzeros, Known, Lenient
  <2>7. Outcome("autogptq", u, e) = Keep /\ ~Affected("autogptq", u, e) /\ Outcome("autogptq", t, e) = Write("autogptq", x)
    BY <2>4, <2>6 DEF Outcome, Affected
  <2> QED BY <2>3, <2>7, MendsWrite DEF u, f
<1>6. CASE ~(f.fixed = 0 /\ f.broken # 0)
  <2>1. AutogptqQzeros(t) = Refuse \/ (AutogptqQzeros(t) = Keep /\ ~(FALSE))
    BY <1>1, <1>2, <1>6 DEF AutogptqQzeros, Known, Lenient, f
  <2>2. Outcome("autogptq", t, e) = Refuse \/ (Outcome("autogptq", t, e) = Keep /\ ~Affected("autogptq", t, e))
    BY <2>1 DEF Outcome, Affected
  <2> QED BY <2>2, MendsPlain
<1> QED BY <1>5, <1>6

LEMMA RoutedExpertsMends ==
    ASSUME NEW t, NEW e, IsTree(t), Readable("routed_experts", t)
    PROVE  Mends("routed_experts", "routed", t, e)
<1> DEFINE f == t.routed
           P == {<<"broken", "fixed">>}
           x == Swap(f, P)
           u == [t EXCEPT !.routed = x]
<1>1. "routed" \in DOMAIN t /\ IsText(f) /\ {"fixed", "broken", "exists"} \subseteq DOMAIN f
  BY DEF Readable, Looks, IsTree, Sources, IsText
<1>2. \A p \in {"fixed", "broken", "exists"} : f[p] \in Nat /\ (f.exists = 0 => f[p] = 0)
  BY <1>1 DEF IsText
<1>3. u.routed = x /\ \A g \in DOMAIN t \ {"routed"} : u[g] = t[g]
  BY <1>1
<1>4. P = {<<"broken", "fixed">>}
  OBVIOUS
<1> HIDE DEF f, P, u
<1>5. CASE f.fixed = 0 /\ f.broken # 0
  <2>1. /\ DOMAIN x = DOMAIN f /\ IsFiniteSet(P)
        /\ \A p \in DOMAIN f : x[p] = f[p] + One(p, "fixed") - One(p, "broken")
    BY <1>1, <1>4, SwapOne
  <2>2. \A r \in P : /\ r[1] # "exists" /\ r[2] # "exists" /\ f[r[1]] > 0
                    /\ \A w \in P : w[1] = r[1] => w = r
    BY <1>2, <1>4, <1>5
  <2>3. Fits(f, x)
    BY <1>1, <1>2, <1>5, <2>1, <2>2, SwapFits
  <2>4. RoutedExperts(t) = Write("routed", x)
    BY <1>2, <1>5 DEF RoutedExperts, Known, Lenient, f, P
  <2> HIDE DEF x
  <2>5. /\ x.fixed = f.fixed + 1
        /\ x.broken = f.broken - 1
        /\ x.exists = f.exists
    BY <1>1, <1>2, <2>1 DEF One
  <2>6. RoutedExperts(u) = Keep /\ ~(FALSE)
    BY <1>1, <1>2, <1>3, <1>5, <2>5 DEF RoutedExperts, Known, Lenient
  <2>7. Outcome("routed_experts", u, e) = Keep /\ ~Affected("routed_experts", u, e) /\ Outcome("routed_experts", t, e) = Write("routed", x)
    BY <2>4, <2>6 DEF Outcome, Affected
  <2> QED BY <2>3, <2>7, MendsWrite DEF u, f
<1>6. CASE ~(f.fixed = 0 /\ f.broken # 0)
  <2>1. RoutedExperts(t) = Refuse \/ (RoutedExperts(t) = Keep /\ ~(FALSE))
    BY <1>1, <1>2, <1>6 DEF RoutedExperts, Known, Lenient, f
  <2>2. Outcome("routed_experts", t, e) = Refuse \/ (Outcome("routed_experts", t, e) = Keep /\ ~Affected("routed_experts", t, e))
    BY <2>1 DEF Outcome, Affected
  <2> QED BY <2>2, MendsPlain
<1> QED BY <1>5, <1>6

LEMMA MoeTuningMends ==
    ASSUME NEW t, NEW e, IsTree(t), Readable("moe_tuning", t)
    PROVE  Mends("moe_tuning", "moe", t, e)
<1> DEFINE f == t.moe
           P == {<<"patterns", "mark">>, <<"copyOld", "copyNew">>, <<"owners", "-">>, <<"rangeOld", "-">>}
           x == Swap(f, P)
           u == [t EXCEPT !.moe = x]
<1>1. "moe" \in DOMAIN t /\ IsText(f) /\ {"make", "call", "mark", "owners", "otherOwner", "patterns", "copyOld", "copyNew", "rangeOld", "exists"} \subseteq DOMAIN f
  BY DEF Readable, Looks, IsTree, Sources, IsText
<1>2. \A p \in {"make", "call", "mark", "owners", "otherOwner", "patterns", "copyOld", "copyNew", "rangeOld", "exists"} : f[p] \in Nat /\ (f.exists = 0 => f[p] = 0)
  BY <1>1 DEF IsText
<1>3. u.moe = x /\ \A g \in DOMAIN t \ {"moe"} : u[g] = t[g]
  BY <1>1
<1>4. P = {<<"patterns", "mark">>, <<"copyOld", "copyNew">>, <<"owners", "-">>, <<"rangeOld", "-">>}
  OBVIOUS
<1> HIDE DEF f, P, u
<1>5. CASE /\ f.exists # 0 /\ f.make = 1 /\ f.call = 1 /\ f.mark = 0 /\ f.otherOwner = 0
            /\ f.patterns = 1 /\ f.copyOld = 1 /\ f.owners = 1 /\ f.rangeOld = 1
  <2>1. /\ DOMAIN x = DOMAIN f /\ IsFiniteSet(P)
        /\ \A p \in DOMAIN f : x[p] = f[p] + One(p, "mark") - One(p, "patterns") + One(p, "copyNew") - One(p, "copyOld") + One(p, "-") - One(p, "owners") + One(p, "-") - One(p, "rangeOld")
    BY <1>1, <1>4, SwapFour
  <2>2. \A r \in P : /\ r[1] # "exists" /\ r[2] # "exists" /\ f[r[1]] > 0
                    /\ \A w \in P : w[1] = r[1] => w = r
    BY <1>2, <1>4, <1>5
  <2>3. Fits(f, x)
    BY <1>1, <1>2, <1>5, <2>1, <2>2, SwapFits
  <2>4. MoeTuning(t) = Write("moe", x)
    BY <1>2, <1>5 DEF MoeTuning, Known, Once, f, P
  <2> HIDE DEF x
  <2>5. /\ x.make = f.make
        /\ x.call = f.call
        /\ x.mark = f.mark + 1
        /\ x.owners = f.owners - 1
        /\ x.otherOwner = f.otherOwner
        /\ x.patterns = f.patterns - 1
        /\ x.copyOld = f.copyOld - 1
        /\ x.copyNew = f.copyNew + 1
        /\ x.rangeOld = f.rangeOld - 1
        /\ x.exists = f.exists
    BY <1>1, <1>2, <2>1 DEF One
  <2>6. MoeTuning(u) = Keep /\ ~(u.moe.make > 0 /\ u.moe.owners + u.moe.otherOwner > 0)
    BY <1>1, <1>2, <1>3, <1>5, <2>5 DEF MoeTuning, Known, Once
  <2>7. Outcome("moe_tuning", u, e) = Keep /\ ~Affected("moe_tuning", u, e) /\ Outcome("moe_tuning", t, e) = Write("moe", x)
    BY <2>4, <2>6 DEF Outcome, Affected
  <2> QED BY <2>3, <2>7, MendsWrite DEF u, f
<1>6. CASE ~(/\ f.exists # 0 /\ f.make = 1 /\ f.call = 1 /\ f.mark = 0 /\ f.otherOwner = 0
            /\ f.patterns = 1 /\ f.copyOld = 1 /\ f.owners = 1 /\ f.rangeOld = 1)
  <2>1. MoeTuning(t) = Refuse \/ (MoeTuning(t) = Keep /\ ~(t.moe.make > 0 /\ t.moe.owners + t.moe.otherOwner > 0))
    BY <1>1, <1>2, <1>6 DEF MoeTuning, Known, Once, f
  <2>2. Outcome("moe_tuning", t, e) = Refuse \/ (Outcome("moe_tuning", t, e) = Keep /\ ~Affected("moe_tuning", t, e))
    BY <2>1 DEF Outcome, Affected
  <2> QED BY <2>2, MendsPlain
<1> QED BY <1>5, <1>6

LEMMA LoaderIncludeOrderMends ==
    ASSUME NEW t, NEW e, IsTree(t), Readable("loader_include_order", t)
    PROVE  Mends("loader_include_order", "storage", t, e)
<1> DEFINE f == t.storage
           P == {<<"broken", "fixed">>}
           x == Swap(f, P)
           u == [t EXCEPT !.storage = x]
<1>1. "storage" \in DOMAIN t /\ IsText(f) /\ {"fixed", "broken", "exists"} \subseteq DOMAIN f
  BY DEF Readable, Looks, IsTree, Sources, IsText
<1>2. \A p \in {"fixed", "broken", "exists"} : f[p] \in Nat /\ (f.exists = 0 => f[p] = 0)
  BY <1>1 DEF IsText
<1>3. u.storage = x /\ \A g \in DOMAIN t \ {"storage"} : u[g] = t[g]
  BY <1>1
<1>4. P = {<<"broken", "fixed">>}
  OBVIOUS
<1> HIDE DEF f, P, u
<1>5. CASE f.broken = 1
  <2>1. /\ DOMAIN x = DOMAIN f /\ IsFiniteSet(P)
        /\ \A p \in DOMAIN f : x[p] = f[p] + One(p, "fixed") - One(p, "broken")
    BY <1>1, <1>4, SwapOne
  <2>2. \A r \in P : /\ r[1] # "exists" /\ r[2] # "exists" /\ f[r[1]] > 0
                    /\ \A w \in P : w[1] = r[1] => w = r
    BY <1>2, <1>4, <1>5
  <2>3. Fits(f, x)
    BY <1>1, <1>2, <1>5, <2>1, <2>2, SwapFits
  <2>4. LoaderIncludeOrder(t) = Write("storage", x)
    BY <1>2, <1>5 DEF LoaderIncludeOrder, Known, f, P
  <2> HIDE DEF x
  <2>5. /\ x.fixed = f.fixed + 1
        /\ x.broken = f.broken - 1
        /\ x.exists = f.exists
    BY <1>1, <1>2, <2>1 DEF One
  <2>6. LoaderIncludeOrder(u) = Keep /\ ~(u.storage.broken > 0)
    BY <1>1, <1>2, <1>3, <1>5, <2>5 DEF LoaderIncludeOrder, Known
  <2>7. Outcome("loader_include_order", u, e) = Keep /\ ~Affected("loader_include_order", u, e) /\ Outcome("loader_include_order", t, e) = Write("storage", x)
    BY <2>4, <2>6 DEF Outcome, Affected
  <2> QED BY <2>3, <2>7, MendsWrite DEF u, f
<1>6. CASE ~(f.broken = 1)
  <2>1. LoaderIncludeOrder(t) = Refuse \/ (LoaderIncludeOrder(t) = Keep /\ ~(t.storage.broken > 0))
    BY <1>1, <1>2, <1>6 DEF LoaderIncludeOrder, Known, f
  <2>2. Outcome("loader_include_order", t, e) = Refuse \/ (Outcome("loader_include_order", t, e) = Keep /\ ~Affected("loader_include_order", t, e))
    BY <2>1 DEF Outcome, Affected
  <2> QED BY <2>2, MendsPlain
<1> QED BY <1>5, <1>6

LEMMA InstantTensorMemoryMends ==
    ASSUME NEW t, NEW e, IsTree(t), Readable("instanttensor_memory", t)
    PROVE  Mends("instanttensor_memory", "impl", t, e)
<1> DEFINE f == t.impl
           P == IF f.query = 1 THEN {<<"query", "fixed">>} ELSE {<<"queryUma", "fixedUma">>}
           x == Swap(f, P)
           u == [t EXCEPT !.impl = x]
<1>1. "impl" \in DOMAIN t /\ IsText(f) /\ {"method", "query", "queryUma", "fixed", "fixedUma", "exists"} \subseteq DOMAIN f
  BY DEF Readable, Looks, IsTree, Sources, IsText
<1>2. \A p \in {"method", "query", "queryUma", "fixed", "fixedUma", "exists"} : f[p] \in Nat /\ (f.exists = 0 => f[p] = 0)
  BY <1>1 DEF IsText
<1>3. u.impl = x /\ \A g \in DOMAIN t \ {"impl"} : u[g] = t[g]
  BY <1>1
<1>4. P = {<<IF f.query = 1 THEN "query" ELSE "queryUma", IF f.query = 1 THEN "fixed" ELSE "fixedUma">>}
  OBVIOUS
<1> HIDE DEF f, P, u
<1>5. CASE f.exists # 0 /\ f.method = 1 /\ f.query + f.queryUma = 1 /\ f.fixed + f.fixedUma = 0
  <2>1. /\ DOMAIN x = DOMAIN f /\ IsFiniteSet(P)
        /\ \A p \in DOMAIN f : x[p] = f[p] + One(p, IF f.query = 1 THEN "fixed" ELSE "fixedUma") - One(p, IF f.query = 1 THEN "query" ELSE "queryUma")
    BY <1>1, <1>4, SwapOne
  <2>2. \A r \in P : /\ r[1] # "exists" /\ r[2] # "exists" /\ f[r[1]] > 0
                    /\ \A w \in P : w[1] = r[1] => w = r
    BY <1>2, <1>4, <1>5
  <2>3. Fits(f, x)
    BY <1>1, <1>2, <1>5, <2>1, <2>2, SwapFits
  <2>4. InstantTensorMemory(t) = Write("impl", x)
    BY <1>2, <1>5 DEF InstantTensorMemory, Known, f, P
  <2> HIDE DEF x
  <2>5. /\ x.method = f.method
        /\ x.query = IF f.query = 1 THEN f.query - 1 ELSE f.query
        /\ x.queryUma = IF f.query = 1 THEN f.queryUma ELSE f.queryUma - 1
        /\ x.fixed = IF f.query = 1 THEN f.fixed + 1 ELSE f.fixed
        /\ x.fixedUma = IF f.query = 1 THEN f.fixedUma ELSE f.fixedUma + 1
        /\ x.exists = f.exists
    BY <1>1, <1>2, <2>1 DEF One
  <2>6. InstantTensorMemory(u) = Keep /\ ~(u.impl.query + u.impl.queryUma > 0)
    BY <1>1, <1>2, <1>3, <1>5, <2>5 DEF InstantTensorMemory, Known
  <2>7. Outcome("instanttensor_memory", u, e) = Keep /\ ~Affected("instanttensor_memory", u, e) /\ Outcome("instanttensor_memory", t, e) = Write("impl", x)
    BY <2>4, <2>6 DEF Outcome, Affected
  <2> QED BY <2>3, <2>7, MendsWrite DEF u, f
<1>6. CASE ~(f.exists # 0 /\ f.method = 1 /\ f.query + f.queryUma = 1 /\ f.fixed + f.fixedUma = 0)
  <2>1. InstantTensorMemory(t) = Refuse \/ (InstantTensorMemory(t) = Keep /\ ~(t.impl.query + t.impl.queryUma > 0))
    BY <1>1, <1>2, <1>6 DEF InstantTensorMemory, Known, f
  <2>2. Outcome("instanttensor_memory", t, e) = Refuse \/ (Outcome("instanttensor_memory", t, e) = Keep /\ ~Affected("instanttensor_memory", t, e))
    BY <2>1 DEF Outcome, Affected
  <2> QED BY <2>2, MendsPlain
<1> QED BY <1>5, <1>6

LEMMA PreserveSm12xMends ==
    ASSUME NEW t, NEW e, IsTree(t), Readable("sm12x", t)
    PROVE  Mends("sm12x", "cmake", t, e)
<1> DEFINE f == t.cmake
           P == IF f.sm121 = 1 THEN {<<"sm121", "subs">>} ELSE {<<"default", "subs">>}
           x == Swap(f, P)
           u == [t EXCEPT !.cmake = x]
<1>1. "cmake" \in DOMAIN t /\ IsText(f) /\ {"subs", "sm121", "default", "exists"} \subseteq DOMAIN f
  BY DEF Readable, Looks, IsTree, Sources, IsText
<1>2. \A p \in {"subs", "sm121", "default", "exists"} : f[p] \in Nat /\ (f.exists = 0 => f[p] = 0)
  BY <1>1 DEF IsText
<1>3. u.cmake = x /\ \A g \in DOMAIN t \ {"cmake"} : u[g] = t[g]
  BY <1>1
<1>4. P = {<<IF f.sm121 = 1 THEN "sm121" ELSE "default", IF f.sm121 = 1 THEN "subs" ELSE "subs">>}
  OBVIOUS
<1> HIDE DEF f, P, u
<1>5. CASE e.sm12x /\ f.exists # 0 /\ f.subs = 0 /\ (f.sm121 = 1 \/ f.default = 1)
  <2>1. /\ DOMAIN x = DOMAIN f /\ IsFiniteSet(P)
        /\ \A p \in DOMAIN f : x[p] = f[p] + One(p, IF f.sm121 = 1 THEN "subs" ELSE "subs") - One(p, IF f.sm121 = 1 THEN "sm121" ELSE "default")
    BY <1>1, <1>4, SwapOne
  <2>2. \A r \in P : /\ r[1] # "exists" /\ r[2] # "exists" /\ f[r[1]] > 0
                    /\ \A w \in P : w[1] = r[1] => w = r
    BY <1>2, <1>4, <1>5
  <2>3. Fits(f, x)
    BY <1>1, <1>2, <1>5, <2>1, <2>2, SwapFits
  <2>4. PreserveSm12x(t, e) = Write("cmake", x)
    BY <1>2, <1>5 DEF PreserveSm12x, Known, f, P
  <2> HIDE DEF x
  <2>5. /\ x.subs = f.subs + 1
        /\ x.sm121 = IF f.sm121 = 1 THEN f.sm121 - 1 ELSE f.sm121
        /\ x.default = IF f.sm121 = 1 THEN f.default ELSE f.default - 1
        /\ x.exists = f.exists
    BY <1>1, <1>2, <2>1 DEF One
  <2>6. PreserveSm12x(u, e) = Keep /\ ~(e.sm12x /\ u.cmake.subs = 0)
    BY <1>1, <1>2, <1>3, <1>5, <2>5 DEF PreserveSm12x, Known
  <2>7. Outcome("sm12x", u, e) = Keep /\ ~Affected("sm12x", u, e) /\ Outcome("sm12x", t, e) = Write("cmake", x)
    BY <2>4, <2>6 DEF Outcome, Affected
  <2> QED BY <2>3, <2>7, MendsWrite DEF u, f
<1>6. CASE ~(e.sm12x /\ f.exists # 0 /\ f.subs = 0 /\ (f.sm121 = 1 \/ f.default = 1))
  <2>1. PreserveSm12x(t, e) = Refuse \/ (PreserveSm12x(t, e) = Keep /\ ~(e.sm12x /\ t.cmake.subs = 0))
    BY <1>1, <1>2, <1>6 DEF PreserveSm12x, Known, f
  <2>2. Outcome("sm12x", t, e) = Refuse \/ (Outcome("sm12x", t, e) = Keep /\ ~Affected("sm12x", t, e))
    BY <2>1 DEF Outcome, Affected
  <2> QED BY <2>2, MendsPlain
<1> QED BY <1>5, <1>6

LEMMA SwaBlockSizeMends ==
    ASSUME NEW t, NEW e, IsTree(t), Readable("swa_block_size", t)
    PROVE  Mends("swa_block_size", "attention", t, e)
<1> DEFINE f == t.attention
           P == IF f.anchor = 1 THEN {<<"anchor", "fixed">>} ELSE {<<"spec", "specFixed">>}
           x == Swap(f, P)
           u == [t EXCEPT !.attention = x]
<1>1. "attention" \in DOMAIN t /\ IsText(f) /\ {"anchor", "spec", "fixed", "specFixed", "stray", "selector", "divParam", "divSelection", "divCall", "legacy", "budget", "exists"} \subseteq DOMAIN f
  BY DEF Readable, Looks, IsTree, Sources, IsText
<1>2. \A p \in {"anchor", "spec", "fixed", "specFixed", "stray", "selector", "divParam", "divSelection", "divCall", "legacy", "budget", "exists"} : f[p] \in Nat /\ (f.exists = 0 => f[p] = 0)
  BY <1>1 DEF IsText
<1>3. u.attention = x /\ \A g \in DOMAIN t \ {"attention"} : u[g] = t[g]
  BY <1>1
<1>4. P = {<<IF f.anchor = 1 THEN "anchor" ELSE "spec", IF f.anchor = 1 THEN "fixed" ELSE "specFixed">>}
  OBVIOUS
<1> HIDE DEF f, P, u
<1>5. CASE /\ f.fixed + f.specFixed + f.stray = 0 /\ f.selector # 0 /\ f.anchor + f.spec = 1
            /\ f.divParam = 0 /\ f.divSelection = 0 /\ f.divCall = 0
  <2>1. /\ DOMAIN x = DOMAIN f /\ IsFiniteSet(P)
        /\ \A p \in DOMAIN f : x[p] = f[p] + One(p, IF f.anchor = 1 THEN "fixed" ELSE "specFixed") - One(p, IF f.anchor = 1 THEN "anchor" ELSE "spec")
    BY <1>1, <1>4, SwapOne
  <2>2. \A r \in P : /\ r[1] # "exists" /\ r[2] # "exists" /\ f[r[1]] > 0
                    /\ \A w \in P : w[1] = r[1] => w = r
    BY <1>2, <1>4, <1>5
  <2>3. Fits(f, x)
    BY <1>1, <1>2, <1>5, <2>1, <2>2, SwapFits
  <2>4. SwaBlockSize(t) = Write("attention", x)
    BY <1>2, <1>5 DEF SwaBlockSize, Known, Once, f, P
  <2> HIDE DEF x
  <2>5. /\ x.anchor = IF f.anchor = 1 THEN f.anchor - 1 ELSE f.anchor
        /\ x.spec = IF f.anchor = 1 THEN f.spec ELSE f.spec - 1
        /\ x.fixed = IF f.anchor = 1 THEN f.fixed + 1 ELSE f.fixed
        /\ x.specFixed = IF f.anchor = 1 THEN f.specFixed ELSE f.specFixed + 1
        /\ x.stray = f.stray
        /\ x.selector = f.selector
        /\ x.divParam = f.divParam
        /\ x.divSelection = f.divSelection
        /\ x.divCall = f.divCall
        /\ x.legacy = f.legacy
        /\ x.budget = f.budget
        /\ x.exists = f.exists
    BY <1>1, <1>2, <2>1 DEF One
  <2>6. x.anchor + x.spec = 0 /\ x.fixed + x.specFixed = 1 /\ x.stray = 0
    <3>1. /\ f.anchor \in Nat /\ f.spec \in Nat
          /\ f.fixed \in Nat /\ f.specFixed \in Nat /\ f.stray \in Nat
      BY <1>2
    <3>2. f.fixed = 0 /\ f.specFixed = 0 /\ f.stray = 0
      <4>1. f.fixed + f.specFixed + f.stray = 0 BY <1>5
      <4> DEFINE a == f.fixed b == f.specFixed c == f.stray
      <4>2. a \in Nat /\ b \in Nat /\ c \in Nat /\ a + b + c = 0 BY <3>1, <4>1
      <4> HIDE DEF a, b, c
      <4>3. a = 0 /\ b = 0 /\ c = 0 BY <4>2
      <4> QED BY <4>3 DEF a, b, c
    <3>3. f.anchor + f.spec = 1 BY <1>5
    <3>4. CASE f.anchor = 1
      <4>1. f.spec = 0 BY <3>1, <3>3, <3>4
      <4> QED BY <2>5, <3>2, <3>4, <4>1
    <3>5. CASE f.anchor # 1
      <4>1. f.anchor = 0 /\ f.spec = 1 BY <3>1, <3>3, <3>5
      <4> QED BY <2>5, <3>2, <3>5, <4>1
    <3> QED BY <3>4, <3>5
  <2>7. SwaBlockSize(u) = Keep /\ ~(u.attention.selector > 0 /\ u.attention.anchor + u.attention.spec > 0)
    BY <1>3, <2>6 DEF SwaBlockSize, Known, Once
  <2>8. Outcome("swa_block_size", u, e) = Keep /\ ~Affected("swa_block_size", u, e) /\ Outcome("swa_block_size", t, e) = Write("attention", x)
    BY <2>4, <2>7 DEF Outcome, Affected
  <2> QED BY <2>3, <2>8, MendsWrite DEF u, f
<1>6. CASE ~(/\ f.fixed + f.specFixed + f.stray = 0 /\ f.selector # 0 /\ f.anchor + f.spec = 1
            /\ f.divParam = 0 /\ f.divSelection = 0 /\ f.divCall = 0)
  <2>1. SwaBlockSize(t) = Refuse \/ (SwaBlockSize(t) = Keep /\ ~(t.attention.selector > 0 /\ t.attention.anchor + t.attention.spec > 0))
    BY <1>1, <1>2, <1>6 DEF SwaBlockSize, Known, Once, f
  <2>2. Outcome("swa_block_size", t, e) = Refuse \/ (Outcome("swa_block_size", t, e) = Keep /\ ~Affected("swa_block_size", t, e))
    BY <2>1 DEF Outcome, Affected
  <2> QED BY <2>2, MendsPlain
<1> QED BY <1>5, <1>6

-----------------------------------------------------------------------------
(* The scripts that add passages, and the one that replaces all it finds. *)

LEMMA AddNothing == ASSUME NEW text, IsText(text), NEW P, P = {} PROVE Add(text, P) = text
BY DEF Add, IsText

(* What leaves the KV-cache and the heap scripts nothing to do.            *)
KvDone(f) == f.exists # 0 /\ f.trim > 0 /\ f.prealloc > 0 /\ KvRefreshed(f)
HeapDone(f) ==
    /\ f.exists # 0 /\ f.function = 1 /\ f.trim = 1 /\ f.stray = 0
    /\ f.freezeLast # 0 /\ f.collect # 0

LEMMA KvDoneGood ==
    ASSUME NEW t, NEW e, IsTree(t), Readable("kv_cleanup", t), KvDone(t.worker)
    PROVE  Good("kv_cleanup", t, e) /\ KvCleanup(t) = Keep
<1> DEFINE f == t.worker
           before == {p \in {"cleanBeforeSnapshot"} : f.snapshot > 0}
           first == IF before # {} THEN before ELSE {"cleanBeforeFree"}
           P == (IF f.prealloc > 0 /\ KvRefreshed(f) THEN {}
                       ELSE {p \in {"importGc"} : f.importGc = 0})
                      \cup (IF KvRefreshed(f) THEN {} ELSE first \cup {"measure", "charge"})
                      \cup {p \in {"trim", "prealloc"} : f[p] = 0}
           x == Add(f, P)
           unknown == \/ f.exists = 0
                      \/ ~KvRefreshed(f) /\ f.snapshot + f.freeMemory = 0
                      \/ f.trim = 0 /\ x.measure = 0
                      \/ f.prealloc = 0 /\ f.initialize = 0
<1>1. IsText(f) BY DEF Readable, Looks, IsTree, Sources
<1>2. KvCleanup(t) = Known(unknown, IF x = f THEN Keep ELSE Write("worker", x))
  BY DEF KvCleanup
<1>3. P = {} BY DEF KvDone
<1> HIDE DEF P
<1>4. x = f BY <1>1, <1>3, AddNothing
<1> HIDE DEF x
<1>5. KvCleanup(t) = Keep BY <1>2, <1>4 DEF KvDone, Known
<1>6. Outcome("kv_cleanup", t, e) = Keep /\ ~Affected("kv_cleanup", t, e)
  BY <1>5 DEF Outcome, Affected, KvDone
<1> QED BY <1>5, <1>6, KeepSettled DEF Good

LEMMA Rewritten ==
    ASSUME NEW t, IsTree(t), NEW F \in DOMAIN t, NEW x, F \in Sources(t) => IsText(x),
           DOMAIN x = DOMAIN t[F], NEW u, u = [t EXCEPT ![F] = x]
    PROVE  IsTree(u) /\ \A s : Readable(s, t) => Readable(s, u)
<1>1. DOMAIN u = DOMAIN t /\ u = [g \in DOMAIN u |-> u[g]] OBVIOUS
<1>2. u[F] = x /\ \A g \in DOMAIN t \ {F} : u[g] = t[g] OBVIOUS
<1>3. IsTree(u) BY <1>1, <1>2 DEF IsTree, Sources
<1>4. \A g \in DOMAIN t : DOMAIN u[g] = DOMAIN t[g] BY <1>2
<1> QED BY <1>1, <1>3, <1>4 DEF Readable

LEMMA KvCleanupMends ==
    ASSUME NEW t, NEW e, IsTree(t), Readable("kv_cleanup", t)
    PROVE  Mends("kv_cleanup", "worker", t, e)
<1> DEFINE f == t.worker
           before == {p \in {"cleanBeforeSnapshot"} : f.snapshot > 0}
           first == IF before # {} THEN before ELSE {"cleanBeforeFree"}
           P == (IF f.prealloc > 0 /\ KvRefreshed(f) THEN {}
                       ELSE {p \in {"importGc"} : f.importGc = 0})
                      \cup (IF KvRefreshed(f) THEN {} ELSE first \cup {"measure", "charge"})
                      \cup {p \in {"trim", "prealloc"} : f[p] = 0}
           x == Add(f, P)
           u == [t EXCEPT !.worker = x]
           unknown == \/ f.exists = 0
                      \/ ~KvRefreshed(f) /\ f.snapshot + f.freeMemory = 0
                      \/ f.trim = 0 /\ x.measure = 0
                      \/ f.prealloc = 0 /\ f.initialize = 0
<1>1. "worker" \in DOMAIN t /\ IsText(f)
      /\ {"measure", "inline", "charge", "trim", "prealloc", "exists"} \subseteq DOMAIN f
  BY DEF Readable, Looks, IsTree, Sources, IsText
<1>2. \A p \in {"measure", "inline", "charge", "trim", "prealloc", "exists"} :
        f[p] \in Nat /\ (f.exists = 0 => f[p] = 0)
  BY <1>1 DEF IsText
<1>3. u.worker = x /\ \A g \in DOMAIN t \ {"worker"} : u[g] = t[g]
  BY <1>1
<1>4. /\ "exists" \notin P
      /\ ("trim" \in P <=> f.trim = 0) /\ ("prealloc" \in P <=> f.prealloc = 0)
      /\ (~KvRefreshed(f) => "measure" \in P /\ "charge" \in P)
      /\ "inline" \notin P
  OBVIOUS
<1>5. KvCleanup(t) = Known(unknown, IF x = f THEN Keep ELSE Write("worker", x))
  BY DEF KvCleanup
<1> HIDE DEF P, u, f
<1>6. CASE unknown
  <2>1. Outcome("kv_cleanup", t, e) = Refuse BY <1>5, <1>6 DEF Outcome, Known
  <2> QED BY <2>1, MendsPlain
<1>7. CASE ~unknown
  <2>1. f.exists # 0 BY <1>7
  <2>2. KvCleanup(t) = IF x = f THEN Keep ELSE Write("worker", x) BY <1>5, <1>7 DEF Known
  <2>3. Fits(f, x) /\ \A p \in DOMAIN f : x[p] = IF p \in P THEN f[p] + 1 ELSE f[p]
    BY <1>1, <1>4, <2>1, AddFits
  <2> HIDE DEF x
  <2>4. x.trim > 0 /\ x.prealloc > 0
    BY <1>1, <1>2, <1>4, <2>3
  <2>5. x.exists # 0
    BY <1>1, <1>2, <1>4, <2>1, <2>3
  <2>6. KvRefreshed(x)
    <3>1. CASE KvRefreshed(f)
      <4>1. x.measure \in Nat /\ x.inline \in Nat /\ x.measure >= f.measure /\ x.inline = f.inline
        BY <1>1, <1>2, <1>4, <2>3
      <4>2. x.charge \in Nat /\ x.charge >= f.charge BY <1>1, <1>2, <2>3
      <4>3. x.charge > 0 BY <1>2, <3>1, <4>2 DEF KvRefreshed
      <4>4. x.measure + x.inline > 0
        <5>1. f.measure + f.inline > 0 BY <3>1 DEF KvRefreshed
        <5> QED BY <1>2, <4>1, <5>1
      <4> QED BY <4>3, <4>4 DEF KvRefreshed
    <3>2. CASE ~KvRefreshed(f)
      <4>1. x.measure = f.measure + 1 /\ x.charge = f.charge + 1 /\ x.inline = f.inline
        BY <1>1, <1>4, <2>3, <3>2
      <4>2. x.measure + x.inline > 0 BY <1>2, <4>1
      <4>3. x.charge > 0 BY <1>2, <4>1
      <4> QED BY <4>2, <4>3 DEF KvRefreshed
    <3> QED BY <3>1, <3>2
  <2>7. KvDone(x) BY <2>4, <2>5, <2>6 DEF KvDone
  <2>8. CASE x = f
    <3>1. Outcome("kv_cleanup", t, e) = Keep BY <2>2, <2>8 DEF Outcome
    <3>2. Good("kv_cleanup", t, e) BY <2>7, <2>8, KvDoneGood DEF f
    <3> QED BY <3>1, <3>2 DEF Mends
  <2>9. CASE x # f
    <3>1. IsTree(u) /\ Readable("kv_cleanup", u)
      <4>1. IsText(x) /\ DOMAIN x = DOMAIN t.worker BY <2>3 DEF Fits, f
      <4> QED BY <1>1, <4>1, Rewritten DEF u
    <3>2. Good("kv_cleanup", u, e) BY <1>3, <2>7, <3>1, KvDoneGood
    <3>3. Outcome("kv_cleanup", t, e) =
            [refused |-> FALSE, writes |-> <<[file |-> "worker", text |-> x, atomic |-> FALSE]>>]
      BY <2>2, <2>9 DEF Outcome, Write
    <3> QED BY <2>3, <3>2, <3>3 DEF Mends, u, f
  <2> QED BY <2>8, <2>9
<1> QED BY <1>6, <1>7

LEMMA HeapDoneGood ==
    ASSUME NEW t, NEW e, IsTree(t), Readable("heap_trim", t), HeapDone(t.gc)
    PROVE  Good("heap_trim", t, e)
<1>1. HeapTrim(t) = Keep BY DEF HeapTrim, HeapDone, Known
<1>2. Outcome("heap_trim", t, e) = Keep /\ ~Affected("heap_trim", t, e)
  BY <1>1 DEF Outcome, Affected, HeapDone
<1> QED BY <1>2, KeepSettled DEF Good

LEMMA HeapTrimMends ==
    ASSUME NEW t, NEW e, IsTree(t), Readable("heap_trim", t)
    PROVE  Mends("heap_trim", "gc", t, e)
<1> DEFINE f == t.gc
           P == {"trim"}
           x == Add(f, P)
           u == [t EXCEPT !.gc = x]
           unknown == \/ f.exists = 0 \/ f.function # 1
                      \/ f.trim + f.stray > 0 /\ (f.trim + f.stray # 1 \/ f.trim # 1)
                      \/ f.freezeLast = 0 \/ f.collect = 0
<1>1. /\ "gc" \in DOMAIN t /\ IsText(f)
      /\ {"function", "collect", "freezeLast", "trim", "stray", "exists"} \subseteq DOMAIN f
  BY DEF Readable, Looks, IsTree, Sources, IsText
<1>2. f.trim \in Nat /\ f.stray \in Nat BY <1>1 DEF IsText
<1>3. u.gc = x BY <1>1
<1>4. HeapTrim(t) = Known(unknown, IF f.trim + f.stray > 0 THEN Keep ELSE Write("gc", x))
  BY DEF HeapTrim
<1>5. P = {"trim"} OBVIOUS
<1> HIDE DEF P, u
<1>6. CASE unknown
  <2>1. Outcome("heap_trim", t, e) = Refuse BY <1>4, <1>6 DEF Outcome, Known
  <2> QED BY <2>1, MendsPlain
<1>7. CASE ~unknown /\ f.trim + f.stray > 0
  <2>1. Outcome("heap_trim", t, e) = Keep BY <1>4, <1>7 DEF Outcome, Known
  <2>2. HeapDone(t.gc) BY <1>2, <1>7 DEF HeapDone
  <2> QED BY <2>1, <2>2, HeapDoneGood DEF Mends
<1>8. CASE ~unknown /\ ~(f.trim + f.stray > 0)
  <2>1. Fits(f, x) /\ \A p \in DOMAIN f : x[p] = IF p \in P THEN f[p] + 1 ELSE f[p]
    BY <1>1, <1>5, <1>8, AddFits
  <2>2. HeapTrim(t) = Write("gc", x) BY <1>4, <1>8 DEF Known
  <2> HIDE DEF x, f
  <2>3. f.trim = 0 /\ f.stray = 0 BY <1>2, <1>8
  <2>4. HeapDone(x) BY <1>1, <1>2, <1>5, <1>8, <2>1, <2>3 DEF HeapDone
  <2>5. IsTree(u) /\ Readable("heap_trim", u)
    <3>1. IsText(x) /\ DOMAIN x = DOMAIN t.gc BY <2>1 DEF Fits, f
    <3> QED BY <1>1, <3>1, Rewritten DEF u
  <2>6. Good("heap_trim", u, e) BY <1>3, <2>4, <2>5, HeapDoneGood
  <2>7. Outcome("heap_trim", t, e) =
          [refused |-> FALSE, writes |-> <<[file |-> "gc", text |-> x, atomic |-> FALSE]>>]
    BY <2>2 DEF Outcome, Write
  <2> QED BY <2>1, <2>6, <2>7 DEF Mends, u, f
<1> QED BY <1>6, <1>7, <1>8

LEMMA TuningBatchMends ==
    ASSUME NEW t, NEW e, IsTree(t), Readable("tuning_batch", t)
    PROVE  Mends("tuning_batch", "prepare", t, e)
<1> DEFINE f == t.prepare
           P == {"batchOne"}
           x == Add(f, P)
           u == [t EXCEPT !.prepare = x]
           fresh == /\ f.exists # 0 /\ f.function = 1 /\ f.session = 1
                    /\ f.batchOne + f.batchOther = 0 /\ f.keywords # 0
<1>1. /\ "prepare" \in DOMAIN t /\ IsText(f)
      /\ {"function", "session", "batchOne", "batchOther", "keywords", "exists"} \subseteq DOMAIN f
  BY DEF Readable, Looks, IsTree, Sources, IsText
<1>2. f.batchOne \in Nat /\ f.batchOther \in Nat /\ f.exists \in Nat BY <1>1 DEF IsText
<1>3. u.prepare = x BY <1>1
<1>4. P = {"batchOne"} OBVIOUS
<1> HIDE DEF P, u
<1>5. CASE fresh
  <2>1. Fits(f, x) /\ \A p \in DOMAIN f : x[p] = IF p \in P THEN f[p] + 1 ELSE f[p]
    BY <1>1, <1>4, <1>5, AddFits
  <2>2. TuningBatch(t) = Write("prepare", x) BY <1>2, <1>5 DEF TuningBatch, Known, P
  <2> HIDE DEF x, f
  <2>3. f.batchOne = 0 /\ f.batchOther = 0 BY <1>2, <1>5
  <2>4. /\ x.batchOne = 1 /\ x.batchOther = 0 /\ x.exists = f.exists
        /\ x.function = 1 /\ x.session = 1
    BY <1>1, <1>4, <1>5, <2>1, <2>3
  <2>5. TuningBatch(u) = Keep BY <1>3, <1>5, <2>4 DEF TuningBatch, Known
  <2>6. Outcome("tuning_batch", u, e) = Keep /\ ~Affected("tuning_batch", u, e)
        /\ Outcome("tuning_batch", t, e) = Write("prepare", x)
    BY <1>3, <2>2, <2>4, <2>5 DEF Outcome, Affected
  <2> QED BY <2>1, <2>6, MendsWrite DEF u, f
<1>6. CASE ~fresh
  <2>1. TuningBatch(t) = Refuse \/ (TuningBatch(t) = Keep /\ ~(f.exists = 1 /\ f.batchOne # 1))
    BY <1>2, <1>6 DEF TuningBatch, Known
  <2>2. Outcome("tuning_batch", t, e) = Refuse
        \/ (Outcome("tuning_batch", t, e) = Keep /\ ~Affected("tuning_batch", t, e))
    BY <2>1 DEF Outcome, Affected
  <2> QED BY <2>2, MendsPlain
<1> QED BY <1>5, <1>6

LEMMA MinimaxIpcMends ==
    ASSUME NEW t, NEW e, IsTree(t), Readable("minimax", t)
    PROVE  Mends("minimax", "minimax", t, e)
<1> DEFINE f == t.minimax
           x == [f EXCEPT !.fixed = @ + f.broken, !.broken = 0]
           u == [t EXCEPT !.minimax = x]
<1>1. "minimax" \in DOMAIN t /\ IsText(f) /\ {"fixed", "broken", "exists"} \subseteq DOMAIN f
  BY DEF Readable, Looks, IsTree, Sources, IsText
<1>2. f.fixed \in Nat /\ f.broken \in Nat /\ f.exists \in Nat BY <1>1 DEF IsText
<1>3. u.minimax = x BY <1>1
<1>4. CASE f.broken = 0
  <2>1. Outcome("minimax", t, e) = Keep /\ ~Affected("minimax", t, e)
    BY <1>4 DEF Outcome, Affected, MinimaxIpc
  <2> QED BY <2>1, MendsPlain
<1>5. CASE f.broken # 0
  <2>1. x.broken = 0 /\ DOMAIN x = DOMAIN f BY <1>1
  <2>2. x \in [DOMAIN x -> Nat]
    <3>1. f.fixed + f.broken \in Nat BY <1>2
    <3> QED BY <1>1, <3>1 DEF IsText
  <2>3. x.exists > 0
    <3>1. x.exists = f.exists BY <1>1
    <3>2. f.exists # 0 BY <1>1, <1>5 DEF IsText
    <3> QED BY <1>2, <3>1, <3>2
  <2>4. MinimaxIpc(t) = Write("minimax", x) BY <1>5 DEF MinimaxIpc
  <2> HIDE DEF x, u
  <2>5. Fits(f, x) BY <1>1, <2>1, <2>2, <2>3, FitsBy
  <2>6. Outcome("minimax", u, e) = Keep /\ ~Affected("minimax", u, e)
        /\ Outcome("minimax", t, e) = Write("minimax", x)
    BY <1>3, <2>1, <2>4 DEF Outcome, Affected, MinimaxIpc
  <2> QED BY <2>5, <2>6, MendsWrite DEF u
<1> QED BY <1>4, <1>5

-----------------------------------------------------------------------------
(* The scripts that rewrite a line or may run twice in one build. *)

LEMMA MendsReplace ==
    ASSUME NEW s, NEW F, NEW t, NEW e, NEW x, NEW u, s \notin {"memory_profile", "inkling"},
           Outcome(s, t, e) = Replace(F, x), Fits(t[F], x), u = [t EXCEPT ![F] = x],
           Outcome(s, u, e) = Keep, ~Affected(s, u, e)
    PROVE  Mends(s, F, t, e)
<1>1. Good(s, u, e) BY KeepSettled DEF Good
<1>2. Outcome(s, t, e) = [refused |-> FALSE, writes |-> <<[file |-> F, text |-> x, atomic |-> TRUE]>>]
  BY DEF Replace
<1> QED BY <1>1, <1>2 DEF Mends

LEMMA SingleWrite ==
    ASSUME NEW o, NEW w, o = [refused |-> FALSE, writes |-> <<w>>]
    PROVE  ~o.refused /\ ToSet(o.writes) = {w}
<1>1. o.refused = FALSE /\ o.writes = <<w>> OBVIOUS
<1>2. ToSet(<<w>>) = {w} BY DEF ToSet
<1> QED BY <1>1, <1>2

LEMMA MendsAgain ==
    ASSUME NEW s, NEW F, NEW t, NEW e, NEW x, NEW u, s \notin {"memory_profile", "inkling"},
           Outcome(s, t, e) = Write(F, x), Fits(t[F], x), u = [t EXCEPT ![F] = x], F \in DOMAIN t,
           Outcome(s, u, e) = Write(F, x), ~Affected(s, u, e)
    PROVE  Mends(s, F, t, e)
<1>1. u[F] = x OBVIOUS
<1>2. Settled(s, u, e)
  <2> DEFINE w == [file |-> F, text |-> x, atomic |-> FALSE]
  <2>1. Outcome(s, u, e) = [refused |-> FALSE, writes |-> <<w>>] BY DEF Write
  <2>2. w.text = u[w.file] BY <1>1
  <2> HIDE DEF w
  <2>3. ~Outcome(s, u, e).refused /\ ToSet(Outcome(s, u, e).writes) = {w} BY <2>1, SingleWrite
  <2> QED BY <2>2, <2>3, Zenon DEF Settled
<1>3. Good(s, u, e) BY <1>2 DEF Good
<1>4. Outcome(s, t, e) = [refused |-> FALSE, writes |-> <<[file |-> F, text |-> x, atomic |-> FALSE]>>]
  BY DEF Write
<1> QED BY <1>3, <1>4 DEF Mends

LEMMA PinCutlassMends ==
    ASSUME NEW t, NEW e, IsTree(t), Readable("pin_cutlass", t)
    PROVE  Mends("pin_cutlass", "requirements", t, e)
<1> DEFINE f == t.requirements
           x == [f EXCEPT !.pin = 1, !.otherPin = 0]
           u == [t EXCEPT !.requirements = x]
<1>1. "requirements" \in DOMAIN t /\ IsText(f) /\ {"pin", "otherPin", "exists"} \subseteq DOMAIN f
  BY DEF Readable, Looks, IsTree, Sources, IsText
<1>2. u.requirements = x BY <1>1
<1>3. CASE f.exists = 0 \/ f.otherPin + f.pin # 1
  <2>1. Outcome("pin_cutlass", t, e) = Refuse BY <1>3 DEF Outcome, PinCutlass, Known
  <2> QED BY <2>1, MendsPlain
<1>4. CASE ~(f.exists = 0 \/ f.otherPin + f.pin # 1)
  <2>1. x.pin = 1 /\ x.otherPin = 0 /\ x.exists = f.exists /\ DOMAIN x = DOMAIN f BY <1>1
  <2>2. x \in [DOMAIN x -> Nat] BY <1>1 DEF IsText
  <2>3. x.exists > 0 BY <1>1, <1>4, <2>1 DEF IsText
  <2>4. PinCutlass(t) = Write("requirements", x) BY <1>4 DEF PinCutlass, Known
  <2>5. [x EXCEPT !.pin = 1, !.otherPin = 0] = x BY <1>1
  <2> HIDE DEF x, u
  <2>6. Fits(f, x) BY <1>1, <2>1, <2>2, <2>3, FitsBy
  <2>7. PinCutlass(u) = Write("requirements", x)
    <3>1. x.otherPin + x.pin = 1 BY <2>1
    <3> QED BY <1>2, <1>4, <2>1, <2>5, <3>1 DEF PinCutlass, Known
  <2>8. ~Affected("pin_cutlass", u, e) BY <1>2, <2>1 DEF Affected
  <2>9. Outcome("pin_cutlass", u, e) = Write("requirements", x)
        /\ Outcome("pin_cutlass", t, e) = Write("requirements", x)
    BY <2>4, <2>7 DEF Outcome
  <2> QED BY <1>1, <2>6, <2>8, <2>9, MendsAgain DEF u
<1> QED BY <1>3, <1>4

LEMMA RopeKeysMends ==
    ASSUME NEW t, NEW e, IsTree(t), Readable("rope_keys", t)
    PROVE  Mends("rope_keys", "rope", t, e)
<1> DEFINE f == t.rope
           x == [f EXCEPT !.set = @ + f.list, !.list = 0]
           u == [t EXCEPT !.rope = x]
<1>1. "rope" \in DOMAIN t /\ IsText(f) /\ {"list", "set", "exists"} \subseteq DOMAIN f
  BY DEF Readable, Looks, IsTree, Sources, IsText
<1>2. u.rope = x BY <1>1
<1>n. f.set \in Nat /\ f.list \in Nat /\ f.exists \in Nat BY <1>1 DEF IsText
<1>3. CASE f.exists = 0
  <2>1. Outcome("rope_keys", t, e) = Refuse BY <1>3 DEF Outcome, RopeKeys, Known
  <2> QED BY <2>1, MendsPlain
<1>4. CASE f.exists # 0
  <2>1. x.list = 0 /\ x.set = f.set + f.list /\ x.exists = f.exists /\ DOMAIN x = DOMAIN f BY <1>1
  <2>2. x \in [DOMAIN x -> Nat]
    <3>1. f.set + f.list \in Nat BY <1>n
    <3> QED BY <1>1, <3>1 DEF IsText
  <2>3. x.exists > 0 BY <1>n, <1>4, <2>1
  <2>4. RopeKeys(t) = Write("rope", x) BY <1>4 DEF RopeKeys, Known
  <2>5. x = [p \in DOMAIN x |-> x[p]] BY <1>1
  <2> HIDE DEF x, u
  <2>6. [x EXCEPT !.set = @ + x.list, !.list = 0] = x
    <3>1. x.set + x.list = x.set BY <1>n, <2>1
    <3> QED BY <2>1, <2>5, <3>1
  <2>7. Fits(f, x) BY <1>1, <2>1, <2>2, <2>3, FitsBy
  <2>8. RopeKeys(u) = Write("rope", x)
    BY <1>2, <1>4, <2>1, <2>6 DEF RopeKeys, Known
  <2>9. ~Affected("rope_keys", u, e) BY <1>2, <2>1 DEF Affected
  <2>10. Outcome("rope_keys", u, e) = Write("rope", x) /\ Outcome("rope_keys", t, e) = Write("rope", x)
    BY <2>4, <2>8 DEF Outcome
  <2> QED BY <1>1, <2>7, <2>9, <2>10, MendsAgain DEF u
<1> QED BY <1>3, <1>4

LEMMA QwenRouterGateMends ==
    ASSUME NEW t, NEW e, IsTree(t), Readable("qwen_router_gate", t)
    PROVE  Mends("qwen_router_gate", "qwen", t, e)
<1> DEFINE f == t.qwen
           x == [f EXCEPT !.quantNone = 0, !.quantModel = 1]
           u == [t EXCEPT !.qwen = x]
           unknown == \/ f.exists = 0 \/ f.block # 1 \/ f.binding # 1 \/ f.gate # 1 \/ f.known = 0
                      \/ f.quantNone + f.quantModel + f.quantOther > 1 \/ f.quantOther > 0
<1>1. /\ "qwen" \in DOMAIN t /\ IsText(f)
      /\ {"block", "binding", "gate", "known", "quantNone", "quantModel", "quantOther", "exists"} \subseteq DOMAIN f
  BY DEF Readable, Looks, IsTree, Sources, IsText
<1>2. u.qwen = x BY <1>1
<1>n. f.quantOther \in Nat /\ f.exists \in Nat BY <1>1 DEF IsText
<1>3. QwenRouterGate(t) = Known(unknown, IF f.quantModel = 1 THEN Keep ELSE Write("qwen", x))
  BY DEF QwenRouterGate
<1>4. CASE unknown
  <2>1. Outcome("qwen_router_gate", t, e) = Refuse BY <1>3, <1>4 DEF Outcome, Known
  <2> QED BY <2>1, MendsPlain
<1>5. CASE ~unknown /\ f.quantModel = 1
  <2>1. Outcome("qwen_router_gate", t, e) = Keep BY <1>3, <1>5 DEF Outcome, Known
  <2>2. ~Affected("qwen_router_gate", t, e) BY <1>5 DEF Affected
  <2> QED BY <2>1, <2>2, MendsPlain
<1>6. CASE ~unknown /\ f.quantModel # 1
  <2>1. /\ x.quantNone = 0 /\ x.quantModel = 1 /\ x.quantOther = f.quantOther /\ x.exists = f.exists
        /\ x.block = f.block /\ x.binding = f.binding /\ x.gate = f.gate /\ x.known = f.known
        /\ DOMAIN x = DOMAIN f
    BY <1>1
  <2>2. x \in [DOMAIN x -> Nat] BY <1>1 DEF IsText
  <2>3. x.exists > 0 BY <1>n, <1>6, <2>1
  <2>4. QwenRouterGate(t) = Write("qwen", x) BY <1>3, <1>6 DEF Known
  <2> HIDE DEF x, u
  <2>5. Fits(f, x) BY <1>1, <2>1, <2>2, <2>3, FitsBy
  <2>6. x.quantOther = 0 BY <1>n, <1>6, <2>1
  <2>7. ~(x.quantNone + x.quantModel + x.quantOther > 1) BY <2>1, <2>6
  <2>8. QwenRouterGate(u) = Keep
    BY <1>2, <1>6, <2>1, <2>6, <2>7 DEF QwenRouterGate, Known
  <2>9. ~Affected("qwen_router_gate", u, e) BY <1>2, <2>1 DEF Affected
  <2>10. Outcome("qwen_router_gate", u, e) = Keep /\ Outcome("qwen_router_gate", t, e) = Write("qwen", x)
    BY <2>4, <2>8 DEF Outcome
  <2> QED BY <2>5, <2>9, <2>10, MendsWrite DEF u
<1> QED BY <1>4, <1>5, <1>6

LEMMA WslUmaMends ==
    ASSUME NEW t, NEW e, IsTree(t), Readable("wsl_uma", t)
    PROVE  Mends("wsl_uma", "mem", t, e)
<1> DEFINE f == t.mem
           S == {<<"guard", "guardFixed">>}
           guarded == IF f.guard = 1 THEN Swap(f, S) ELSE f
           P == {p \in {"importWsl"} : guarded[p] = 0}
           x == Add(guarded, P)
           u == [t EXCEPT !.mem = x]
           unknown == \/ f.exists = 0 \/ f.measure # 1 \/ f.guard + f.guardFixed # 1
                      \/ f.importWsl = 0 /\ f.importPlatform # 1
<1>1. /\ "mem" \in DOMAIN t /\ IsText(f)
      /\ {"measure", "guard", "guardFixed", "importWsl", "importPlatform", "exists"} \subseteq DOMAIN f
  BY DEF Readable, Looks, IsTree, Sources, IsText
<1>2. u.mem = x BY <1>1
<1>3. WslUma(t) = Known(unknown, IF x = f THEN Keep ELSE Write("mem", x))
  BY DEF WslUma, AddMissing
<1>4. \A p \in {"guard", "guardFixed", "importWsl", "exists"} : f[p] \in Nat
  BY <1>1 DEF IsText
<1>5. S = {<<"guard", "guardFixed">>} OBVIOUS
<1>6. "exists" \notin P /\ ("importWsl" \in P <=> guarded.importWsl = 0) /\ P \subseteq {"importWsl"} OBVIOUS
<1> HIDE DEF P, S, u, f
<1>7. CASE unknown
  <2>1. Outcome("wsl_uma", t, e) = Refuse BY <1>3, <1>7 DEF Outcome, Known
  <2> QED BY <2>1, MendsPlain
<1>8. CASE ~unknown
  <2>1. Fits(f, guarded) /\ guarded.guard = 0 /\ guarded.guardFixed = 1 /\ guarded.exists # 0
        /\ guarded.measure = 1 /\ guarded.importWsl = f.importWsl /\ guarded.importPlatform = f.importPlatform
    <3>s. f.guard + f.guardFixed = 1 BY <1>8
    <3>1. CASE f.guard = 1
      <4> DEFINE y == Swap(f, S)
      <4>1. /\ DOMAIN y = DOMAIN f /\ IsFiniteSet(S)
            /\ \A p \in DOMAIN f : y[p] = f[p] + One(p, "guardFixed") - One(p, "guard")
        BY <1>1, <1>5, SwapOne
      <4>2. \A r \in S : /\ r[1] # "exists" /\ r[2] # "exists" /\ f[r[1]] > 0
                         /\ \A w \in S : w[1] = r[1] => w = r
        BY <1>5, <3>1
      <4>3. Fits(f, y) BY <1>1, <1>8, <4>1, <4>2, SwapFits
      <4>4. f.guardFixed = 0 BY <1>4, <3>1, <3>s
      <4>5. guarded = y BY <3>1
      <4> HIDE DEF y
      <4>6. y.guard = 0 /\ y.guardFixed = 1
        BY <1>1, <1>4, <3>1, <4>1, <4>4 DEF One
      <4>7. /\ y.exists = f.exists /\ y.measure = f.measure
            /\ y.importWsl = f.importWsl /\ y.importPlatform = f.importPlatform
        BY <1>1, <4>1 DEF One, IsText
      <4> QED BY <1>8, <4>3, <4>5, <4>6, <4>7
    <3>2. CASE f.guard # 1
      <4>1. f.guard = 0 /\ f.guardFixed = 1 BY <1>4, <3>2, <3>s
      <4>2. guarded = f BY <3>2
      <4> QED BY <1>1, <1>8, <4>1, <4>2 DEF Fits
    <3> QED BY <3>1, <3>2
  <2> HIDE DEF guarded
  <2>2. /\ Fits(guarded, x)
        /\ \A p \in DOMAIN guarded : x[p] = IF p \in P THEN guarded[p] + 1 ELSE guarded[p]
    BY <1>6, <2>1, AddFits DEF Fits
  <2> HIDE DEF x
  <2>3. Fits(f, x) BY <2>1, <2>2 DEF Fits
  <2>4. /\ x.guard = 0 /\ x.guardFixed = 1 /\ x.exists # 0 /\ x.measure = 1 /\ x.importWsl > 0
    <3>1. DOMAIN guarded = DOMAIN f BY <2>1 DEF Fits
    <3>2. x.guard = 0 /\ x.guardFixed = 1 /\ x.exists # 0 /\ x.measure = 1
      BY <1>1, <1>6, <2>1, <2>2, <3>1
    <3>3. x.importWsl = IF guarded.importWsl = 0 THEN guarded.importWsl + 1 ELSE guarded.importWsl
      BY <1>1, <1>6, <2>2, <3>1
    <3> QED BY <1>4, <2>1, <3>2, <3>3
  <2>5. ASSUME NEW v, v.mem = x, IsText(v.mem), "importWsl" \in DOMAIN x
        PROVE  Outcome("wsl_uma", v, e) = Keep /\ ~Affected("wsl_uma", v, e)
    <3> DEFINE Q == {p \in {"importWsl"} : x[p] = 0}
    <3>1. Q = {} BY <2>4
    <3>s. x.guard + x.guardFixed = 1 BY <2>4
    <3> DEFINE y == IF x.guard = 1 THEN Swap(x, {<<"guard", "guardFixed">>}) ELSE x
               z == Add(y, {p \in {"importWsl"} : y[p] = 0})
    <3>y. y = x BY <2>4
    <3>z. WslUma(v) = Known(\/ x.exists = 0 \/ x.measure # 1 \/ x.guard + x.guardFixed # 1
                            \/ x.importWsl = 0 /\ x.importPlatform # 1,
                            IF z = x THEN Keep ELSE Write("mem", z))
      BY <2>5 DEF WslUma, AddMissing
    <3> HIDE DEF y
    <3>2. WslUma(v) = Known(\/ x.exists = 0 \/ x.measure # 1 \/ x.guard + x.guardFixed # 1
                            \/ x.importWsl = 0 /\ x.importPlatform # 1,
                            IF Add(x, Q) = x THEN Keep ELSE Write("mem", Add(x, Q)))
      BY <3>y, <3>z
    <3> HIDE DEF Q
    <3>3. Add(x, Q) = x BY <2>5, <3>1, AddNothing
    <3>4. WslUma(v) = Keep BY <2>4, <3>s, <3>2, <3>3 DEF Known
    <3> QED BY <2>4, <2>5, <3>4 DEF Outcome, Affected
  <2>6. "importWsl" \in DOMAIN x /\ IsText(x) BY <1>1, <2>3 DEF Fits
  <2>7. CASE x = f
    <3>1. Outcome("wsl_uma", t, e) = Keep /\ ~Affected("wsl_uma", t, e) BY <2>5, <2>6, <2>7 DEF f
    <3> QED BY <3>1, MendsPlain
  <2>8. CASE x # f
    <3>1. Outcome("wsl_uma", u, e) = Keep /\ ~Affected("wsl_uma", u, e) BY <1>2, <2>5, <2>6
    <3>2. Outcome("wsl_uma", t, e) = Write("mem", x) BY <1>3, <1>8, <2>8 DEF Outcome, Known
    <3> QED BY <2>3, <3>1, <3>2, MendsWrite DEF u, f
  <2> QED BY <2>7, <2>8
<1> QED BY <1>7, <1>8

-----------------------------------------------------------------------------
(* The scripts that add a helper and swap its caller. *)

LEMMA ScaleSwizzleMends ==
    ASSUME NEW t, NEW e, IsTree(t), Readable("scale_swizzle", t)
    PROVE  Mends("scale_swizzle", "b12x", t, e)
<1> DEFINE f == t.b12x
           P == {"reference"}
           S == {<<"old", "fixed">>}
           y == Add(f, P)
           x == Swap(y, S)
           u == [t EXCEPT !.b12x = x]
           helpers == f.old + f.fixed + f.direct + f.namesOld + f.foreign
           fresh == /\ f.exists # 0 /\ f.old = 1 /\ f.fixed = 0 /\ f.direct = 0 /\ f.namesOld = 0 /\ f.foreign = 0
                    /\ f.registry = 1 /\ f.entry = 1 /\ f.reference = 0 /\ f.decorated = 0
<1>1. /\ "b12x" \in DOMAIN t /\ IsText(f)
      /\ {"old", "fixed", "direct", "namesOld", "foreign", "stray", "registry",
          "entry", "reference", "decorated", "exists"} \subseteq DOMAIN f
  BY DEF Readable, Looks, IsTree, Sources, IsText
<1>2. \A p \in {"old", "fixed", "direct", "namesOld", "foreign", "stray", "registry",
                "entry", "reference", "decorated", "exists"} : f[p] \in Nat /\ (f.exists = 0 => f[p] = 0)
  BY <1>1 DEF IsText
<1>3. u.b12x = x BY <1>1
<1>4. S = {<<"old", "fixed">>} /\ P = {"reference"} OBVIOUS
<1>5. /\ helpers = 0 => f.old = 0 /\ f.fixed = 0 /\ f.direct = 0 /\ f.namesOld = 0 /\ f.foreign = 0
      /\ helpers = 1 =>
           \/ f.old = 1 /\ f.fixed = 0 /\ f.direct = 0 /\ f.namesOld = 0 /\ f.foreign = 0
           \/ f.old = 0 /\ f.fixed = 1 /\ f.direct = 0 /\ f.namesOld = 0 /\ f.foreign = 0
           \/ f.old = 0 /\ f.fixed = 0 /\ f.direct = 1 /\ f.namesOld = 0 /\ f.foreign = 0
           \/ f.old = 0 /\ f.fixed = 0 /\ f.direct = 0 /\ f.namesOld = 1 /\ f.foreign = 0
           \/ f.old = 0 /\ f.fixed = 0 /\ f.direct = 0 /\ f.namesOld = 0 /\ f.foreign = 1
  <2> DEFINE a == f.old  b == f.fixed  c == f.direct  d == f.namesOld  g == f.foreign
  <2>1. a \in Nat /\ b \in Nat /\ c \in Nat /\ d \in Nat /\ g \in Nat BY <1>2
  <2> HIDE DEF a, b, c, d, g
  <2>2. /\ a + b + c + d + g = 0 => a = 0 /\ b = 0 /\ c = 0 /\ d = 0 /\ g = 0
        /\ a + b + c + d + g = 1 =>
             \/ a = 1 /\ b = 0 /\ c = 0 /\ d = 0 /\ g = 0
             \/ a = 0 /\ b = 1 /\ c = 0 /\ d = 0 /\ g = 0
             \/ a = 0 /\ b = 0 /\ c = 1 /\ d = 0 /\ g = 0
             \/ a = 0 /\ b = 0 /\ c = 0 /\ d = 1 /\ g = 0
             \/ a = 0 /\ b = 0 /\ c = 0 /\ d = 0 /\ g = 1
    BY <2>1
  <2> QED BY <2>2 DEF a, b, c, d, g
<1> HIDE DEF S, P, u
<1>6. CASE fresh
  <2>1. /\ Fits(f, y)
        /\ \A p \in DOMAIN f : y[p] = IF p \in P THEN f[p] + 1 ELSE f[p]
    BY <1>1, <1>4, <1>6, AddFits
  <2>2. ScaleSwizzle(t) = Write("b12x", x) BY <1>6 DEF ScaleSwizzle, Known, S, P
  <2> HIDE DEF y
  <2>3. IsText(y) /\ DOMAIN y = DOMAIN f BY <2>1 DEF Fits
  <2>4. /\ y.old = 1 /\ y.fixed = 0 /\ y.direct = 0 /\ y.namesOld = 0 /\ y.foreign = 0
        /\ y.registry = 1 /\ y.entry = 1 /\ y.reference = 1 /\ y.exists # 0
    BY <1>1, <1>4, <1>6, <2>1
  <2>5. /\ DOMAIN x = DOMAIN y /\ IsFiniteSet(S)
        /\ \A p \in DOMAIN y : x[p] = y[p] + One(p, "fixed") - One(p, "old")
    BY <1>4, <2>3, SwapOne
  <2>6. \A r \in S : /\ r[1] # "exists" /\ r[2] # "exists" /\ y[r[1]] > 0
                     /\ \A w \in S : w[1] = r[1] => w = r
    BY <1>4, <2>4
  <2>7. Fits(y, x) BY <2>3, <2>4, <2>5, <2>6, SwapFits
  <2>8. Fits(f, x) BY <2>3, <2>7 DEF Fits
  <2> HIDE DEF x
  <2>v. \A p \in {"old", "fixed", "direct", "namesOld", "foreign", "registry", "entry", "reference", "exists"} :
          x[p] = y[p] + One(p, "fixed") - One(p, "old") /\ y[p] \in Nat
    BY <1>1, <2>3, <2>5 DEF IsText
  <2>w. /\ One("old", "fixed") = 0 /\ One("old", "old") = 1
        /\ One("fixed", "fixed") = 1 /\ One("fixed", "old") = 0
        /\ \A p \in {"direct", "namesOld", "foreign", "registry", "entry", "reference", "exists"} :
              One(p, "fixed") = 0 /\ One(p, "old") = 0
    BY DEF One
  <2>9. /\ x.old = 0 /\ x.fixed = 1 /\ x.direct = 0 /\ x.namesOld = 0 /\ x.foreign = 0
        /\ x.registry = 1 /\ x.entry = 1 /\ x.reference = 1
    <3>1. x.old = 0 BY <2>4, <2>v, <2>w
    <3>2. x.fixed = 1
      <4>1. x.fixed = y.fixed + One("fixed", "fixed") - One("fixed", "old") BY <2>v
      <4> QED BY <2>4, <2>w, <4>1
    <3>3. \A p \in {"direct", "namesOld", "foreign", "registry", "entry", "reference", "exists"} : x[p] = y[p]
      BY <2>v, <2>w
    <3> QED BY <2>4, <3>1, <3>2, <3>3
  <2>e. x.exists # 0
    <3>1. x.exists = y.exists BY <2>v, <2>w
    <3> QED BY <2>4, <3>1
  <2>10. ScaleSwizzle(u) = Keep
    <3>1. x.old + x.fixed + x.direct + x.namesOld + x.foreign = 1 /\ x.namesOld + x.foreign = 0 BY <2>9
    <3> QED BY <1>3, <2>9, <2>e, <3>1 DEF ScaleSwizzle, Known
  <2>11. ~Affected("scale_swizzle", u, e) BY <1>3, <2>9 DEF Affected
  <2>12. Outcome("scale_swizzle", u, e) = Keep /\ Outcome("scale_swizzle", t, e) = Write("b12x", x)
    BY <2>2, <2>10 DEF Outcome
  <2> QED BY <2>8, <2>11, <2>12, MendsWrite DEF u, f
<1>7. CASE ~fresh
  <2>1. ScaleSwizzle(t) = Refuse \/ (ScaleSwizzle(t) = Keep /\ f.old = 0 /\ f.namesOld = 0)
    <3>1. CASE f.exists = 0 \/ helpers = 0
      <4>1. ScaleSwizzle(t) = Keep BY <3>1 DEF ScaleSwizzle
      <4> QED BY <1>2, <1>5, <3>1, <4>1
    <3>2. CASE f.exists # 0 /\ helpers > 1
      <4>1. helpers # 0 BY <3>2
      <4> QED BY <3>2, <4>1 DEF ScaleSwizzle
    <3>3. CASE f.exists # 0 /\ helpers # 0 /\ ~(helpers > 1)
      <4>1. helpers \in Nat BY <1>2
      <4>2. helpers = 1 BY <3>3, <4>1
      <4> DEFINE rest ==
            IF f.namesOld + f.foreign = 1
             THEN Known(f.namesOld = 1 \/ f.stray > 0, Keep)
            ELSE IF f.registry # 1 THEN Refuse
            ELSE IF f.direct = 1 THEN Known(f.reference # 1, Keep)
            ELSE IF f.fixed = 1 THEN Known(f.reference # 1 \/ f.entry # 1, Keep)
            ELSE Known(f.entry # 1 \/ f.reference > 0 \/ f.decorated > 0, Write("b12x", x))
      <4>3. ScaleSwizzle(t) = rest BY <3>3 DEF ScaleSwizzle, S, P
      <4> HIDE DEF helpers, x
      <4>4. CASE f.namesOld + f.foreign = 1
        <5>1. f.old = 0 BY <1>5, <4>2, <4>4
        <5>2. f.namesOld = 0 \/ f.namesOld = 1 BY <1>5, <4>2
        <5> QED BY <4>3, <4>4, <5>1, <5>2 DEF Known
      <4>5. CASE f.namesOld + f.foreign # 1
        <5>1. f.namesOld = 0 BY <1>5, <4>2, <4>5
        <5>2. f.foreign = 0 BY <1>5, <4>2, <4>5
        <5>3. f.direct = 1 \/ f.fixed = 1 => f.old = 0 BY <1>5, <4>2
        <5>4. f.direct # 1 /\ f.fixed # 1 => f.old = 1 /\ f.direct = 0 /\ f.fixed = 0 BY <1>5, <4>2, <5>1, <5>2
        <5>5. f.reference \in Nat /\ f.decorated \in Nat BY <1>2
        <5> QED BY <1>7, <3>3, <4>3, <4>5, <5>1, <5>2, <5>3, <5>4, <5>5 DEF Known
      <4> QED BY <4>4, <4>5
    <3> QED BY <3>1, <3>2, <3>3
  <2>2. f.old = 0 /\ f.namesOld = 0 => ~Affected("scale_swizzle", t, e) BY DEF Affected
  <2>3. Outcome("scale_swizzle", t, e) = ScaleSwizzle(t) BY DEF Outcome
  <2> QED BY <2>1, <2>2, <2>3, MendsPlain
<1> QED BY <1>6, <1>7

LEMMA HybridDraftLoaderMends ==
    ASSUME NEW t, NEW e, IsTree(t), Readable("hybrid_draft_loader", t)
    PROVE  Mends("hybrid_draft_loader", "loader", t, e)
<1> DEFINE f == t.loader
           P == {"marker", "helper"}
           S == {<<"anchor", "uses">>}
           y == Add(f, P)
           x == Swap(y, S)
           u == [t EXCEPT !.loader = x]
           unknown == \/ f.exists = 0 \/ f.getModel = 0 \/ f.getLoader = 0
                      \/ (IF f.marker > 0 THEN f.helper = 0 \/ f.marker > 1 \/ f.uses = 0
                          ELSE f.anchor # 1)
<1>1. /\ "loader" \in DOMAIN t /\ IsText(f)
      /\ {"getModel", "getLoader", "helper", "marker", "uses", "anchor", "exists"} \subseteq DOMAIN f
  BY DEF Readable, Looks, IsTree, Sources, IsText
<1>2. \A p \in {"getModel", "getLoader", "helper", "marker", "uses", "anchor", "exists"} : f[p] \in Nat
  BY <1>1 DEF IsText
<1>3. u.loader = x BY <1>1
<1>4. S = {<<"anchor", "uses">>} /\ P = {"marker", "helper"} OBVIOUS
<1>5. HybridDraftLoader(t) = Known(unknown, IF f.marker > 0 THEN Keep ELSE Replace("loader", x))
  BY DEF HybridDraftLoader
<1> HIDE DEF S, P, u
<1>6. CASE unknown
  <2>1. Outcome("hybrid_draft_loader", t, e) = Refuse BY <1>5, <1>6 DEF Outcome, Known
  <2> QED BY <2>1, MendsPlain
<1>7. CASE ~unknown /\ f.marker > 0
  <2>1. Outcome("hybrid_draft_loader", t, e) = Keep BY <1>5, <1>7 DEF Outcome, Known
  <2>2. ~Affected("hybrid_draft_loader", t, e) BY <1>7 DEF Affected
  <2> QED BY <2>1, <2>2, MendsPlain
<1>8. CASE ~unknown /\ ~(f.marker > 0)
  <2>1. /\ Fits(f, y)
        /\ \A p \in DOMAIN f : y[p] = IF p \in P THEN f[p] + 1 ELSE f[p]
    BY <1>1, <1>4, <1>8, AddFits
  <2>2. HybridDraftLoader(t) = Replace("loader", x) BY <1>5, <1>8 DEF Known
  <2> HIDE DEF y
  <2>3. IsText(y) /\ DOMAIN y = DOMAIN f BY <2>1 DEF Fits
  <2>m. f.marker = 0 /\ f.exists # 0 /\ f.getModel # 0 /\ f.getLoader # 0 /\ f.anchor = 1 BY <1>2, <1>8
  <2>4. /\ y.marker = 1 /\ y.helper = f.helper + 1 /\ y.uses = f.uses /\ y.anchor = 1
        /\ y.exists = f.exists /\ y.getModel = f.getModel /\ y.getLoader = f.getLoader
    BY <1>1, <1>2, <1>4, <2>1, <2>m
  <2>5. /\ DOMAIN x = DOMAIN y /\ IsFiniteSet(S)
        /\ \A p \in DOMAIN y : x[p] = y[p] + One(p, "uses") - One(p, "anchor")
    BY <1>4, <2>3, SwapOne
  <2>6. \A r \in S : /\ r[1] # "exists" /\ r[2] # "exists" /\ y[r[1]] > 0
                     /\ \A w \in S : w[1] = r[1] => w = r
    BY <1>4, <2>4
  <2>7. Fits(y, x) BY <2>m, <2>3, <2>4, <2>5, <2>6, SwapFits
  <2>8. Fits(f, x) BY <2>3, <2>7 DEF Fits
  <2> HIDE DEF x
  <2>v. \A p \in {"getModel", "getLoader", "helper", "marker", "uses", "anchor", "exists"} :
          x[p] = y[p] + One(p, "uses") - One(p, "anchor") /\ y[p] \in Nat
    BY <1>1, <2>3, <2>5 DEF IsText
  <2>9. x.marker = 1 /\ x.helper = f.helper + 1 /\ x.uses = f.uses + 1
    BY <1>2, <2>4, <2>v DEF One
  <2>e. x.exists # 0 /\ x.getModel # 0 /\ x.getLoader # 0
    BY <1>2, <2>m, <2>4, <2>v DEF One
  <2>s. x.helper # 0 /\ x.uses # 0 BY <1>2, <2>9
  <2>10. HybridDraftLoader(u) = Keep
    BY <1>3, <2>9, <2>e, <2>s DEF HybridDraftLoader, Known
  <2>11. ~Affected("hybrid_draft_loader", u, e) BY <1>3, <2>s DEF Affected
  <2>12. Outcome("hybrid_draft_loader", u, e) = Keep
         /\ Outcome("hybrid_draft_loader", t, e) = Replace("loader", x)
    BY <2>2, <2>10 DEF Outcome
  <2> QED BY <2>8, <2>11, <2>12, MendsReplace DEF u, f
<1> QED BY <1>6, <1>7, <1>8

LEMMA ZeroCopyMends ==
    ASSUME NEW t, NEW e, IsTree(t), Readable("zero_copy", t)
    PROVE  Mends("zero_copy", "weights", t, e)
<1> DEFINE f == t.weights
           P == {"marker"}
           S == {<<"copyTrue", "copyFalse">>}
           y == Add(f, P)
           x == Swap(y, S)
           u == [t EXCEPT !.weights = x]
           copies == f.copyTrue + f.copyFalse + f.copyOther
           unknown == \/ f.exists = 0 \/ f.marker > 1
                      \/ f.iterator # 1 \/ f.safeOpen # 1 \/ copies # 1 \/ f.copyOther > 0
                      \/ f.copyFalse = 0 /\ f.marker > 0
<1>1. /\ "weights" \in DOMAIN t /\ IsText(f)
      /\ {"iterator", "safeOpen", "copyTrue", "copyFalse", "copyOther", "marker", "exists"} \subseteq DOMAIN f
  BY DEF Readable, Looks, IsTree, Sources, IsText
<1>2. \A p \in {"iterator", "safeOpen", "copyTrue", "copyFalse", "copyOther", "marker", "exists"} : f[p] \in Nat
  BY <1>1 DEF IsText
<1>3. u.weights = x BY <1>1
<1>4. S = {<<"copyTrue", "copyFalse">>} /\ P = {"marker"} OBVIOUS
<1>5. ZeroCopy(t) = Known(unknown, IF f.copyFalse = 1 THEN Keep ELSE Replace("weights", x))
  BY DEF ZeroCopy
<1>n. ~unknown => /\ f.exists # 0 /\ f.iterator = 1 /\ f.safeOpen = 1 /\ f.copyOther = 0
                  /\ (f.copyFalse = 1 => f.copyTrue = 0)
                  /\ (f.copyFalse # 1 => f.copyTrue = 1 /\ f.copyFalse = 0 /\ f.marker = 0)
  <2> SUFFICES ASSUME ~unknown
               PROVE  /\ f.exists # 0 /\ f.iterator = 1 /\ f.safeOpen = 1 /\ f.copyOther = 0
                      /\ (f.copyFalse = 1 => f.copyTrue = 0)
                      /\ (f.copyFalse # 1 => f.copyTrue = 1 /\ f.copyFalse = 0 /\ f.marker = 0)
    OBVIOUS
  <2>1. f.copyOther = 0 BY <1>2
  <2> DEFINE a == f.copyTrue  b == f.copyFalse
  <2>2. a \in Nat /\ b \in Nat /\ a + b = 1
    <3>1. a + b + f.copyOther = 1 OBVIOUS
    <3>2. a \in Nat /\ b \in Nat BY <1>2
    <3> HIDE DEF a, b
    <3> QED BY <2>1, <3>1, <3>2
  <2> HIDE DEF a, b
  <2>3. (b = 1 => a = 0) /\ (b # 1 => a = 1 /\ b = 0) BY <2>2
  <2> QED BY <1>2, <2>1, <2>3 DEF a, b
<1> HIDE DEF S, P, u
<1>6. CASE unknown
  <2>1. Outcome("zero_copy", t, e) = Refuse BY <1>5, <1>6 DEF Outcome, Known
  <2> QED BY <2>1, MendsPlain
<1>7. CASE ~unknown /\ f.copyFalse = 1
  <2>1. Outcome("zero_copy", t, e) = Keep BY <1>5, <1>7 DEF Outcome, Known
  <2>2. ~Affected("zero_copy", t, e) BY <1>n, <1>7 DEF Affected
  <2> QED BY <2>1, <2>2, MendsPlain
<1>8. CASE ~unknown /\ f.copyFalse # 1
  <2>m. /\ f.exists # 0 /\ f.iterator = 1 /\ f.safeOpen = 1 /\ f.copyOther = 0
        /\ f.copyTrue = 1 /\ f.copyFalse = 0 /\ f.marker = 0
    BY <1>n, <1>8
  <2>2. ZeroCopy(t) = Replace("weights", x) BY <1>5, <1>8 DEF Known
  <2> HIDE DEF unknown
  <2>1. /\ Fits(f, y)
        /\ \A p \in DOMAIN f : y[p] = IF p \in P THEN f[p] + 1 ELSE f[p]
    BY <1>1, <1>4, <2>m, AddFits
  <2> HIDE DEF y
  <2>3. IsText(y) /\ DOMAIN y = DOMAIN f BY <2>1 DEF Fits
  <2>4. /\ y.marker = 1 /\ y.copyTrue = 1 /\ y.copyFalse = 0 /\ y.copyOther = 0
        /\ y.exists # 0 /\ y.iterator = 1 /\ y.safeOpen = 1
    BY <1>1, <1>4, <2>1, <2>m
  <2>5. /\ DOMAIN x = DOMAIN y /\ IsFiniteSet(S)
        /\ \A p \in DOMAIN y : x[p] = y[p] + One(p, "copyFalse") - One(p, "copyTrue")
    BY <1>4, <2>3, SwapOne
  <2>6. \A r \in S : /\ r[1] # "exists" /\ r[2] # "exists" /\ y[r[1]] > 0
                     /\ \A w \in S : w[1] = r[1] => w = r
    BY <1>4, <2>4
  <2>7. Fits(y, x) BY <2>3, <2>4, <2>5, <2>6, SwapFits
  <2>8. Fits(f, x) BY <2>3, <2>7 DEF Fits
  <2> HIDE DEF x
  <2>v. \A p \in {"iterator", "safeOpen", "copyTrue", "copyFalse", "copyOther", "marker", "exists"} :
          x[p] = y[p] + One(p, "copyFalse") - One(p, "copyTrue") /\ y[p] \in Nat
    BY <1>1, <2>3, <2>5 DEF IsText
  <2>w. /\ One("copyTrue", "copyFalse") = 0 /\ One("copyTrue", "copyTrue") = 1
        /\ One("copyFalse", "copyFalse") = 1 /\ One("copyFalse", "copyTrue") = 0
        /\ \A p \in {"iterator", "safeOpen", "copyOther", "marker", "exists"} :
              One(p, "copyFalse") = 0 /\ One(p, "copyTrue") = 0
    BY DEF One
  <2>9. /\ x.marker = 1 /\ x.copyTrue = 0 /\ x.copyFalse = 1 /\ x.copyOther = 0
        /\ x.iterator = 1 /\ x.safeOpen = 1
    <3>1. x.copyTrue = y.copyTrue + One("copyTrue", "copyFalse") - One("copyTrue", "copyTrue")
          /\ x.copyFalse = y.copyFalse + One("copyFalse", "copyFalse") - One("copyFalse", "copyTrue")
      BY <2>v
    <3>2. x.copyTrue = 0 BY <2>4, <2>w, <3>1
    <3>3. x.copyFalse = 1 BY <2>4, <2>w, <3>1
    <3>4. \A p \in {"iterator", "safeOpen", "copyOther", "marker", "exists"} : x[p] = y[p]
      BY <2>v, <2>w
    <3> QED BY <2>4, <3>2, <3>3, <3>4
  <2>e. x.exists # 0 BY <2>4, <2>v, <2>w
  <2>10. ZeroCopy(u) = Keep
    <3>1. x.copyTrue + x.copyFalse + x.copyOther = 1 BY <2>9
    <3> QED BY <1>3, <2>9, <2>e, <3>1 DEF ZeroCopy, Known
  <2>11. ~Affected("zero_copy", u, e) BY <1>3, <2>9 DEF Affected
  <2>12. Outcome("zero_copy", u, e) = Keep /\ Outcome("zero_copy", t, e) = Replace("weights", x)
    BY <2>2, <2>10 DEF Outcome
  <2> QED BY <2>8, <2>11, <2>12, MendsReplace DEF u, f
<1> QED BY <1>6, <1>7, <1>8

-----------------------------------------------------------------------------
(* A script looks at its own files: what it decides does not depend on     *)
(* the others.                                                             *)

Files(s) == DOMAIN Looks(s)

(* What a script decides and what it leaves affected depends on its files. *)
LEMMA Frame ==
    ASSUME NEW s, NEW t, NEW u, NEW e, \A f \in Files(s) : u[f] = t[f]
    PROVE  Outcome(s, u, e) = Outcome(s, t, e) /\ (Affected(s, u, e) <=> Affected(s, t, e))
<1>1. CASE s = "swa_block_size"
  <2>1. u.attention = t.attention BY <1>1 DEF Files, Looks
  <2> QED BY <1>1, <2>1 DEF Outcome, Affected, SwaBlockSize
<1>2. CASE s = "mrv2_speculator"
  <2>1. u.profiler = t.profiler BY <1>2 DEF Files, Looks
  <2> QED BY <1>2, <2>1 DEF Outcome, Affected, Mrv2Speculator, Mrv2Fixed, Mrv2Affected
<1>3. CASE s = "c128a"
  <2>1. u.mla = t.mla /\ u.compressor = t.compressor BY <1>3 DEF Files, Looks
  <2> QED BY <1>3, <2>1 DEF Outcome, Affected, C128aAlignment
<1>4. CASE s = "topk_softplus"
  <2>1. u.ops = t.ops BY <1>4 DEF Files, Looks
  <2> QED BY <1>4, <2>1 DEF Outcome, Affected, TopkSoftplus
<1>5. CASE s = "sm12x"
  <2>1. u.cmake = t.cmake BY <1>5 DEF Files, Looks
  <2> QED BY <1>5, <2>1 DEF Outcome, Affected, PreserveSm12x
<1>6. CASE s = "diffusion"
  <2>1. u.attnUtils = t.attnUtils BY <1>6 DEF Files, Looks
  <2> QED BY <1>6, <2>1 DEF Outcome, Affected, DiffusionCausal
<1>7. CASE s = "gemma4"
  <2>1. u.proposer = t.proposer BY <1>7 DEF Files, Looks
  <2> QED BY <1>7, <2>1 DEF Outcome, Affected, Gemma4Embedding
<1>8. CASE s = "sm120_topk"
  <2>1. u.indexer = t.indexer BY <1>8 DEF Files, Looks
  <2> QED BY <1>8, <2>1 DEF Outcome, Affected, Sm120Topk
<1>9. CASE s = "autogptq"
  <2>1. u.autogptq = t.autogptq BY <1>9 DEF Files, Looks
  <2> QED BY <1>9, <2>1 DEF Outcome, Affected, AutogptqQzeros
<1>10. CASE s = "routed_experts"
  <2>1. u.routed = t.routed BY <1>10 DEF Files, Looks
  <2> QED BY <1>10, <2>1 DEF Outcome, Affected, RoutedExperts
<1>11. CASE s = "minimax"
  <2>1. u.minimax = t.minimax BY <1>11 DEF Files, Looks
  <2> QED BY <1>11, <2>1 DEF Outcome, Affected, MinimaxIpc
<1>12. CASE s = "loader_include_order"
  <2>1. u.storage = t.storage BY <1>12 DEF Files, Looks
  <2> QED BY <1>12, <2>1 DEF Outcome, Affected, LoaderIncludeOrder
<1>13. CASE s = "kv_cleanup"
  <2>1. u.worker = t.worker BY <1>13 DEF Files, Looks
  <2> QED BY <1>13, <2>1 DEF Outcome, Affected, KvCleanup
<1>14. CASE s = "heap_trim"
  <2>1. u.gc = t.gc BY <1>14 DEF Files, Looks
  <2> QED BY <1>14, <2>1 DEF Outcome, Affected, HeapTrim
<1>15. CASE s = "moe_tuning"
  <2>1. u.moe = t.moe BY <1>15 DEF Files, Looks
  <2> QED BY <1>15, <2>1 DEF Outcome, Affected, MoeTuning
<1>16. CASE s = "tuning_batch"
  <2>1. u.prepare = t.prepare BY <1>16 DEF Files, Looks
  <2> QED BY <1>16, <2>1 DEF Outcome, Affected, TuningBatch
<1>17. CASE s = "scale_swizzle"
  <2>1. u.b12x = t.b12x BY <1>17 DEF Files, Looks
  <2> QED BY <1>17, <2>1 DEF Outcome, Affected, ScaleSwizzle
<1>18. CASE s = "wsl_uma"
  <2>1. u.mem = t.mem BY <1>18 DEF Files, Looks
  <2> QED BY <1>18, <2>1 DEF Outcome, Affected, WslUma
<1>19. CASE s = "pin_cutlass"
  <2>1. u.requirements = t.requirements BY <1>19 DEF Files, Looks
  <2> QED BY <1>19, <2>1 DEF Outcome, Affected, PinCutlass
<1>20. CASE s = "instanttensor_memory"
  <2>1. u.impl = t.impl BY <1>20 DEF Files, Looks
  <2> QED BY <1>20, <2>1 DEF Outcome, Affected, InstantTensorMemory
<1>21. CASE s = "torch_schema"
  <2>1. u.library = t.library BY <1>21 DEF Files, Looks
  <2> QED BY <1>21, <2>1 DEF Outcome, Affected, TorchSchema
<1>22. CASE s = "hybrid_draft_loader"
  <2>1. u.loader = t.loader BY <1>22 DEF Files, Looks
  <2> QED BY <1>22, <2>1 DEF Outcome, Affected, HybridDraftLoader
<1>23. CASE s = "zero_copy"
  <2>1. u.weights = t.weights BY <1>23 DEF Files, Looks
  <2> QED BY <1>23, <2>1 DEF Outcome, Affected, ZeroCopy
<1>24. CASE s = "inkling"
  <2>1. u.inkling = t.inkling /\ u.vendor = t.vendor /\ u.adapter = t.adapter BY <1>24 DEF Files, Looks
  <2> QED BY <1>24, <2>1 DEF Outcome, Affected, InklingMod, InklingPatch
<1>25. CASE s = "qwen_router_gate"
  <2>1. u.qwen = t.qwen BY <1>25 DEF Files, Looks
  <2> QED BY <1>25, <2>1 DEF Outcome, Affected, QwenRouterGate
<1>26. CASE s = "rope_keys"
  <2>1. u.rope = t.rope BY <1>26 DEF Files, Looks
  <2> QED BY <1>26, <2>1 DEF Outcome, Affected, RopeKeys
<1>27. CASE s = "api_key_auth"
  <2>1. u.auth = t.auth /\ u.common = t.common /\ u.launchers = t.launchers BY <1>27 DEF Files, Looks
  <2> QED BY <1>27, <2>1 DEF Outcome, Affected, ApiKeyAuth
<1>28. CASE s = "swigluoai"
  <2>1. u.util = t.util /\ u.expert = t.expert /\ u.oracle = t.oracle BY <1>28 DEF Files, Looks
  <2> QED BY <1>28, <2>1 DEF Outcome, Affected, Swigluoai
<1>29. CASE s = "memory_profile"
  <2>1. u.worker = t.worker /\ u.gc = t.gc /\ u.serverUtils = t.serverUtils /\ u.apiServer = t.apiServer /\ u.helper = t.helper /\ u.manifest = t.manifest /\ u.directories = t.directories BY <1>29 DEF Files, Looks
  <2> DEFINE api == ApiFile(t)
             hooked(v) == {f \in {"worker", "gc", api} : Hooked(v[f])}
  <2>2. ApiFile(u) = api /\ api \in {"serverUtils", "apiServer"} /\ u[api] = t[api]
    BY <2>1 DEF ApiFile
  <2> HIDE DEF api
  <2>3. hooked(u) = hooked(t) BY <2>1, <2>2
  <2>4. ProfileWhole(u, hooked(u)) <=> ProfileWhole(t, hooked(t))
    BY <2>1, <2>2, <2>3 DEF ProfileWhole, api
  <2>5. MemoryProfile(u, e) = MemoryProfile(t, e)
    BY <2>1, <2>2, <2>3, <2>4 DEF MemoryProfile, api
  <2> QED BY <1>29, <2>5 DEF Outcome, Affected
<1>30. CASE s \notin {"swa_block_size", "mrv2_speculator", "c128a", "topk_softplus", "sm12x", "diffusion", "gemma4", "sm120_topk", "autogptq", "routed_experts", "minimax", "loader_include_order", "kv_cleanup", "heap_trim", "moe_tuning", "tuning_batch", "scale_swizzle", "wsl_uma", "pin_cutlass", "instanttensor_memory", "torch_schema", "hybrid_draft_loader", "zero_copy", "inkling", "qwen_router_gate", "rope_keys", "api_key_auth", "swigluoai", "memory_profile"}
  BY <1>30 DEF Outcome, Affected
<1> QED BY <1>1, <1>2, <1>3, <1>4, <1>5, <1>6, <1>7, <1>8, <1>9, <1>10, <1>11, <1>12, <1>13, <1>14, <1>15, <1>16, <1>17, <1>18, <1>19, <1>20, <1>21, <1>22, <1>23, <1>24, <1>25, <1>26, <1>27, <1>28, <1>29, <1>30

-----------------------------------------------------------------------------
(* Outcomes of several writes, and the trees in between. *)

Alike(f, old, new) ==
    DOMAIN new = DOMAIN old /\ (f \notin {"directories", "manifest"} => IsText(new))

(* The writes of an outcome, one before the others. *)
Ordered(y) ==
    y \in Seq(ToSet(y)) /\ \A i, j \in 1 .. Len(y) : y[i].file = y[j].file => i = j

LEMMA NoWrite == Ordered(<<>>) /\ ToSet(<<>>) = {} /\ Len(<<>>) = 0
BY DEF Ordered, ToSet

LEMMA OneWrite == ASSUME NEW w PROVE Ordered(<<w>>) /\ ToSet(<<w>>) = {w} /\ Len(<<w>>) = 1 /\ <<w>>[1] = w
<1>1. ToSet(<<w>>) = {w} /\ Len(<<w>>) = 1 /\ <<w>> \in Seq({w}) /\ <<w>>[1] = w BY DEF ToSet
<1> QED BY <1>1 DEF Ordered

Prepended(w, y) == <<w>> \o y

LEMMA ConsFacts ==
    ASSUME NEW w, NEW y, Ordered(y), \A v \in ToSet(y) : v.file # w.file
    PROVE  /\ Ordered(Prepended(w, y)) /\ Len(Prepended(w, y)) = Len(y) + 1 /\ Prepended(w, y)[1] = w
           /\ \A v : v \in ToSet(Prepended(w, y)) <=> v = w \/ v \in ToSet(y)
           /\ \A i \in 1 .. Len(y) : Prepended(w, y)[i + 1] = y[i]
<1> DEFINE z == <<w>> \o y
<1>c. Prepended(w, y) = z BY DEF Prepended
<1> DEFINE S == {w} \cup ToSet(y)
<1>1. y \in Seq(S) /\ w \in S
  <2>1. y \in Seq(ToSet(y)) BY DEF Ordered
  <2> QED BY <2>1
<1>y. \A i \in 1 .. Len(y) : y[i] \in ToSet(y)
  <2>1. DOMAIN y = 1 .. Len(y) BY <1>1
  <2> QED BY <2>1 DEF ToSet
<1>d. \A v \in ToSet(y) : \E i \in 1 .. Len(y) : v = y[i]
  <2>1. DOMAIN y = 1 .. Len(y) BY <1>1
  <2> QED BY <2>1 DEF ToSet
<1> HIDE DEF S
<1>2. z \in Seq(S) /\ Len(z) = Len(y) + 1 /\ z[1] = w /\ \A i \in 1 .. Len(y) : z[i + 1] = y[i]
  BY <1>1
<1> HIDE DEF z
<1>l. Len(y) \in Nat BY <1>1
<1>z. DOMAIN z = 1 .. Len(y) + 1 BY <1>2
<1>3. ToSet(z) \subseteq S BY <1>2 DEF ToSet
<1>4. S \subseteq ToSet(z)
  <2>1. 1 \in DOMAIN z /\ \A i \in 1 .. Len(y) : i + 1 \in DOMAIN z BY <1>l, <1>z
  <2>2. w \in ToSet(z) BY <1>2, <2>1 DEF ToSet
  <2>3. ASSUME NEW v \in ToSet(y) PROVE v \in ToSet(z)
    <3>1. PICK i \in 1 .. Len(y) : v = y[i] BY <1>d
    <3>2. i + 1 \in DOMAIN z /\ z[i + 1] = v BY <1>2, <2>1, <3>1
    <3> QED BY <3>2 DEF ToSet
  <2> QED BY <2>2, <2>3 DEF S
<1>5. ToSet(z) = S BY <1>3, <1>4
<1>6. ASSUME NEW i \in 1 .. Len(z), NEW j \in 1 .. Len(z), z[i].file = z[j].file PROVE i = j
  <2>1. \A k \in 1 .. Len(z) : k = 1 \/ (k - 1 \in 1 .. Len(y) /\ z[k] = y[k - 1])
    <3> SUFFICES ASSUME NEW k \in 1 .. Len(z), k # 1 PROVE k - 1 \in 1 .. Len(y) /\ z[k] = y[k - 1]
      OBVIOUS
    <3>1. k - 1 \in 1 .. Len(y) /\ (k - 1) + 1 = k BY <1>2, <1>l
    <3>2. z[(k - 1) + 1] = y[k - 1] BY <1>2, <3>1
    <3> QED BY <3>1, <3>2
  <2>2. CASE i = 1 /\ j # 1
    <3>1. z[j] \in ToSet(y) BY <1>y, <2>1, <2>2
    <3> QED BY <1>2, <1>6, <2>2, <3>1
  <2>3. CASE i # 1 /\ j = 1
    <3>1. z[i] \in ToSet(y) BY <1>y, <2>1, <2>3
    <3> QED BY <1>2, <1>6, <2>3, <3>1
  <2>4. CASE i # 1 /\ j # 1
    <3> DEFINE a == i - 1  b == j - 1
    <3>1. a \in 1 .. Len(y) /\ b \in 1 .. Len(y) /\ z[i] = y[a] /\ z[j] = y[b] BY <2>1, <2>4
    <3>2. y[a].file = y[b].file BY <1>6, <3>1
    <3>3. a = b
      <4> HIDE DEF a, b
      <4> QED BY <3>1, <3>2 DEF Ordered
    <3> QED BY <3>3
  <2> QED BY <2>2, <2>3, <2>4
<1>7. Ordered(z) BY <1>2, <1>5, <1>6 DEF Ordered
<1> QED BY <1>2, <1>5, <1>7, <1>c DEF S

LEMMA MoreWrites ==
    ASSUME NEW w, NEW y, Ordered(y), \A v \in ToSet(y) : v.file # w.file
    PROVE  Ordered(Prepended(w, y)) /\ \A v : v \in ToSet(Prepended(w, y)) <=> v = w \/ v \in ToSet(y)
BY ConsFacts
(* A tree some of the writes of an outcome have been made on, and all.     *)
Between(o, t, v) ==
    /\ DOMAIN v = DOMAIN t /\ v = [f \in DOMAIN v |-> v[f]]
    /\ \A f \in DOMAIN t :
          v[f] = t[f] \/ \E w \in ToSet(o.writes) : w.file = f /\ w.text = v[f]
Applied(o, t, v) == Between(o, t, v) /\ \A w \in ToSet(o.writes) : v[w.file] = w.text

Sound(s, t, e) ==
    LET o == Outcome(s, t, e)
    IN  \/ o = Refuse
        \/ /\ ~o.refused /\ Ordered(o.writes)
           /\ \A w \in ToSet(o.writes) :
                 w.file \in Files(s) /\ w.file \in DOMAIN t /\ Alike(w.file, t[w.file], w.text)
           /\ \A u : Applied(o, t, u) => Good(s, u, e)

LEMMA GoodFrame ==
    ASSUME NEW s, NEW t, NEW u, NEW e, \A f \in Files(s) : u[f] = t[f],
           \A w \in ToSet(Outcome(s, t, e).writes) : w.file \in Files(s),
           Good(s, t, e)
    PROVE  Good(s, u, e)
<1>1. Outcome(s, u, e) = Outcome(s, t, e) /\ ~Affected(s, u, e)
  BY Frame DEF Good
<1>2. s # "api_key_auth" => Settled(s, u, e)
  BY <1>1 DEF Good, Settled
<1>3. s = "memory_profile" =>
          /\ u.worker.hook = 1 /\ u.gc.hook = 1 /\ u[ApiFile(u)].hook = 1
          /\ u.helper.whole = 1 /\ u.manifest.run \in u.directories.runs
          /\ e.run \in {0, u.manifest.run}
  <2> SUFFICES ASSUME s = "memory_profile"
               PROVE  /\ u.worker.hook = 1 /\ u.gc.hook = 1 /\ u[ApiFile(u)].hook = 1
                      /\ u.helper.whole = 1 /\ u.manifest.run \in u.directories.runs
                      /\ e.run \in {0, u.manifest.run}
    OBVIOUS
  <2>1. /\ u.worker = t.worker /\ u.gc = t.gc /\ u.serverUtils = t.serverUtils
        /\ u.apiServer = t.apiServer /\ u.helper = t.helper /\ u.manifest = t.manifest
        /\ u.directories = t.directories
    BY DEF Files, Looks
  <2>2. u[ApiFile(u)] = t[ApiFile(t)] BY <2>1 DEF ApiFile
  <2> QED BY <2>1, <2>2 DEF Good
<1>4. s = "inkling" /\ u.inkling.adapter > 0 => u.vendor.whole = 1 /\ u.adapter.whole = 1
  <2> SUFFICES ASSUME s = "inkling", u.inkling.adapter > 0
               PROVE  u.vendor.whole = 1 /\ u.adapter.whole = 1
    OBVIOUS
  <2>1. u.inkling = t.inkling /\ u.vendor = t.vendor /\ u.adapter = t.adapter
    BY DEF Files, Looks
  <2> QED BY <2>1 DEF Good
<1> QED BY <1>1, <1>2, <1>3, <1>4 DEF Good

LEMMA KeepSound ==
    ASSUME NEW s, NEW t, NEW e, IsTree(t), Outcome(s, t, e) = Keep, Good(s, t, e)
    PROVE  Sound(s, t, e)
<1>1. ~Keep.refused /\ Keep.writes = <<>> BY DEF Keep
<1>2. ToSet(Keep.writes) = {} /\ Ordered(Keep.writes)
  BY <1>1, NoWrite
<1>3. ASSUME NEW u, Applied(Keep, t, u) PROVE u = t
  BY <1>2, <1>3 DEF Applied, Between, IsTree
<1> QED BY <1>1, <1>2, <1>3 DEF Sound

LEMMA MendsSound ==
    ASSUME NEW s, NEW F, NEW t, NEW e, Mends(s, F, t, e), IsTree(t), F \in Files(s), F \in Sources(t)
    PROVE  Sound(s, t, e)
<1> DEFINE o == Outcome(s, t, e)
<1>1. CASE o = Refuse BY <1>1 DEF Sound
<1>2. CASE o = Keep /\ Good(s, t, e) BY <1>2, KeepSound
<1>3. ASSUME NEW x, NEW b,
             o = [refused |-> FALSE, writes |-> <<[file |-> F, text |-> x, atomic |-> b]>>],
             Fits(t[F], x), Good(s, [t EXCEPT ![F] = x], e)
      PROVE  Sound(s, t, e)
  <2> DEFINE w == [file |-> F, text |-> x, atomic |-> b]
  <2>1. w.file = F /\ w.text = x OBVIOUS
  <2>2. o = [refused |-> FALSE, writes |-> <<w>>] BY <1>3
  <2> HIDE DEF w, o
  <2>3. ~o.refused /\ ToSet(o.writes) = {w} BY <2>2, SingleWrite
  <2>4. Ordered(o.writes)
    <3>1. o.writes = <<w>> BY <2>2
    <3> QED BY <3>1, OneWrite
  <2>5. F \in DOMAIN t /\ Alike(F, t[F], x) BY <1>3 DEF Alike, Fits, Sources
  <2>6. ASSUME NEW u, Applied(o, t, u) PROVE Good(s, u, e)
    <3>1. DOMAIN u = DOMAIN t /\ u = [f \in DOMAIN u |-> u[f]] BY <2>6 DEF Applied, Between
    <3>2. u[F] = x BY <2>1, <2>3, <2>6 DEF Applied
    <3>3. \A f \in DOMAIN t \ {F} : u[f] = t[f] BY <2>1, <2>3, <2>6 DEF Applied, Between
    <3>4. u = [t EXCEPT ![F] = x] BY <2>5, <3>1, <3>2, <3>3 DEF IsTree
    <3> QED BY <1>3, <3>4
  <2>7. \A v \in ToSet(o.writes) : v.file \in Files(s) /\ v.file \in DOMAIN t /\ Alike(v.file, t[v.file], v.text)
    BY <2>1, <2>3, <2>5
  <2> QED BY <2>3, <2>4, <2>6, <2>7 DEF Sound, o
<1> QED BY <1>1, <1>2, <1>3 DEF Mends

-----------------------------------------------------------------------------
(* The API-key patch and the Inkling mod, of two and of three files. *)

LEMMA PairWrites ==
    ASSUME NEW w1, NEW w2, w1.file # w2.file, NEW z, z = <<w1>> \o <<w2>>
    PROVE  Ordered(z) /\ ToSet(z) = {w1, w2}
<1> DEFINE y == <<w2>>
<1>1. Ordered(y) /\ ToSet(y) = {w2} BY OneWrite
<1>2. z = Prepended(w1, y) BY DEF Prepended
<1> HIDE DEF y
<1>3. \A v \in ToSet(y) : v.file # w1.file BY <1>1
<1>4. Ordered(Prepended(w1, y)) /\ \A v : v \in ToSet(Prepended(w1, y)) <=> v = w1 \/ v \in ToSet(y)
  BY <1>1, <1>3, MoreWrites
<1> QED BY <1>1, <1>2, <1>4

LEMMA TripleWrites ==
    ASSUME NEW w1, NEW w2, NEW w3, w1.file # w2.file, w1.file # w3.file, w2.file # w3.file,
           NEW z, z = <<w1>> \o (<<w2>> \o <<w3>>)
    PROVE  Ordered(z) /\ ToSet(z) = {w1, w2, w3}
<1> DEFINE y == <<w2>> \o <<w3>>
<1>1. Ordered(y) /\ ToSet(y) = {w2, w3} BY PairWrites
<1>2. z = Prepended(w1, y) BY DEF Prepended
<1> HIDE DEF y
<1>3. \A v \in ToSet(y) : v.file # w1.file BY <1>1
<1>4. Ordered(Prepended(w1, y)) /\ \A v : v \in ToSet(Prepended(w1, y)) <=> v = w1 \/ v \in ToSet(y)
  BY <1>1, <1>3, MoreWrites
<1> QED BY <1>1, <1>2, <1>4

LEMMA Parts ==
    /\ \A a, b : Then(a, b).writes = a.writes \o b.writes
    /\ \A a, b : Then(a, b).refused <=> a.refused \/ b.refused
    /\ \A f, x : /\ Write(f, x).writes = <<[file |-> f, text |-> x, atomic |-> FALSE]>>
                 /\ ~Write(f, x).refused
    /\ \A f, x : /\ Replace(f, x).writes = <<[file |-> f, text |-> x, atomic |-> TRUE]>>
                 /\ ~Replace(f, x).refused
    /\ Keep.writes = <<>> /\ ~Keep.refused
BY DEF Then, Write, Replace, Keep

LEMMA ApiKeyAuthSound ==
    ASSUME NEW t, NEW e, IsTree(t), Readable("api_key_auth", t)
    PROVE  Sound("api_key_auth", t, e)
<1> DEFINE cli == IF t.common.exists = 1 THEN "common" ELSE "launchers"
           old == {"guard", "call", "notes"}
           P == {<<p, "fixed">> : p \in old}
           Q == {<<"help", "fixed">>}
           x == Swap(t.auth, P)
           y == Swap(t[cli], Q)
           unknown == t[cli].exists = 0 \/ ~Once(t.auth, old) \/ t[cli].help # 1
           o == Outcome("api_key_auth", t, e)
<1>1. /\ "auth" \in DOMAIN t /\ cli \in DOMAIN t /\ cli # "auth"
      /\ {"auth", cli} \subseteq Files("api_key_auth") /\ cli \notin {"directories", "manifest"}
      /\ IsText(t.auth) /\ IsText(t[cli])
      /\ {"guard", "call", "notes", "fixed", "exists"} \subseteq DOMAIN t.auth
      /\ {"help", "fixed", "exists"} \subseteq DOMAIN t[cli]
  <2>1. {"auth", "common", "launchers"} \subseteq DOMAIN t BY DEF Readable, Looks
  <2>2. IsText(t.auth) /\ IsText(t.common) /\ IsText(t.launchers) BY <2>1 DEF IsTree, Sources
  <2>3. Files("api_key_auth") = {"auth", "common", "launchers"} BY DEF Files, Looks
  <2>4. /\ {"guard", "call", "notes", "fixed"} \subseteq DOMAIN t.auth
        /\ {"help", "fixed"} \subseteq DOMAIN t.common /\ {"help", "fixed"} \subseteq DOMAIN t.launchers
    BY DEF Readable, Looks
  <2> QED BY <2>1, <2>2, <2>3, <2>4 DEF IsText
<1>2. P = {<<"guard", "fixed">>, <<"call", "fixed">>, <<"notes", "fixed">>} /\ Q = {<<"help", "fixed">>}
  OBVIOUS
<1>3. o = IF t.auth.exists = 0 THEN Keep
          ELSE Known(unknown, Then(Write("auth", x), Write(cli, y)))
  BY DEF Outcome, ApiKeyAuth
<1> HIDE DEF cli, P, Q, o
<1>4. CASE t.auth.exists = 0
  <2>1. t.auth.guard = 0 /\ t.auth.call = 0 BY <1>1, <1>4 DEF IsText
  <2>2. Good("api_key_auth", t, e) BY <2>1 DEF Good, Affected
  <2> QED BY <1>3, <1>4, <2>2, KeepSound DEF o
<1>5. CASE t.auth.exists # 0 /\ unknown
  BY <1>3, <1>5 DEF Known, Sound, o
<1>6. CASE t.auth.exists # 0 /\ ~unknown
  <2>1. t.auth.guard = 1 /\ t.auth.call = 1 /\ t.auth.notes = 1 /\ t[cli].help = 1 /\ t[cli].exists # 0
    BY <1>6 DEF Once
  <2>2. /\ DOMAIN x = DOMAIN t.auth /\ IsFiniteSet(P)
        /\ \A p \in DOMAIN t.auth :
              x[p] = t.auth[p] + One(p, "fixed") - One(p, "guard") + One(p, "fixed") - One(p, "call")
                               + One(p, "fixed") - One(p, "notes")
    BY <1>1, <1>2, SwapThree
  <2>3. \A r \in P : /\ r[1] # "exists" /\ r[2] # "exists" /\ t.auth[r[1]] > 0
                     /\ \A w \in P : w[1] = r[1] => w = r
    BY <1>2, <2>1
  <2>4. Fits(t.auth, x) BY <1>1, <1>6, <2>2, <2>3, SwapFits
  <2>5. DOMAIN y = DOMAIN t[cli] /\ IsFiniteSet(Q)
    <3> DEFINE g == t[cli]
    <3>1. IsText(g) BY <1>1
    <3> HIDE DEF g
    <3>2. DOMAIN Swap(g, Q) = DOMAIN g /\ IsFiniteSet(Q) BY <1>2, <3>1, SwapOne, ZenonT(40)
    <3> QED BY <3>2 DEF g
  <2>6. \A r \in Q : /\ r[1] # "exists" /\ r[2] # "exists" /\ t[cli][r[1]] > 0
                     /\ \A w \in Q : w[1] = r[1] => w = r
    BY <1>2, <2>1
  <2>7. Fits(t[cli], y) BY <1>1, <2>1, <2>5, <2>6, SwapFits
  <2>8. x.guard = 0 /\ x.call = 0
    <3>1. /\ x.guard = t.auth.guard + 0 - 1 + 0 - 0 + 0 - 0
          /\ x.call = t.auth.call + 0 - 0 + 0 - 1 + 0 - 0
      BY <1>1, <2>2 DEF One
    <3> QED BY <2>1, <3>1
  <2> DEFINE w1 == [file |-> "auth", text |-> x, atomic |-> FALSE]
             w2 == [file |-> cli, text |-> y, atomic |-> FALSE]
  <2>9. ~o.refused /\ o.writes = <<w1>> \o <<w2>>
    BY <1>3, <1>6 DEF Known, Then, Write
  <2> HIDE DEF x, y
  <2>10. w1.file = "auth" /\ w1.text = x /\ w2.file = cli /\ w2.text = y OBVIOUS
  <2> HIDE DEF w1, w2
  <2>11. Ordered(o.writes) /\ ToSet(o.writes) = {w1, w2}
    BY <1>1, <2>9, <2>10, PairWrites
  <2>12. \A w \in ToSet(o.writes) :
           w.file \in Files("api_key_auth") /\ w.file \in DOMAIN t /\ Alike(w.file, t[w.file], w.text)
    BY <1>1, <2>4, <2>7, <2>10, <2>11 DEF Alike, Fits
  <2>13. ASSUME NEW u, Applied(o, t, u) PROVE Good("api_key_auth", u, e)
    <3>1. u.auth = x BY <2>10, <2>11, <2>13 DEF Applied
    <3> QED BY <2>8, <3>1 DEF Good, Affected
  <2> QED BY <2>9, <2>11, <2>12, <2>13 DEF Sound, o
<1> QED BY <1>4, <1>5, <1>6

LEMMA InklingSound ==
    ASSUME NEW t, NEW e, IsTree(t), Readable("inkling", t),
           DOMAIN t.vendor = {"exists", "whole"}, DOMAIN t.adapter = {"exists", "whole"}
    PROVE  Sound("inkling", t, e)
<1> DEFINE f == t.inkling
           dispatch == IF f.upstream > 0 THEN "upstream" ELSE "legacy"
           P == {<<"helper", "marker">>, <<dispatch, "adapter">>, <<"seqlen", "-">>, <<"split", "-">>}
           x == Swap(f, P)
           made == [exists |-> 1, whole |-> 1]
           unknown == \/ f.exists = 0 \/ f.functions = 0
                      \/ (IF f.marker > 0 THEN f.adapter = 0
                          ELSE ~Once(f, {"helper", "seqlen", "split"}) \/ f[dispatch] # 1)
           patch == InklingPatch(t)
           o == Outcome("inkling", t, e)
           w1 == [file |-> "vendor", text |-> made, atomic |-> FALSE]
           w2 == [file |-> "adapter", text |-> made, atomic |-> FALSE]
           w3 == [file |-> "inkling", text |-> x, atomic |-> TRUE]
<1>1. /\ {"inkling", "vendor", "adapter"} \subseteq DOMAIN t /\ IsText(f)
      /\ {"functions", "marker", "adapter", "helper", "seqlen", "split", "upstream", "legacy", "exists"}
            \subseteq DOMAIN f
  BY DEF Readable, Looks, IsTree, Sources, IsText
<1>2. \A p \in {"functions", "marker", "adapter", "helper", "seqlen", "split", "upstream", "legacy", "exists"} :
        f[p] \in Nat
  BY <1>1 DEF IsText
<1>3. patch = Known(unknown, IF f.marker > 0 THEN Keep ELSE Replace("inkling", x))
  BY DEF InklingPatch
<1>4. o = Known(patch.refused, Then(Write("vendor", made), Then(Write("adapter", made), patch)))
  BY DEF Outcome, InklingMod
<1>5. Files("inkling") = {"inkling", "vendor", "adapter"} BY DEF Files, Looks
<1>6. /\ made.whole = 1 /\ made.exists = 1 /\ IsText(made) /\ DOMAIN made = {"exists", "whole"}
  BY DEF IsText
<1>7. /\ w1.file = "vendor" /\ w1.text = made /\ w2.file = "adapter" /\ w2.text = made
      /\ w3.file = "inkling" /\ w3.text = x
  OBVIOUS
<1>8. P = {<<"helper", "marker">>, <<dispatch, "adapter">>, <<"seqlen", "-">>, <<"split", "-">>}
      /\ dispatch \in {"upstream", "legacy"}
  OBVIOUS
<1>9. CASE unknown
  <2>1. patch = Refuse BY <1>3, <1>9 DEF Known
  <2>2. o = Refuse BY <1>4, <2>1 DEF Known, Refuse
  <2> QED BY <2>2 DEF Sound
<1>10. CASE ~unknown /\ f.marker > 0
  <2>1. patch = Keep BY <1>3, <1>10 DEF Known
  <2>2. ~o.refused /\ o.writes = <<w1>> \o (<<w2>> \o <<>>)
    <3>1. ~patch.refused /\ patch.writes = <<>> BY <2>1, Parts
    <3> DEFINE b == Write("adapter", made)
               a == Write("vendor", made)
               rest == Then(b, patch)
    <3>2. ~a.refused /\ a.writes = <<w1>> /\ ~b.refused /\ b.writes = <<w2>> BY Parts
    <3>3. o = Then(a, rest) BY <1>4, <3>1 DEF Known
    <3> HIDE DEF a, b, patch, o
    <3>4. ~rest.refused /\ rest.writes = b.writes \o patch.writes BY <3>1, <3>2, Parts, ZenonT(40)
    <3> HIDE DEF rest
    <3>5. ~o.refused /\ o.writes = a.writes \o rest.writes BY <3>2, <3>3, <3>4, Parts
    <3> QED BY <3>1, <3>2, <3>4, <3>5
  <2> HIDE DEF w1, w2, w3, made, o, P
  <2>3. <<w2>> \o <<>> = <<w2>> OBVIOUS
  <2>4. Ordered(o.writes) /\ ToSet(o.writes) = {w1, w2}
    <3>1. o.writes = <<w1>> \o <<w2>> BY <2>2, <2>3
    <3> QED BY <1>7, <3>1, PairWrites
  <2>5. \A w \in ToSet(o.writes) :
           w.file \in Files("inkling") /\ w.file \in DOMAIN t /\ Alike(w.file, t[w.file], w.text)
    BY <1>1, <1>5, <1>6, <1>7, <2>4 DEF Alike
  <2>6. ASSUME NEW u, Applied(o, t, u) PROVE Good("inkling", u, e)
    <3>1. u.vendor = made /\ u.adapter = made BY <1>7, <2>4, <2>6 DEF Applied
    <3>2. u.inkling = f BY <1>1, <1>7, <2>4, <2>6 DEF Applied, Between
    <3>3. InklingPatch(u) = Keep BY <1>10, <3>2 DEF InklingPatch, Known
    <3>4. ~InklingMod(u).refused BY <3>3, Parts DEF InklingMod, Known
    <3>5. ~Outcome("inkling", u, e).refused BY <3>4 DEF Outcome
    <3>6. ~Affected("inkling", u, e) BY <1>10, <3>2 DEF Affected
    <3> QED BY <1>6, <3>1, <3>5, <3>6 DEF Good, Settled
  <2> QED BY <2>2, <2>4, <2>5, <2>6 DEF Sound, o
<1>11. CASE ~unknown /\ ~(f.marker > 0)
  <2>1. patch = Replace("inkling", x) BY <1>3, <1>11 DEF Known
  <2>2. ~o.refused /\ o.writes = <<w1>> \o (<<w2>> \o <<w3>>)
    <3>1. ~patch.refused /\ patch.writes = <<w3>>
      <4> HIDE DEF x
      <4>1. Replace("inkling", x).writes = <<w3>> BY Parts
      <4> HIDE DEF w3
      <4> QED BY <2>1, <4>1, Parts
    <3> DEFINE b == Write("adapter", made)
               a == Write("vendor", made)
               rest == Then(b, patch)
    <3>2. ~a.refused /\ a.writes = <<w1>> /\ ~b.refused /\ b.writes = <<w2>> BY Parts
    <3>3. o = Then(a, rest) BY <1>4, <3>1 DEF Known
    <3> HIDE DEF a, b, patch, o
    <3>4. ~rest.refused /\ rest.writes = b.writes \o patch.writes BY <3>1, <3>2, Parts, ZenonT(40)
    <3> HIDE DEF rest
    <3>5. ~o.refused /\ o.writes = a.writes \o rest.writes BY <3>2, <3>3, <3>4, Parts
    <3> QED BY <3>1, <3>2, <3>4, <3>5
  <2>m. /\ f.marker = 0 /\ f.exists # 0 /\ f.functions # 0 /\ f.helper = 1 /\ f.seqlen = 1 /\ f.split = 1
        /\ f[dispatch] = 1
    BY <1>2, <1>11 DEF Once
  <2> HIDE DEF w1, w2, w3, made, o, P, dispatch, f
  <2>s. /\ DOMAIN x = DOMAIN f /\ IsFiniteSet(P)
        /\ \A p \in DOMAIN f :
              x[p] = f[p] + One(p, "marker") - One(p, "helper") + One(p, "adapter") - One(p, dispatch)
                          + One(p, "-") - One(p, "seqlen") + One(p, "-") - One(p, "split")
    <3> DEFINE a == "helper"  c == "seqlen"  d == "split"  none == "-"  m == "marker"  n == "adapter"
    <3>1. /\ a # dispatch /\ a # c /\ dispatch # c /\ a # d /\ dispatch # d /\ c # d
          /\ P = {<<a, m>>, <<dispatch, n>>, <<c, none>>, <<d, none>>}
      BY <1>8
    <3>0. IsText(f) BY <1>1
    <3> HIDE DEF a, c, d, none, m, n
    <3>2. /\ DOMAIN x = DOMAIN f /\ IsFiniteSet(P)
          /\ \A p \in DOMAIN f :
                x[p] = f[p] + One(p, m) - One(p, a) + One(p, n) - One(p, dispatch)
                            + One(p, none) - One(p, c) + One(p, none) - One(p, d)
      BY <3>0, <3>1, SwapFour
    <3> QED BY <3>2 DEF a, c, d, none, m, n
  <2>r. \A r \in P : /\ r[1] # "exists" /\ r[2] # "exists" /\ f[r[1]] > 0
                     /\ \A w \in P : w[1] = r[1] => w = r
    BY <1>8, <2>m
  <2>f. Fits(f, x) BY <1>1, <2>m, <2>s, <2>r, SwapFits
  <2> HIDE DEF x
  <2>v. x.marker = 1 /\ x.adapter = f.adapter + 1 /\ x.exists = f.exists /\ x.functions = f.functions
    <3>1. \A p \in {"marker", "adapter", "exists", "functions"} :
            /\ x[p] = f[p] + One(p, "marker") - One(p, "helper") + One(p, "adapter") - One(p, dispatch)
                           + One(p, "-") - One(p, "seqlen") + One(p, "-") - One(p, "split")
            /\ One(p, "helper") = 0 /\ One(p, dispatch) = 0 /\ One(p, "-") = 0 /\ One(p, "seqlen") = 0
            /\ One(p, "split") = 0
      BY <1>1, <1>8, <2>s DEF One
    <3>2. \A p \in {"marker", "adapter", "exists", "functions"} :
            x[p] = f[p] + One(p, "marker") + One(p, "adapter")
      <4> SUFFICES ASSUME NEW p \in {"marker", "adapter", "exists", "functions"}
                   PROVE  x[p] = f[p] + One(p, "marker") + One(p, "adapter")
        OBVIOUS
      <4>1. f[p] \in Nat BY <1>2
      <4>2. One(p, "marker") \in Nat /\ One(p, "adapter") \in Nat BY DEF One
      <4> QED BY <3>1, <4>1, <4>2
    <3> QED BY <1>2, <2>m, <3>2 DEF One
  <2>3. Ordered(o.writes) /\ ToSet(o.writes) = {w1, w2, w3}
    BY <1>7, <2>2, TripleWrites
  <2>4. \A w \in ToSet(o.writes) :
           w.file \in Files("inkling") /\ w.file \in DOMAIN t /\ Alike(w.file, t[w.file], w.text)
    BY <1>1, <1>5, <1>6, <1>7, <2>3, <2>f DEF Alike, Fits, f
  <2>5. ASSUME NEW u, Applied(o, t, u) PROVE Good("inkling", u, e)
    <3>1. u.vendor = made /\ u.adapter = made /\ u.inkling = x BY <1>7, <2>3, <2>5 DEF Applied
    <3>a. x.adapter # 0 /\ x.exists # 0 /\ x.functions # 0 /\ x.marker > 0 BY <1>2, <2>m, <2>v
    <3>3. InklingPatch(u) = Keep BY <3>1, <3>a DEF InklingPatch, Known
    <3>4. ~InklingMod(u).refused BY <3>3, Parts DEF InklingMod, Known
    <3>5. ~Outcome("inkling", u, e).refused BY <3>4 DEF Outcome
    <3>6. ~Affected("inkling", u, e) BY <3>1, <3>a DEF Affected
    <3> QED BY <1>6, <3>1, <3>5, <3>6 DEF Good, Settled
  <2> QED BY <2>2, <2>3, <2>4, <2>5 DEF Sound, o
<1> QED BY <1>9, <1>10, <1>11

-----------------------------------------------------------------------------
(* The three patchers of the SwiGLU-OAI patch. *)

LEMMA AddMissingFits ==
    ASSUME NEW text, IsText(text), text["exists"] # 0, NEW P, "exists" \notin P, P \subseteq DOMAIN text,
           NEW y, y = AddMissing(text, P)
    PROVE  /\ Fits(text, y)
           /\ \A p \in DOMAIN text : y[p] \in Nat /\ y[p] = IF p \in P /\ text[p] = 0 THEN 1 ELSE text[p]
<1> DEFINE Q == {p \in P : text[p] = 0}
<1>1. "exists" \notin Q /\ y = Add(text, Q) BY DEF AddMissing
<1>2. \A p \in DOMAIN text : p \in Q <=> p \in P /\ text[p] = 0 OBVIOUS
<1> HIDE DEF Q
<1>3. Fits(text, y) /\ \A p \in DOMAIN text : y[p] = IF p \in Q THEN text[p] + 1 ELSE text[p]
  BY <1>1, AddFits
<1>4. ASSUME NEW p \in DOMAIN text
      PROVE  y[p] \in Nat /\ y[p] = IF p \in P /\ text[p] = 0 THEN 1 ELSE text[p]
  <2>1. text[p] \in Nat BY DEF IsText
  <2>2. p \in Q <=> p \in P /\ text[p] = 0 BY <1>2
  <2>3. y[p] = IF p \in Q THEN text[p] + 1 ELSE text[p] BY <1>3
  <2> QED BY <2>1, <2>2, <2>3
<1> QED BY <1>3, <1>4

LEMMA AddMissingNothing ==
    ASSUME NEW text, IsText(text), NEW P, \A p \in P : text[p] # 0
    PROVE  AddMissing(text, P) = text
<1> DEFINE Q == {p \in P : text[p] = 0}
<1>1. Q = {} /\ AddMissing(text, P) = Add(text, Q) BY DEF AddMissing
<1> HIDE DEF Q
<1> QED BY <1>1, AddNothing

LEMMA UtilMends ==
    ASSUME NEW f, IsText(f), f.exists # 0, ~UtilUnknown(f),
           {"capability", "capabilityAt", "inspect", "export"} \subseteq DOMAIN f, NEW x, x = UtilPatched(f)
    PROVE  Fits(f, x) /\ x.capability > 0 /\ x.export > 0 /\ ~UtilUnknown(x) /\ UtilPatched(x) = x
<1> DEFINE one == {"export"}
           both == {"inspect", "export"}
           S == {<<"capabilityAt", "capability">>}
<1>1. x = IF f.capability > 0 THEN AddMissing(f, one) ELSE Swap(AddMissing(f, both), S)
  BY DEF UtilPatched
<1>2. one = {"export"} /\ both = {"inspect", "export"} /\ S = {<<"capabilityAt", "capability">>} OBVIOUS
<1>3. f.capability \in Nat /\ f.capabilityAt \in Nat /\ f.export \in Nat /\ "exists" \in DOMAIN f BY DEF IsText
<1> HIDE DEF one, both, S
<1>4. Fits(f, x) /\ x.capability > 0 /\ x.export > 0
  <2>1. CASE f.capability > 0
    <3>1. Fits(f, x) /\ \A p \in DOMAIN f : x[p] \in Nat /\ x[p] = IF p \in one /\ f[p] = 0 THEN 1 ELSE f[p]
      BY <1>1, <1>2, <2>1, AddMissingFits
    <3>2. x.capability = f.capability /\ x.export \in Nat /\ x.export # 0 BY <1>2, <3>1
    <3> QED BY <2>1, <3>1, <3>2
  <2>2. CASE ~(f.capability > 0)
    <3> DEFINE y == AddMissing(f, both)
    <3>1. Fits(f, y) /\ \A p \in DOMAIN f : y[p] \in Nat /\ y[p] = IF p \in both /\ f[p] = 0 THEN 1 ELSE f[p]
      BY <1>2, AddMissingFits
    <3>2. f.capability = 0 /\ f.capabilityAt = 1 BY <1>3, <2>2 DEF UtilUnknown
    <3>3. x = Swap(y, S) BY <1>1, <2>2
    <3> HIDE DEF y
    <3>4. IsText(y) /\ DOMAIN y = DOMAIN f BY <3>1 DEF Fits
    <3>5. y.capability = 0 /\ y.capabilityAt = 1 /\ y.exists # 0 /\ y.export \in Nat /\ y.export # 0
      BY <1>2, <1>3, <3>1, <3>2
    <3>6. /\ DOMAIN x = DOMAIN y /\ IsFiniteSet(S)
          /\ \A p \in DOMAIN y : x[p] = y[p] + One(p, "capability") - One(p, "capabilityAt")
      BY <1>2, <3>3, <3>4, SwapOne
    <3>7. \A r \in S : /\ r[1] # "exists" /\ r[2] # "exists" /\ y[r[1]] > 0
                       /\ \A w \in S : w[1] = r[1] => w = r
      BY <1>2, <3>5
    <3>8. Fits(y, x) BY <3>3, <3>4, <3>5, <3>6, <3>7, SwapFits
    <3>9. x.capability = 0 + 1 - 0 /\ x.export = y.export + 0 - 0
      BY <3>4, <3>5, <3>6 DEF One
    <3> QED BY <3>4, <3>5, <3>8, <3>9 DEF Fits
  <2> QED BY <2>1, <2>2
<1>5. IsText(x) /\ DOMAIN x = DOMAIN f BY <1>4 DEF Fits
<1>6. ~UtilUnknown(x) BY <1>4 DEF UtilUnknown, Unanchored
<1>7. UtilPatched(x) = x
  <2>1. UtilPatched(x) = AddMissing(x, one) BY <1>2, <1>4 DEF UtilPatched
  <2>2. \A p \in one : x[p] # 0 BY <1>2, <1>4
  <2> QED BY <1>5, <2>1, <2>2, AddMissingNothing
<1> QED BY <1>4, <1>6, <1>7

LEMMA ExpertMends ==
    ASSUME NEW f, IsText(f), f.exists # 0, ~ExpertUnknown(f),
           {"imports", "map", "config", "wrapper", "forward", "support", "legacy", "gelu"} \subseteq DOMAIN f,
           NEW x, x = ExpertPatched(f)
    PROVE  /\ Fits(f, x) /\ x.support # 0 /\ x.wrapper # 0 /\ x.forward # 0 /\ x.imports # 0
           /\ ~ExpertUnknown(x) /\ ExpertPatched(x) = x
<1> DEFINE P == ExpertAdds
           y == AddMissing(f, P)
           old == IF y.legacy = 1 THEN "legacy" ELSE "gelu"
           was == IF f.legacy = 1 THEN "legacy" ELSE "gelu"
           S == {<<was, "support">>}
<1>1. x = IF f.support > 0 THEN y ELSE Swap(y, S)
  BY DEF ExpertPatched
<1>2. P = {"imports", "map", "config", "wrapper", "forward"} /\ S = {<<was, "support">>} BY DEF ExpertAdds
<1>3. f.support \in Nat /\ f.legacy \in Nat /\ f.gelu \in Nat /\ "exists" \in DOMAIN f BY DEF IsText
<1> HIDE DEF P, S
<1>4. Fits(f, y) /\ \A p \in DOMAIN f : y[p] \in Nat /\ y[p] = IF p \in P /\ f[p] = 0 THEN 1 ELSE f[p]
  BY <1>2, AddMissingFits
<1> HIDE DEF y
<1>5. /\ y.support = f.support /\ y.legacy = f.legacy /\ y.gelu = f.gelu /\ y.exists = f.exists
      /\ \A p \in P : y[p] # 0 /\ y[p] \in Nat
  BY <1>2, <1>3, <1>4
<1>6. Fits(f, x) /\ x.support > 0 /\ \A p \in P : x[p] # 0
  <2>1. CASE f.support > 0 BY <1>1, <1>4, <1>5, <2>1
  <2>2. CASE ~(f.support > 0)
    <3>1. f.support = 0 /\ f.legacy + f.gelu = 1 BY <1>3, <2>2 DEF ExpertUnknown
    <3>2. x = Swap(y, S) BY <1>1, <2>2
    <3>3. f[was] = 1 /\ was \in {"legacy", "gelu"}
      <4>1. CASE f.legacy = 1 BY <4>1
      <4>2. CASE f.legacy # 1
        <5>1. f.gelu = 1 BY <1>3, <3>1, <4>2
        <5> QED BY <4>2, <5>1
      <4> QED BY <4>1, <4>2
    <3> HIDE DEF was
    <3>4. IsText(y) /\ DOMAIN y = DOMAIN f BY <1>4 DEF Fits
    <3>5. y[was] = 1 BY <1>5, <3>3
    <3>6. /\ DOMAIN x = DOMAIN y /\ IsFiniteSet(S)
          /\ \A p \in DOMAIN y : x[p] = y[p] + One(p, "support") - One(p, was)
      <4> DEFINE to == "support"
      <4>1. S = {<<was, to>>} BY <1>2
      <4> HIDE DEF to
      <4>2. /\ DOMAIN x = DOMAIN y /\ IsFiniteSet(S)
            /\ \A p \in DOMAIN y : x[p] = y[p] + One(p, to) - One(p, was)
        BY <3>2, <3>4, <4>1, SwapOne
      <4> QED BY <4>2 DEF to
    <3>7. \A r \in S : /\ r[1] # "exists" /\ r[2] # "exists" /\ y[r[1]] > 0
                       /\ \A w \in S : w[1] = r[1] => w = r
      BY <1>2, <3>3, <3>5
    <3>8. Fits(y, x) BY <1>5, <3>2, <3>4, <3>6, <3>7, SwapFits
    <3>9. x.support = 0 + 1 - 0 BY <1>5, <3>1, <3>3, <3>4, <3>6 DEF One
    <3>10. ASSUME NEW p \in P PROVE x[p] # 0
      <4>1. p \in DOMAIN y /\ p # was /\ p # "support" BY <1>2, <3>3, <3>4
      <4>2. x[p] = y[p] + 0 - 0 BY <3>6, <4>1 DEF One
      <4> QED BY <1>5, <4>2
    <3> QED BY <3>4, <3>8, <3>9, <3>10 DEF Fits
  <2> QED BY <2>1, <2>2
<1>7. IsText(x) /\ DOMAIN x = DOMAIN f BY <1>6 DEF Fits
<1>8. ~ExpertUnknown(x) BY <1>6 DEF ExpertUnknown, Unanchored, P
<1>9. ExpertPatched(x) = x
  <2>1. ExpertPatched(x) = AddMissing(x, P) BY <1>6 DEF ExpertPatched, P
  <2> QED BY <1>6, <1>7, <2>1, AddMissingNothing
<1> QED BY <1>2, <1>6, <1>8, <1>9

LEMMA OracleMends ==
    ASSUME NEW f, IsText(f), f.exists # 0, ~OracleUnknown(f),
           {"activation", "helper", "clampSet", "inClamp", "adds"} \subseteq DOMAIN f,
           NEW x, x = OraclePatched(f)
    PROVE  Fits(f, x) /\ x.inClamp + x.adds # 0 /\ ~OracleUnknown(x) /\ OraclePatched(x) = x
<1> DEFINE P(g) == {"activation", "helper"} \cup (IF g.inClamp = 0 THEN {"adds"} ELSE {})
           Q == P(f)
<1>1. x = AddMissing(f, Q) BY DEF OraclePatched
<1>2. Q \subseteq DOMAIN f /\ "exists" \notin Q /\ "inClamp" \notin Q /\ "clampSet" \notin Q
      /\ "activation" \in Q /\ "helper" \in Q /\ (f.inClamp = 0 => "adds" \in Q)
  OBVIOUS
<1> HIDE DEF Q
<1>3. Fits(f, x) /\ \A p \in DOMAIN f : x[p] \in Nat /\ x[p] = IF p \in Q /\ f[p] = 0 THEN 1 ELSE f[p]
  BY <1>1, <1>2, AddMissingFits
<1>4. /\ x.inClamp = f.inClamp /\ x.clampSet = f.clampSet /\ x.activation # 0 /\ x.helper # 0
      /\ (f.inClamp = 0 => x.adds # 0) /\ x.inClamp \in Nat /\ x.adds \in Nat
  BY <1>2, <1>3
<1>5. IsText(x) BY <1>3 DEF Fits
<1>6. ~OracleUnknown(x) BY <1>4 DEF OracleUnknown, Unanchored
<1>7. x.inClamp + x.adds # 0
  <2>1. x.inClamp # 0 \/ x.adds # 0 BY <1>4
  <2> QED BY <1>4, <2>1
<1>8. OraclePatched(x) = x
  <2> DEFINE R == P(x)
  <2>1. OraclePatched(x) = AddMissing(x, R) BY DEF OraclePatched
  <2>2. \A p \in R : x[p] # 0 BY <1>4
  <2> HIDE DEF R
  <2> QED BY <1>5, <2>1, <2>2, AddMissingNothing
<1> QED BY <1>3, <1>6, <1>7, <1>8

-----------------------------------------------------------------------------
(* The SwiGLU-OAI patch writes the files that change and no others. *)

LEMMA ThenWrites ==
    ASSUME NEW a, NEW b, ~a.refused, ~b.refused, NEW o, o = Then(a, b)
    PROVE  ~o.refused /\ o.writes = a.writes \o b.writes
BY DEF Then

(* A write that is left out if it would change nothing.                    *)
Changed(F, x, old) == IF x = old THEN Keep ELSE Write(F, x)
Written(F, x) == [file |-> F, text |-> x, atomic |-> FALSE]

LEMMA ThenChanged ==
    ASSUME NEW F, NEW x, NEW old, NEW b, ~b.refused, Ordered(b.writes),
           \A v \in ToSet(b.writes) : v.file # F
    PROVE  /\ ~Then(Changed(F, x, old), b).refused /\ Ordered(Then(Changed(F, x, old), b).writes)
           /\ \A v : v \in ToSet(Then(Changed(F, x, old), b).writes)
                       <=> v \in ToSet(b.writes) \/ (x # old /\ v = Written(F, x))
<1> DEFINE a == Changed(F, x, old)
           o == Then(a, b)
           w == Written(F, x)
           y == b.writes
           z == o.writes
<1>1. w.file = F BY DEF Written
<1>2. Ordered(y) /\ \A v \in ToSet(y) : v.file # w.file BY <1>1
<1>3. CASE x = old
  <2>1. ~a.refused /\ a.writes = <<>> BY <1>3, Parts DEF Changed
  <2> HIDE DEF a
  <2>2. ~o.refused /\ z = <<>> \o y BY <2>1, ThenWrites
  <2> HIDE DEF z, y, o
  <2>3. y \in Seq(ToSet(y)) BY <1>2 DEF Ordered
  <2>4. z = y BY <2>2, <2>3
  <2>5. Ordered(z) /\ ToSet(z) = ToSet(y) BY <1>2, <2>4
  <2> QED BY <1>3, <2>2, <2>5 DEF y, z, o, a
<1>4. CASE x # old
  <2>1. ~a.refused /\ a.writes = <<w>> BY <1>4, Parts DEF Changed, Written
  <2> HIDE DEF a, w
  <2>2. ~o.refused /\ z = <<w>> \o y BY <2>1, ThenWrites
  <2> HIDE DEF z, y, o
  <2>3. Ordered(Prepended(w, y)) /\ \A v : v \in ToSet(Prepended(w, y)) <=> v = w \/ v \in ToSet(y)
    BY <1>2, MoreWrites
  <2>4. z = Prepended(w, y) BY <2>2 DEF Prepended
  <2> QED BY <1>4, <2>2, <2>3, <2>4 DEF y, z, o, a, w
<1> QED BY <1>3, <1>4

(* Up to three writes, each left out if it would change nothing.           *)
LEMMA ChangedSound ==
    ASSUME NEW t, NEW F1, NEW F2, NEW F3, F1 # F2, F1 # F3, F2 # F3, NEW x1, NEW x2, NEW x3,
           {F1, F2, F3} \subseteq DOMAIN t, NEW o,
           o = Then(Changed(F1, x1, t[F1]), Then(Changed(F2, x2, t[F2]), Changed(F3, x3, t[F3])))
    PROVE  /\ ~o.refused /\ Ordered(o.writes)
           /\ \A w \in ToSet(o.writes) :
                 \/ w.file = F1 /\ w.text = x1
                 \/ w.file = F2 /\ w.text = x2
                 \/ w.file = F3 /\ w.text = x3
           /\ \A u : Applied(o, t, u) => u[F1] = x1 /\ u[F2] = x2 /\ u[F3] = x3
<1> DEFINE w1 == Written(F1, x1)  w2 == Written(F2, x2)  w3 == Written(F3, x3)
           a == Changed(F1, x1, t[F1])
           b == Changed(F2, x2, t[F2])
           c == Changed(F3, x3, t[F3])
           bc == Then(b, c)
<1>1. /\ w1.file = F1 /\ w1.text = x1 /\ w2.file = F2 /\ w2.text = x2
      /\ w3.file = F3 /\ w3.text = x3
  BY DEF Written
<1>5. ~c.refused /\ Ordered(c.writes) /\ \A v : v \in ToSet(c.writes) <=> x3 # t[F3] /\ v = w3
  <2>1. ~c.refused /\ c.writes = IF x3 = t[F3] THEN <<>> ELSE <<w3>> BY Parts DEF Changed, Written
  <2> HIDE DEF c, w3
  <2> QED BY <2>1, NoWrite, OneWrite
<1>6. /\ ~bc.refused /\ Ordered(bc.writes)
      /\ \A v : v \in ToSet(bc.writes) <=> v \in ToSet(c.writes) \/ (x2 # t[F2] /\ v = w2)
  <2>1. \A v \in ToSet(c.writes) : v.file # F2 BY <1>1, <1>5
  <2> HIDE DEF c
  <2> QED BY <1>5, <2>1, ThenChanged
<1>e. o = Then(a, bc) OBVIOUS
<1>7. /\ ~o.refused /\ Ordered(o.writes)
      /\ \A v : v \in ToSet(o.writes) <=> v \in ToSet(bc.writes) \/ (x1 # t[F1] /\ v = w1)
  <2>1. \A v \in ToSet(bc.writes) : v.file # F1 BY <1>1, <1>5, <1>6
  <2> HIDE DEF bc
  <2>2. /\ ~Then(a, bc).refused /\ Ordered(Then(a, bc).writes)
        /\ \A v : v \in ToSet(Then(a, bc).writes) <=> v \in ToSet(bc.writes) \/ (x1 # t[F1] /\ v = w1)
    BY <1>6, <2>1, ThenChanged
  <2> HIDE DEF a
  <2> QED BY <1>e, <2>2
<1> HIDE DEF w1, w2, w3, a, b, c, bc
<1>m. \A v : v \in ToSet(o.writes) <=> \/ x3 # t[F3] /\ v = w3
                                       \/ x2 # t[F2] /\ v = w2
                                       \/ x1 # t[F1] /\ v = w1
  BY <1>5, <1>6, <1>7
<1>8. ASSUME NEW u, Applied(o, t, u) PROVE u[F1] = x1 /\ u[F2] = x2 /\ u[F3] = x3
  <2> DEFINE W == ToSet(o.writes)
  <2>1. /\ \A f \in DOMAIN t : u[f] = t[f] \/ \E w \in W : w.file = f /\ w.text = u[f]
        /\ \A w \in W : u[w.file] = w.text
    BY <1>8 DEF Applied, Between
  <2>2. (x1 # t[F1] => w1 \in W) /\ (x2 # t[F2] => w2 \in W) /\ (x3 # t[F3] => w3 \in W)
    BY <1>m
  <2>3. \A w \in W : (w.file = F1 /\ w.text = x1) \/ (w.file = F2 /\ w.text = x2) \/ (w.file = F3 /\ w.text = x3)
    BY <1>1, <1>m
  <2> HIDE DEF W
  <2>4. u[F1] = x1 BY <1>1, <2>1, <2>2, <2>3
  <2>5. u[F2] = x2 BY <1>1, <2>1, <2>2, <2>3
  <2>6. u[F3] = x3 BY <1>1, <2>1, <2>2, <2>3
  <2> QED BY <2>4, <2>5, <2>6
<1>9. \A w \in ToSet(o.writes) :
         \/ w.file = F1 /\ w.text = x1
         \/ w.file = F2 /\ w.text = x2
         \/ w.file = F3 /\ w.text = x3
  BY <1>1, <1>m
<1> QED BY <1>7, <1>8, <1>9

LEMMA SwigluoaiSound ==
    ASSUME NEW t, NEW e, IsTree(t), Readable("swigluoai", t)
    PROVE  Sound("swigluoai", t, e)
<1> DEFINE o == Outcome("swigluoai", t, e)
           unknown == \/ t.util.exists = 0 \/ UtilUnknown(t.util) \/ ExpertUnknown(t.expert)
                      \/ t.oracle.exists = 0 \/ OracleUnknown(t.oracle)
           x1 == UtilPatched(t.util)
           x2 == ExpertPatched(t.expert)
           x3 == OraclePatched(t.oracle)
           all == Then(Changed("util", x1, t.util),
                       Then(Changed("expert", x2, t.expert), Changed("oracle", x3, t.oracle)))
<1>1. {"util", "expert", "oracle"} \subseteq DOMAIN t /\ Files("swigluoai") = {"util", "expert", "oracle"}
  BY DEF Readable, Looks, Files
<1>2. /\ IsText(t.util) /\ IsText(t.expert) /\ IsText(t.oracle)
  BY <1>1 DEF IsTree, Sources
<1>3. /\ {"capability", "capabilityAt", "inspect", "export"} \subseteq DOMAIN t.util
      /\ {"imports", "map", "config", "wrapper", "forward", "support", "legacy", "gelu"} \subseteq DOMAIN t.expert
      /\ {"activation", "helper", "clampSet", "inClamp", "adds"} \subseteq DOMAIN t.oracle
  BY DEF Readable, Looks
<1>4. o = IF t.expert.exists = 0 THEN Keep ELSE Known(unknown, all)
  BY DEF Outcome, Swigluoai, Changed
<1> HIDE DEF o
<1>5. CASE t.expert.exists = 0
  <2>1. Outcome("swigluoai", t, e) = Keep BY <1>4, <1>5 DEF o
  <2>2. Good("swigluoai", t, e) BY <1>5, <2>1, KeepSettled DEF Good, Affected
  <2> QED BY <2>1, <2>2, KeepSound
<1>6. CASE t.expert.exists # 0 /\ unknown
  BY <1>4, <1>6 DEF Known, Sound, o
<1>7. CASE t.expert.exists # 0 /\ ~unknown
  <2>1. o = all BY <1>4, <1>7 DEF Known
  <2>2. Fits(t.util, x1) /\ x1.capability > 0 /\ x1.export > 0 /\ ~UtilUnknown(x1) /\ UtilPatched(x1) = x1
    BY <1>2, <1>3, <1>7, UtilMends
  <2>3. /\ Fits(t.expert, x2) /\ x2.support # 0 /\ x2.wrapper # 0 /\ x2.forward # 0 /\ x2.imports # 0
        /\ ~ExpertUnknown(x2) /\ ExpertPatched(x2) = x2
    BY <1>2, <1>3, <1>7, ExpertMends
  <2>4. Fits(t.oracle, x3) /\ x3.inClamp + x3.adds # 0 /\ ~OracleUnknown(x3) /\ OraclePatched(x3) = x3
    BY <1>2, <1>3, <1>7, OracleMends
  <2> HIDE DEF x1, x2, x3
  <2>5. /\ ~all.refused /\ Ordered(all.writes)
        /\ \A w \in ToSet(all.writes) :
              \/ w.file = "util" /\ w.text = x1
              \/ w.file = "expert" /\ w.text = x2
              \/ w.file = "oracle" /\ w.text = x3
        /\ \A u : Applied(all, t, u) => u.util = x1 /\ u.expert = x2 /\ u.oracle = x3
    <3> DEFINE F1 == "util"  F2 == "expert"  F3 == "oracle"
    <3>1. F1 # F2 /\ F1 # F3 /\ F2 # F3 /\ {F1, F2, F3} \subseteq DOMAIN t BY <1>1
    <3>2. all = Then(Changed(F1, x1, t[F1]), Then(Changed(F2, x2, t[F2]), Changed(F3, x3, t[F3])))
      OBVIOUS
    <3> HIDE DEF F1, F2, F3, all
    <3>6. ~all.refused /\ Ordered(all.writes)
      BY <3>1, <3>2, ChangedSound
    <3>7. \A w \in ToSet(all.writes) :
             \/ w.file = F1 /\ w.text = x1
             \/ w.file = F2 /\ w.text = x2
             \/ w.file = F3 /\ w.text = x3
      BY <3>1, <3>2, ChangedSound
    <3>8. \A u : Applied(all, t, u) => u[F1] = x1 /\ u[F2] = x2 /\ u[F3] = x3
      BY <3>1, <3>2, ChangedSound
    <3> QED BY <3>6, <3>7, <3>8 DEF F1, F2, F3
  <2> HIDE DEF all
  <2>6. \A w \in ToSet(o.writes) :
           w.file \in Files("swigluoai") /\ w.file \in DOMAIN t /\ Alike(w.file, t[w.file], w.text)
    BY <1>1, <2>1, <2>2, <2>3, <2>4, <2>5 DEF Alike, Fits
  <2>7. ASSUME NEW u, Applied(o, t, u) PROVE Good("swigluoai", u, e)
    <3>1. u.util = x1 /\ u.expert = x2 /\ u.oracle = x3 BY <2>1, <2>5, <2>7
    <3>2. ~Affected("swigluoai", u, e)
      <4>1. x1.capability # 0 /\ x1.export # 0 BY <2>2
      <4> QED BY <2>3, <2>4, <3>1, <4>1 DEF Affected
    <3>3. Settled("swigluoai", u, e)
      <4> DEFINE now == Then(Keep, Then(Keep, Keep))
      <4>1. Swigluoai(u) = Keep \/ Swigluoai(u) = Known(u.util.exists = 0 \/ u.oracle.exists = 0, now)
        <5>1. ~UtilUnknown(u.util) /\ ~ExpertUnknown(u.expert) /\ ~OracleUnknown(u.oracle)
          BY <2>2, <2>3, <2>4, <3>1
        <5>2. UtilPatched(u.util) = u.util /\ ExpertPatched(u.expert) = u.expert
              /\ OraclePatched(u.oracle) = u.oracle
          BY <2>2, <2>3, <2>4, <3>1
        <5> QED BY <5>1, <5>2 DEF Swigluoai
      <4>2. u.util.exists # 0 /\ u.oracle.exists # 0
        <5>1. \A p \in DOMAIN x1 : x1.exists = 0 => x1[p] = 0 BY <2>2 DEF Fits, IsText
        <5>2. x1.exists # 0 BY <1>3, <2>2, <5>1 DEF Fits
        <5>3. \A p \in DOMAIN x3 : x3.exists = 0 => x3[p] = 0 BY <2>4 DEF Fits, IsText
        <5>4. x3.exists # 0
          <6>1. x3.inClamp \in Nat /\ x3.adds \in Nat /\ "inClamp" \in DOMAIN x3 /\ "adds" \in DOMAIN x3
            BY <1>3, <2>4 DEF Fits, IsText
          <6>2. x3.inClamp # 0 \/ x3.adds # 0 BY <2>4, <6>1
          <6> QED BY <5>3, <6>1, <6>2
        <5> QED BY <3>1, <5>2, <5>4
      <4>3. Swigluoai(u) = Keep \/ Swigluoai(u) = now BY <4>1, <4>2 DEF Known
      <4>4. ~now.refused /\ ToSet(now.writes) = {} /\ ~Keep.refused /\ ToSet(Keep.writes) = {}
        <5> DEFINE k == Keep
                   later == Then(k, k)
        <5>k. ~k.refused /\ k.writes = <<>> BY Parts
        <5>n. now = Then(k, later) OBVIOUS
        <5> HIDE DEF k, now
        <5>l. ~later.refused /\ later.writes = <<>> \o <<>> BY <5>k, ThenWrites, ZenonT(40)
        <5> HIDE DEF later
        <5>m. ~now.refused /\ now.writes = k.writes \o later.writes BY <5>k, <5>n, <5>l, ThenWrites
        <5>1. now.writes = <<>> \o (<<>> \o <<>>) /\ ~now.refused BY <5>k, <5>l, <5>m
        <5>2. <<>> \o (<<>> \o <<>>) = <<>> OBVIOUS
        <5> QED BY <5>1, <5>2, <5>k, NoWrite DEF k
      <4> HIDE DEF now
      <4>5. ~Outcome("swigluoai", u, e).refused /\ ToSet(Outcome("swigluoai", u, e).writes) = {}
        BY <4>3, <4>4 DEF Outcome
      <4> QED BY <4>5 DEF Settled
    <3> QED BY <3>2, <3>3 DEF Good
  <2>8. ~o.refused /\ Ordered(o.writes) BY <2>1, <2>5
  <2> QED BY <2>6, <2>7, <2>8 DEF Sound, o
<1> QED BY <1>5, <1>6, <1>7

-----------------------------------------------------------------------------
(* The memory profiler: what it leaves behind, and its six writes in order. *)

(* What leaves the memory profiler nothing to do.                          *)
HookDone(f) == f.exists # 0 /\ f.hook = 1 /\ f.hookStray = 0
MemDone(t, e) ==
    /\ HookDone(t.worker) /\ HookDone(t.gc) /\ HookDone(t[ApiFile(t)])
    /\ t[ApiFile(t)].lifespan # 0
    /\ t.helper.exists = 1 /\ t.helper.whole = 1
    /\ t.manifest.exists = 1 /\ t.manifest.run \in t.directories.runs
    /\ e.run = 0 \/ e.run = t.manifest.run

LEMMA MemDoneGood ==
    ASSUME NEW t, NEW e, MemDone(t, e)
    PROVE  Outcome("memory_profile", t, e) = Keep /\ Good("memory_profile", t, e)
<1> DEFINE api == ApiFile(t)
           a == t.worker
           b == t.gc
           c == t[api]
           hooked == {f \in {"worker", "gc", api} : Hooked(t[f])}
<1>1. /\ HookDone(a) /\ HookDone(b) /\ HookDone(c) /\ c.lifespan # 0
      /\ t.helper.exists = 1 /\ t.helper.whole = 1
      /\ t.manifest.exists = 1 /\ t.manifest.run \in t.directories.runs
      /\ e.run = 0 \/ e.run = t.manifest.run
  BY DEF MemDone
<1>2. \A f : HookDone(f) => f.exists # 0 /\ Hooked(f) /\ \A p : ~HookUnknown(f, p)
  BY DEF HookDone, Hooked, HookUnknown
<1>3. hooked = {"worker", "gc", api} BY <1>1, <1>2
<1> HIDE DEF hooked
<1>4. ProfileWhole(t, hooked) BY <1>1, <1>3 DEF ProfileWhole
<1>5. MemoryProfile(t, e) = Keep
  <2>1. MemoryProfile(t, e) =
          IF \/ t.worker.exists = 0 \/ t.gc.exists = 0 \/ t[api].lifespan = 0
             \/ HookUnknown(t.worker, "startup") \/ HookUnknown(t.gc, "function")
             \/ HookUnknown(t[api], "context")
          THEN Refuse
          ELSE IF hooked # {}
          THEN Known(\/ ~ProfileWhole(t, hooked)
                     \/ e.run # 0 /\ e.run # t.manifest.run, Keep)
          ELSE MemoryProfile(t, e)
    BY DEF MemoryProfile, hooked
  <2>2. hooked # {} BY <1>3
  <2>3. Known(\/ ~ProfileWhole(t, hooked)
              \/ e.run # 0 /\ e.run # t.manifest.run, Keep) = Keep
    BY <1>1, <1>4 DEF Known
  <2> QED BY <1>1, <1>2, <2>1, <2>2, <2>3
<1>6. Outcome("memory_profile", t, e) = Keep BY <1>5 DEF Outcome
<1>7. ~Affected("memory_profile", t, e) BY DEF Affected
<1>8. a.hook = 1 /\ b.hook = 1 /\ c.hook = 1 BY <1>1 DEF HookDone
<1> QED BY <1>1, <1>6, <1>7, <1>8, KeepSettled DEF Good

(* The first of some writes is made with the others to follow.             *)
LEMMA ThenCons ==
    ASSUME NEW a, NEW b, NEW w, ~a.refused, a.writes = <<w>>, ~b.refused
    PROVE  ~Then(a, b).refused /\ Then(a, b).writes = Prepended(w, b.writes)
BY DEF Then, Prepended

SixWrites(w1, w2, w3, w4, w5, w6) ==
    Prepended(w1, Prepended(w2, Prepended(w3, Prepended(w4, Prepended(w5, <<w6>>)))))

Six(z, w1, w2, w3, w4, w5, w6) ==
    /\ Len(z) = 6 /\ z[1] = w1 /\ z[2] = w2 /\ z[3] = w3 /\ z[4] = w4 /\ z[5] = w5 /\ z[6] = w6

LEMMA SixFacts ==
    ASSUME NEW w1, NEW w2, NEW w3, NEW w4, NEW w5, NEW w6,
           w1.file # w2.file, w1.file # w3.file, w1.file # w4.file, w1.file # w5.file, w1.file # w6.file,
           w2.file # w3.file, w2.file # w4.file, w2.file # w5.file, w2.file # w6.file,
           w3.file # w4.file, w3.file # w5.file, w3.file # w6.file,
           w4.file # w5.file, w4.file # w6.file, w5.file # w6.file,
           NEW z, z = SixWrites(w1, w2, w3, w4, w5, w6)
    PROVE  /\ Ordered(z) /\ Six(z, w1, w2, w3, w4, w5, w6)
           /\ \A v : v \in ToSet(z) <=> v = w1 \/ v = w2 \/ v = w3 \/ v = w4 \/ v = w5 \/ v = w6
<1> DEFINE y6 == <<w6>>
           y5 == Prepended(w5, y6)
           y4 == Prepended(w4, y5)
           y3 == Prepended(w3, y4)
           y2 == Prepended(w2, y3)
           y1 == Prepended(w1, y2)
<1>z. z = y1 BY DEF SixWrites
<1>6. Ordered(y6) /\ (\A v : v \in ToSet(y6) <=> v = w6) /\ Len(y6) = 1 /\ y6[1] = w6
  BY OneWrite
<1> HIDE DEF y6
<1>5. /\ Ordered(y5) /\ (\A v : v \in ToSet(y5) <=> v = w5 \/ v = w6)
      /\ Len(y5) = 2 /\ y5[1] = w5 /\ y5[2] = w6
  <2>1. \A v \in ToSet(y6) : v.file # w5.file BY <1>6
  <2>2. /\ Ordered(y5) /\ Len(y5) = Len(y6) + 1 /\ y5[1] = w5
        /\ \A v : v \in ToSet(y5) <=> v = w5 \/ v \in ToSet(y6)
        /\ \A i \in 1 .. Len(y6) : y5[i + 1] = y6[i]
    <3>1. Ordered(y6) BY <1>6
    <3> QED BY <2>1, <3>1, ConsFacts
  <2> HIDE DEF y5
  <2>3. y5[1 + 1] = y6[1] BY <1>6, <2>2
  <2> QED BY <1>6, <2>2, <2>3
<1> HIDE DEF y5
<1>4. /\ Ordered(y4) /\ (\A v : v \in ToSet(y4) <=> v = w4 \/ v = w5 \/ v = w6)
      /\ Len(y4) = 3 /\ y4[1] = w4 /\ y4[2] = w5 /\ y4[3] = w6
  <2>1. \A v \in ToSet(y5) : v.file # w4.file BY <1>5
  <2>2. /\ Ordered(y4) /\ Len(y4) = Len(y5) + 1 /\ y4[1] = w4
        /\ \A v : v \in ToSet(y4) <=> v = w4 \/ v \in ToSet(y5)
        /\ \A i \in 1 .. Len(y5) : y4[i + 1] = y5[i]
    BY <1>5, <2>1, ConsFacts
  <2> HIDE DEF y4
  <2>3. y4[1 + 1] = y5[1] /\ y4[2 + 1] = y5[2] BY <1>5, <2>2
  <2> QED BY <1>5, <2>2, <2>3
<1> HIDE DEF y4
<1>3. /\ Ordered(y3) /\ (\A v : v \in ToSet(y3) <=> v = w3 \/ v = w4 \/ v = w5 \/ v = w6)
      /\ Len(y3) = 4 /\ y3[1] = w3 /\ y3[2] = w4 /\ y3[3] = w5 /\ y3[4] = w6
  <2>1. \A v \in ToSet(y4) : v.file # w3.file BY <1>4
  <2>2. /\ Ordered(y3) /\ Len(y3) = Len(y4) + 1 /\ y3[1] = w3
        /\ \A v : v \in ToSet(y3) <=> v = w3 \/ v \in ToSet(y4)
        /\ \A i \in 1 .. Len(y4) : y3[i + 1] = y4[i]
    BY <1>4, <2>1, ConsFacts
  <2> HIDE DEF y3
  <2>3. y3[1 + 1] = y4[1] /\ y3[2 + 1] = y4[2] /\ y3[3 + 1] = y4[3] BY <1>4, <2>2
  <2> QED BY <1>4, <2>2, <2>3
<1> HIDE DEF y3
<1>2. /\ Ordered(y2) /\ (\A v : v \in ToSet(y2) <=> v = w2 \/ v = w3 \/ v = w4 \/ v = w5 \/ v = w6)
      /\ Len(y2) = 5 /\ y2[1] = w2 /\ y2[2] = w3 /\ y2[3] = w4 /\ y2[4] = w5 /\ y2[5] = w6
  <2>1. \A v \in ToSet(y3) : v.file # w2.file BY <1>3
  <2>2. /\ Ordered(y2) /\ Len(y2) = Len(y3) + 1 /\ y2[1] = w2
        /\ \A v : v \in ToSet(y2) <=> v = w2 \/ v \in ToSet(y3)
        /\ \A i \in 1 .. Len(y3) : y2[i + 1] = y3[i]
    BY <1>3, <2>1, ConsFacts
  <2> HIDE DEF y2
  <2>3. y2[1 + 1] = y3[1] /\ y2[2 + 1] = y3[2] /\ y2[3 + 1] = y3[3] /\ y2[4 + 1] = y3[4] BY <1>3, <2>2
  <2> QED BY <1>3, <2>2, <2>3
<1> HIDE DEF y2
<1>1. /\ Ordered(y1) /\ (\A v : v \in ToSet(y1) <=> v = w1 \/ v = w2 \/ v = w3 \/ v = w4 \/ v = w5 \/ v = w6)
      /\ Len(y1) = 6 /\ y1[1] = w1 /\ y1[2] = w2 /\ y1[3] = w3 /\ y1[4] = w4 /\ y1[5] = w5 /\ y1[6] = w6
  <2>1. \A v \in ToSet(y2) : v.file # w1.file BY <1>2
  <2>2. /\ Ordered(y1) /\ Len(y1) = Len(y2) + 1 /\ y1[1] = w1
        /\ \A v : v \in ToSet(y1) <=> v = w1 \/ v \in ToSet(y2)
        /\ \A i \in 1 .. Len(y2) : y1[i + 1] = y2[i]
    BY <1>2, <2>1, ConsFacts
  <2> HIDE DEF y1
  <2>3. /\ y1[1 + 1] = y2[1] /\ y1[2 + 1] = y2[2] /\ y1[3 + 1] = y2[3] /\ y1[4 + 1] = y2[4]
        /\ y1[5 + 1] = y2[5]
    BY <1>2, <2>2
  <2> QED BY <1>2, <2>2, <2>3
<1> QED BY <1>1, <1>z DEF Six

Bare(f) == f.exists # 0 /\ f.hook = 0 /\ f.hookStray = 0
Made == [exists |-> 1, whole |-> 1]
ProfileRun(t, e) == IF e.run = 0 THEN 10 + Cardinality(t.directories.runs) ELSE e.run
RunMade(t, e) ==
    [file |-> "directories", text |-> [runs |-> t.directories.runs \cup {ProfileRun(t, e)}],
     atomic |-> TRUE]
RunNamed(t, e) == [exists |-> 1, run |-> ProfileRun(t, e)]
ProfileWrites(t, e) ==
    SixWrites(RunMade(t, e), Written("helper", Made), Written("manifest", RunNamed(t, e)),
              Written("worker", Hook(t.worker)), Written("gc", Hook(t.gc)),
              Written(ApiFile(t), Hook(t[ApiFile(t)])))

(* The trees the profiler refuses, finds itself in, and installs itself in. *)
LEMMA ProfileCases ==
    ASSUME NEW t, NEW e, IsTree(t), Readable("memory_profile", t), Shaped("memory_profile", t)
    PROVE  LET o == Outcome("memory_profile", t, e)
           IN  \/ o = Refuse
               \/ MemDone(t, e)
               \/ /\ Bare(t.worker) /\ Bare(t.gc) /\ Bare(t[ApiFile(t)]) /\ t[ApiFile(t)].lifespan # 0
                  /\ ~o.refused /\ o.writes = ProfileWrites(t, e)
<1> DEFINE api == ApiFile(t)
           a == t.worker
           b == t.gc
           c == t[api]
           o == Outcome("memory_profile", t, e)
           run == ProfileRun(t, e)
           hooked == {f \in {"worker", "gc", api} : Hooked(t[f])}
           unfit == \/ a.exists = 0 \/ b.exists = 0 \/ c.lifespan = 0
                    \/ HookUnknown(a, "startup") \/ HookUnknown(b, "function")
                    \/ HookUnknown(c, "context")
           other == \/ ~ProfileWhole(t, hooked)
                    \/ e.run # 0 /\ e.run # t.manifest.run
           r6 == Write(api, Hook(c))
           r5 == Then(Write("gc", Hook(b)), r6)
           r4 == Then(Write("worker", Hook(a)), r5)
           r3 == Then(Write("manifest", RunNamed(t, e)), r4)
           r2 == Then(Write("helper", Made), r3)
           r1 == Then(Replace("directories", [runs |-> t.directories.runs \cup {run}]), r2)
<1>1. o = IF unfit THEN Refuse
          ELSE IF hooked # {} THEN Known(other, Keep)
          ELSE Known(run \in t.directories.runs, r1)
  BY DEF Outcome, MemoryProfile, ProfileRun, Made, RunNamed
<1>2. /\ IsText(a) /\ IsText(b) /\ IsText(c) /\ api \in {"serverUtils", "apiServer"}
      /\ {"hook", "hookStray", "exists"} \subseteq DOMAIN a
      /\ {"hook", "hookStray", "exists"} \subseteq DOMAIN b
      /\ {"hook", "hookStray", "exists", "lifespan"} \subseteq DOMAIN c
  <2>1. api \in {"serverUtils", "apiServer"} BY DEF ApiFile
  <2>2. {"worker", "gc", "serverUtils", "apiServer"} \subseteq DOMAIN t BY DEF Readable, Looks
  <2>3. IsText(t.worker) /\ IsText(t.gc) /\ IsText(t.serverUtils) /\ IsText(t.apiServer)
    BY <2>2 DEF IsTree, Sources
  <2>4. /\ {"hook", "hookStray"} \subseteq DOMAIN t.worker
        /\ {"hook", "hookStray"} \subseteq DOMAIN t.gc
        /\ {"hook", "hookStray", "lifespan"} \subseteq DOMAIN t.serverUtils
        /\ {"hook", "hookStray", "lifespan"} \subseteq DOMAIN t.apiServer
    BY DEF Readable, Looks
  <2> QED BY <2>1, <2>3, <2>4 DEF IsText
<1>3. \A f : f \in {a, b, c} =>
          f.hook \in Nat /\ f.hookStray \in Nat /\ f.exists \in Nat
          /\ (f.exists = 0 => f.hook = 0 /\ f.hookStray = 0)
  BY <1>2 DEF IsText
<1>4. ASSUME NEW f, f \in {a, b, c}, NEW shape, ~HookUnknown(f, shape), f.exists # 0
      PROVE  (Hooked(f) => HookDone(f)) /\ (~Hooked(f) => Bare(f))
  <2>1. f.hook \in Nat /\ f.hookStray \in Nat BY <1>3, <1>4
  <2>2. Hooked(f) => HookDone(f)
    BY <1>4, <2>1 DEF Hooked, HookUnknown, HookDone
  <2>3. ~Hooked(f) => Bare(f)
    BY <1>4, <2>1 DEF Hooked, Bare
  <2> QED BY <2>2, <2>3
<1>5. c.lifespan # 0 => c.exists # 0 BY <1>2 DEF IsText
<1>6. CASE unfit BY <1>1, <1>6
<1>7. CASE ~unfit /\ hooked # {}
  <2>1. o = Known(other, Keep) BY <1>1, <1>7
  <2>2. CASE other BY <2>1, <2>2 DEF Known
  <2>3. CASE ~other
    <3>1. hooked = {"worker", "gc", api} /\ t.manifest.exists = 1 /\ t.helper.exists = 1
      BY <2>3 DEF ProfileWhole
    <3>2. Hooked(a) /\ Hooked(b) /\ Hooked(c)
      <4>1. "worker" \in hooked /\ "gc" \in hooked /\ api \in hooked BY <3>1
      <4> QED BY <4>1
    <3>3. HookDone(a) /\ HookDone(b) /\ HookDone(c) BY <1>4, <1>5, <1>7, <3>2
    <3>4. t.helper.whole = 1 /\ t.manifest.run \in t.directories.runs
      <4>1. t.worker.hook > 0 /\ t.gc.hook > 0 BY <3>3 DEF HookDone
      <4> QED BY <4>1 DEF Shaped, ProfiledWhole
    <3>5. e.run = 0 \/ e.run = t.manifest.run BY <2>3
    <3>6. c.lifespan # 0 BY <1>7
    <3> QED BY <3>1, <3>3, <3>4, <3>5, <3>6 DEF MemDone
  <2> QED BY <2>2, <2>3
<1>8. CASE ~unfit /\ hooked = {}
  <2>1. o = Known(run \in t.directories.runs, r1) BY <1>1, <1>8
  <2>2. CASE run \in t.directories.runs BY <2>1, <2>2 DEF Known
  <2>3. CASE run \notin t.directories.runs
    <3>1. o = r1 BY <2>1, <2>3 DEF Known
    <3>2. ~Hooked(a) /\ ~Hooked(b) /\ ~Hooked(c) BY <1>8
    <3>3. Bare(a) /\ Bare(b) /\ Bare(c) BY <1>4, <1>5, <1>8, <3>2
    <3>4. ~r6.refused /\ r6.writes = <<Written(api, Hook(c))>> BY Parts DEF Written
    <3> HIDE DEF r6
    <3>5. ~r5.refused /\ r5.writes = Prepended(Written("gc", Hook(b)), r6.writes)
      <4> DEFINE h == Write("gc", Hook(b))  w == Written("gc", Hook(b))
      <4>1. ~h.refused /\ h.writes = <<w>> BY Parts DEF Written
      <4> HIDE DEF h, w
      <4>2. ~Then(h, r6).refused /\ Then(h, r6).writes = Prepended(w, r6.writes) BY <3>4, <4>1, ThenCons
      <4> QED BY <4>2 DEF h, w
    <3> HIDE DEF r5
    <3>6. ~r4.refused /\ r4.writes = Prepended(Written("worker", Hook(a)), r5.writes)
      <4> DEFINE h == Write("worker", Hook(a))  w == Written("worker", Hook(a))
      <4>1. ~h.refused /\ h.writes = <<w>> BY Parts DEF Written
      <4> HIDE DEF h, w
      <4>2. ~Then(h, r5).refused /\ Then(h, r5).writes = Prepended(w, r5.writes) BY <3>5, <4>1, ThenCons
      <4> QED BY <4>2 DEF h, w
    <3> HIDE DEF r4
    <3>7. ~r3.refused /\ r3.writes = Prepended(Written("manifest", RunNamed(t, e)), r4.writes)
      <4> DEFINE h == Write("manifest", RunNamed(t, e))  w == Written("manifest", RunNamed(t, e))
      <4>1. ~h.refused /\ h.writes = <<w>> BY Parts DEF Written
      <4> HIDE DEF h, w
      <4>2. ~Then(h, r4).refused /\ Then(h, r4).writes = Prepended(w, r4.writes) BY <3>6, <4>1, ThenCons
      <4> QED BY <4>2 DEF h, w
    <3> HIDE DEF r3
    <3>8. ~r2.refused /\ r2.writes = Prepended(Written("helper", Made), r3.writes)
      <4> DEFINE h == Write("helper", Made)  w == Written("helper", Made)
      <4>1. ~h.refused /\ h.writes = <<w>> BY Parts DEF Written
      <4> HIDE DEF h, w
      <4>2. ~Then(h, r3).refused /\ Then(h, r3).writes = Prepended(w, r3.writes) BY <3>7, <4>1, ThenCons
      <4> QED BY <4>2 DEF h, w
    <3> HIDE DEF r2
    <3>9. ~r1.refused /\ r1.writes = Prepended(RunMade(t, e), r2.writes)
      <4> DEFINE x == [runs |-> t.directories.runs \cup {run}]
                 h == Replace("directories", x)  w == RunMade(t, e)
      <4>1. ~h.refused /\ h.writes = <<w>> BY Parts DEF RunMade
      <4> HIDE DEF h, w
      <4>2. ~Then(h, r2).refused /\ Then(h, r2).writes = Prepended(w, r2.writes) BY <3>8, <4>1, ThenCons
      <4> QED BY <4>2 DEF h, w
    <3> HIDE DEF r1
    <3>10. o.writes = ProfileWrites(t, e)
      BY <3>1, <3>4, <3>5, <3>6, <3>7, <3>8, <3>9 DEF ProfileWrites, SixWrites
    <3>11. c.lifespan # 0 BY <1>8
    <3> HIDE DEF o, a, b, c
    <3> QED BY <3>1, <3>3, <3>9, <3>10, <3>11 DEF o, a, b, c
  <2> QED BY <2>2, <2>3
<1> QED BY <1>6, <1>7, <1>8

LEMMA HookFits ==
    ASSUME NEW f, IsText(f), Bare(f), {"hook", "hookStray", "exists"} \subseteq DOMAIN f
    PROVE  /\ Fits(f, Hook(f)) /\ HookDone(Hook(f))
           /\ \A p \in DOMAIN f : p # "hook" => Hook(f)[p] = f[p]
<1> DEFINE P == {"hook"}
           x == Add(f, P)
<1>1. f.hook = 0 /\ f.hookStray = 0 /\ f.exists # 0 BY DEF Bare
<1>2. ~Hooked(f) BY <1>1 DEF Hooked
<1>3. Hook(f) = x BY <1>2 DEF Hook
<1>4. \A p : p \in P <=> p = "hook" OBVIOUS
<1> HIDE DEF P
<1>5. Fits(f, x) /\ \A p \in DOMAIN f : x[p] = IF p \in P THEN f[p] + 1 ELSE f[p]
  BY <1>1, <1>4, AddFits
<1> HIDE DEF x
<1>6. x.hook = 1 /\ x.hookStray = 0 /\ x.exists # 0
  BY <1>1, <1>4, <1>5
<1> QED BY <1>3, <1>4, <1>5, <1>6 DEF HookDone

LEMMA ProfileSix ==
    ASSUME NEW t, NEW e
    PROVE  LET z == ProfileWrites(t, e)
               w1 == RunMade(t, e)
               w2 == Written("helper", Made)
               w3 == Written("manifest", RunNamed(t, e))
               w4 == Written("worker", Hook(t.worker))
               w5 == Written("gc", Hook(t.gc))
               w6 == Written(ApiFile(t), Hook(t[ApiFile(t)]))
           IN  /\ Ordered(z) /\ Six(z, w1, w2, w3, w4, w5, w6)
               /\ \A v : v \in ToSet(z) <=> v = w1 \/ v = w2 \/ v = w3 \/ v = w4 \/ v = w5 \/ v = w6
<1> DEFINE z == ProfileWrites(t, e)
           api == ApiFile(t)
           w1 == RunMade(t, e)
           w2 == Written("helper", Made)
           w3 == Written("manifest", RunNamed(t, e))
           w4 == Written("worker", Hook(t.worker))
           w5 == Written("gc", Hook(t.gc))
           w6 == Written(api, Hook(t[api]))
<1>1. api = "serverUtils" \/ api = "apiServer" BY DEF ApiFile
<1>2. /\ w1.file = "directories" /\ w2.file = "helper" /\ w3.file = "manifest"
      /\ w4.file = "worker" /\ w5.file = "gc" /\ w6.file = api
  BY DEF RunMade, Written
<1>3. z = SixWrites(w1, w2, w3, w4, w5, w6) BY DEF ProfileWrites
<1> HIDE DEF z, w1, w2, w3, w4, w5, w6, api
<1>4. /\ w1.file # w2.file /\ w1.file # w3.file /\ w1.file # w4.file /\ w1.file # w5.file /\ w1.file # w6.file
      /\ w2.file # w3.file /\ w2.file # w4.file /\ w2.file # w5.file /\ w2.file # w6.file
      /\ w3.file # w4.file /\ w3.file # w5.file /\ w3.file # w6.file
      /\ w4.file # w5.file /\ w4.file # w6.file /\ w5.file # w6.file
  BY <1>1, <1>2
<1>5. /\ Ordered(z) /\ Six(z, w1, w2, w3, w4, w5, w6)
      /\ \A v : v \in ToSet(z) <=> v = w1 \/ v = w2 \/ v = w3 \/ v = w4 \/ v = w5 \/ v = w6
  BY <1>3, <1>4, SixFacts
<1> QED BY <1>5 DEF z, w1, w2, w3, w4, w5, w6, api

LEMMA MemoryProfileSound ==
    ASSUME NEW t, NEW e, IsTree(t), Readable("memory_profile", t), Shaped("memory_profile", t)
    PROVE  Sound("memory_profile", t, e)
<1> DEFINE api == ApiFile(t)
           a == t.worker
           b == t.gc
           c == t[api]
           o == Outcome("memory_profile", t, e)
           w1 == RunMade(t, e)
           w2 == Written("helper", Made)
           w3 == Written("manifest", RunNamed(t, e))
           w4 == Written("worker", Hook(a))
           w5 == Written("gc", Hook(b))
           w6 == Written(api, Hook(c))
           bare == /\ Bare(a) /\ Bare(b) /\ Bare(c) /\ c.lifespan # 0
                   /\ ~o.refused /\ o.writes = ProfileWrites(t, e)
<1>1. o = Refuse \/ MemDone(t, e) \/ bare BY ProfileCases
<1>2. CASE o = Refuse BY <1>2 DEF Sound
<1>3. CASE MemDone(t, e) BY <1>3, MemDoneGood, KeepSound
<1>4. CASE bare
  <2>1. /\ IsText(a) /\ IsText(b) /\ IsText(c) /\ api \in {"serverUtils", "apiServer"}
        /\ {"hook", "hookStray", "exists"} \subseteq DOMAIN a
        /\ {"hook", "hookStray", "exists"} \subseteq DOMAIN b
        /\ {"hook", "hookStray", "exists", "lifespan"} \subseteq DOMAIN c
        /\ {"worker", "gc", "serverUtils", "apiServer", "helper", "manifest", "directories"} \subseteq DOMAIN t
    <3>1. api \in {"serverUtils", "apiServer"} BY DEF ApiFile
    <3>2. {"worker", "gc", "serverUtils", "apiServer", "helper", "manifest", "directories"} \subseteq DOMAIN t
      BY DEF Readable, Looks
    <3>3. IsText(t.worker) /\ IsText(t.gc) /\ IsText(t.serverUtils) /\ IsText(t.apiServer)
      BY <3>2 DEF IsTree, Sources
    <3>4. /\ {"hook", "hookStray"} \subseteq DOMAIN t.worker
          /\ {"hook", "hookStray"} \subseteq DOMAIN t.gc
          /\ {"hook", "hookStray", "lifespan"} \subseteq DOMAIN t.serverUtils
          /\ {"hook", "hookStray", "lifespan"} \subseteq DOMAIN t.apiServer
      BY DEF Readable, Looks
    <3> QED BY <3>1, <3>2, <3>3, <3>4 DEF IsText
  <2>2. Files("memory_profile") =
          {"worker", "gc", "serverUtils", "apiServer", "helper", "manifest", "directories"}
    BY DEF Files, Looks
  <2>3. /\ Ordered(o.writes)
        /\ \A v : v \in ToSet(o.writes) <=> v = w1 \/ v = w2 \/ v = w3 \/ v = w4 \/ v = w5 \/ v = w6
    BY <1>4, ProfileSix
  <2>4. /\ w1.file = "directories" /\ w1.text = [runs |-> t.directories.runs \cup {ProfileRun(t, e)}]
        /\ w2.file = "helper" /\ w2.text = Made
        /\ w3.file = "manifest" /\ w3.text = RunNamed(t, e)
        /\ w4.file = "worker" /\ w4.text = Hook(a) /\ w5.file = "gc" /\ w5.text = Hook(b)
        /\ w6.file = api /\ w6.text = Hook(c)
    BY DEF RunMade, Written
  <2>5. /\ DOMAIN w1.text = {"runs"} /\ w1.text.runs = t.directories.runs \cup {ProfileRun(t, e)}
        /\ DOMAIN w3.text = {"exists", "run"} /\ w3.text.run = ProfileRun(t, e) /\ w3.text.exists = 1
    BY <2>4 DEF RunNamed
  <2>6. DOMAIN Made = {"exists", "whole"} /\ IsText(Made) /\ Made.exists = 1 /\ Made.whole = 1
    BY DEF Made, IsText
  <2>7. /\ Fits(a, Hook(a)) /\ HookDone(Hook(a)) /\ Fits(b, Hook(b)) /\ HookDone(Hook(b))
        /\ Fits(c, Hook(c)) /\ HookDone(Hook(c)) /\ Hook(c).lifespan = c.lifespan
    <3>1. /\ Fits(a, Hook(a)) /\ HookDone(Hook(a)) /\ Fits(b, Hook(b)) /\ HookDone(Hook(b))
      BY <1>4, <2>1, HookFits
    <3>2. /\ Fits(c, Hook(c)) /\ HookDone(Hook(c))
          /\ \A p \in DOMAIN c : p # "hook" => Hook(c)[p] = c[p]
      <4>1. Bare(c) BY <1>4
      <4>2. IsText(c) /\ {"hook", "hookStray", "exists"} \subseteq DOMAIN c BY <2>1
      <4> HIDE DEF c
      <4> QED BY <4>1, <4>2, HookFits
    <3> QED BY <2>1, <3>1, <3>2
  <2>8. /\ DOMAIN t.helper = {"exists", "whole"} /\ DOMAIN t.manifest = {"exists", "run"}
        /\ DOMAIN t.directories = {"runs"}
    BY DEF Shaped
  <2> HIDE DEF w1, w2, w3, w4, w5, w6, o
  <2>9. \A w \in ToSet(o.writes) :
           w.file \in Files("memory_profile") /\ w.file \in DOMAIN t /\ Alike(w.file, t[w.file], w.text)
    <3>1. /\ Alike("directories", t.directories, w1.text)
          /\ Alike("helper", t.helper, w2.text)
          /\ Alike("manifest", t.manifest, w3.text)
          /\ Alike("worker", t.worker, w4.text) /\ Alike("gc", t.gc, w5.text)
          /\ Alike(api, t[api], w6.text)
      BY <2>4, <2>5, <2>6, <2>7, <2>8 DEF Alike, Fits
    <3> HIDE DEF a, b, c, api
    <3> QED BY <2>1, <2>2, <2>3, <2>4, <3>1
  <2>10. ASSUME NEW u, Applied(o, t, u) PROVE Good("memory_profile", u, e)
    <3>1. /\ DOMAIN u = DOMAIN t
          /\ \A f \in DOMAIN t : u[f] = t[f] \/ \E w \in ToSet(o.writes) : w.file = f
          /\ \A w \in ToSet(o.writes) : u[w.file] = w.text
      BY <2>10 DEF Applied, Between
    <3>2. /\ u.directories = w1.text /\ u.helper = Made /\ u.manifest = w3.text
          /\ u.worker = Hook(a) /\ u.gc = Hook(b) /\ u[api] = Hook(c)
      <4> HIDE DEF a, b, c, api
      <4>1. w1 \in ToSet(o.writes) /\ w2 \in ToSet(o.writes) /\ w3 \in ToSet(o.writes)
            /\ w4 \in ToSet(o.writes) /\ w5 \in ToSet(o.writes) /\ w6 \in ToSet(o.writes)
        BY <2>3
      <4>2. /\ u[w1.file] = w1.text /\ u[w2.file] = w2.text /\ u[w3.file] = w3.text
            /\ u[w4.file] = w4.text /\ u[w5.file] = w5.text /\ u[w6.file] = w6.text
        BY <3>1, <4>1
      <4> QED BY <2>4, <4>2
    <3>3. ApiFile(u) = api
      <4>1. CASE api = "serverUtils"
        <5>1. u.serverUtils = Hook(c) BY <3>2, <4>1
        <5>2. u.serverUtils.lifespan = t.serverUtils.lifespan BY <2>7, <4>1, <5>1
        <5> QED BY <4>1, <5>2 DEF ApiFile
      <4>2. CASE api # "serverUtils"
        <5>1. api = "apiServer" BY <2>1, <4>2
        <5>2. u.serverUtils = t.serverUtils
          <6> HIDE DEF a, b, c, api
          <6>1. \A w \in ToSet(o.writes) : w.file # "serverUtils" BY <2>3, <2>4, <5>1
          <6> QED BY <2>1, <3>1, <6>1
        <5> QED BY <4>2, <5>2 DEF ApiFile
      <4> QED BY <4>1, <4>2
    <3>4. MemDone(u, e)
      <4>1. HookDone(u.worker) /\ HookDone(u.gc) /\ HookDone(u[api]) /\ u[api].lifespan # 0
        <5> HIDE DEF a, b, c, api
        <5> QED BY <1>4, <2>7, <3>2
      <4>2. u.manifest.run = ProfileRun(t, e) /\ u.manifest.exists = 1
            /\ u.directories.runs = t.directories.runs \cup {ProfileRun(t, e)}
        BY <2>5, <3>2
      <4>3. e.run = 0 \/ e.run = ProfileRun(t, e) BY DEF ProfileRun
      <4>4. u.helper.exists = 1 /\ u.helper.whole = 1 BY <2>6, <3>2
      <4> HIDE DEF api
      <4> QED BY <3>3, <4>1, <4>2, <4>3, <4>4 DEF MemDone
    <3> QED BY <3>4, MemDoneGood
  <2> QED BY <1>4, <2>3, <2>9, <2>10 DEF Sound, o
<1> QED BY <1>1, <1>2, <1>3, <1>4

-----------------------------------------------------------------------------
(* Every script, and which of them share files. *)

(* Whatever a script finds it refuses, or leaves itself nothing to do.     *)
LEMMA AllSound ==
    ASSUME NEW s, NEW t, NEW e, IsTree(t), Readable(s, t), Shaped(s, t)
    PROVE  Sound(s, t, e)
<1>a. ASSUME NEW F, F \in Files(s), F \notin {"directories", "manifest"} PROVE F \in Sources(t)
  BY <1>a DEF Files, Readable, Sources
<1>1. CASE s = "swa_block_size"
  <2>1. Mends(s, "attention", t, e) BY <1>1, SwaBlockSizeMends
  <2>2. "attention" \in Files(s) BY <1>1 DEF Files, Looks
  <2> QED BY <1>a, <2>1, <2>2, MendsSound
<1>2. CASE s = "mrv2_speculator"
  <2>1. Mends(s, "profiler", t, e) BY <1>2, Mrv2SpeculatorMends
  <2>2. "profiler" \in Files(s) BY <1>2 DEF Files, Looks
  <2> QED BY <1>a, <2>1, <2>2, MendsSound
<1>3. CASE s = "c128a"
  <2>1. Mends(s, "mla", t, e) BY <1>3, C128aAlignmentMends
  <2>2. "mla" \in Files(s) BY <1>3 DEF Files, Looks
  <2> QED BY <1>a, <2>1, <2>2, MendsSound
<1>4. CASE s = "topk_softplus"
  <2>1. Mends(s, "ops", t, e) BY <1>4, TopkSoftplusMends
  <2>2. "ops" \in Files(s) BY <1>4 DEF Files, Looks
  <2> QED BY <1>a, <2>1, <2>2, MendsSound
<1>5. CASE s = "sm12x"
  <2>1. Mends(s, "cmake", t, e) BY <1>5, PreserveSm12xMends
  <2>2. "cmake" \in Files(s) BY <1>5 DEF Files, Looks
  <2> QED BY <1>a, <2>1, <2>2, MendsSound
<1>6. CASE s = "diffusion"
  <2>1. Mends(s, "attnUtils", t, e) BY <1>6, DiffusionCausalMends
  <2>2. "attnUtils" \in Files(s) BY <1>6 DEF Files, Looks
  <2> QED BY <1>a, <2>1, <2>2, MendsSound
<1>7. CASE s = "gemma4"
  <2>1. Mends(s, "proposer", t, e) BY <1>7, Gemma4EmbeddingMends
  <2>2. "proposer" \in Files(s) BY <1>7 DEF Files, Looks
  <2> QED BY <1>a, <2>1, <2>2, MendsSound
<1>8. CASE s = "sm120_topk"
  <2>1. Mends(s, "indexer", t, e) BY <1>8, Sm120TopkMends
  <2>2. "indexer" \in Files(s) BY <1>8 DEF Files, Looks
  <2> QED BY <1>a, <2>1, <2>2, MendsSound
<1>9. CASE s = "autogptq"
  <2>1. Mends(s, "autogptq", t, e) BY <1>9, AutogptqQzerosMends
  <2>2. "autogptq" \in Files(s) BY <1>9 DEF Files, Looks
  <2> QED BY <1>a, <2>1, <2>2, MendsSound
<1>10. CASE s = "routed_experts"
  <2>1. Mends(s, "routed", t, e) BY <1>10, RoutedExpertsMends
  <2>2. "routed" \in Files(s) BY <1>10 DEF Files, Looks
  <2> QED BY <1>a, <2>1, <2>2, MendsSound
<1>11. CASE s = "minimax"
  <2>1. Mends(s, "minimax", t, e) BY <1>11, MinimaxIpcMends
  <2>2. "minimax" \in Files(s) BY <1>11 DEF Files, Looks
  <2> QED BY <1>a, <2>1, <2>2, MendsSound
<1>12. CASE s = "loader_include_order"
  <2>1. Mends(s, "storage", t, e) BY <1>12, LoaderIncludeOrderMends
  <2>2. "storage" \in Files(s) BY <1>12 DEF Files, Looks
  <2> QED BY <1>a, <2>1, <2>2, MendsSound
<1>13. CASE s = "kv_cleanup"
  <2>1. Mends(s, "worker", t, e) BY <1>13, KvCleanupMends
  <2>2. "worker" \in Files(s) BY <1>13 DEF Files, Looks
  <2> QED BY <1>a, <2>1, <2>2, MendsSound
<1>14. CASE s = "heap_trim"
  <2>1. Mends(s, "gc", t, e) BY <1>14, HeapTrimMends
  <2>2. "gc" \in Files(s) BY <1>14 DEF Files, Looks
  <2> QED BY <1>a, <2>1, <2>2, MendsSound
<1>15. CASE s = "moe_tuning"
  <2>1. Mends(s, "moe", t, e) BY <1>15, MoeTuningMends
  <2>2. "moe" \in Files(s) BY <1>15 DEF Files, Looks
  <2> QED BY <1>a, <2>1, <2>2, MendsSound
<1>16. CASE s = "tuning_batch"
  <2>1. Mends(s, "prepare", t, e) BY <1>16, TuningBatchMends
  <2>2. "prepare" \in Files(s) BY <1>16 DEF Files, Looks
  <2> QED BY <1>a, <2>1, <2>2, MendsSound
<1>17. CASE s = "scale_swizzle"
  <2>1. Mends(s, "b12x", t, e) BY <1>17, ScaleSwizzleMends
  <2>2. "b12x" \in Files(s) BY <1>17 DEF Files, Looks
  <2> QED BY <1>a, <2>1, <2>2, MendsSound
<1>18. CASE s = "wsl_uma"
  <2>1. Mends(s, "mem", t, e) BY <1>18, WslUmaMends
  <2>2. "mem" \in Files(s) BY <1>18 DEF Files, Looks
  <2> QED BY <1>a, <2>1, <2>2, MendsSound
<1>19. CASE s = "pin_cutlass"
  <2>1. Mends(s, "requirements", t, e) BY <1>19, PinCutlassMends
  <2>2. "requirements" \in Files(s) BY <1>19 DEF Files, Looks
  <2> QED BY <1>a, <2>1, <2>2, MendsSound
<1>20. CASE s = "instanttensor_memory"
  <2>1. Mends(s, "impl", t, e) BY <1>20, InstantTensorMemoryMends
  <2>2. "impl" \in Files(s) BY <1>20 DEF Files, Looks
  <2> QED BY <1>a, <2>1, <2>2, MendsSound
<1>21. CASE s = "torch_schema"
  <2>1. Mends(s, "library", t, e) BY <1>21, TorchSchemaMends
  <2>2. "library" \in Files(s) BY <1>21 DEF Files, Looks
  <2> QED BY <1>a, <2>1, <2>2, MendsSound
<1>22. CASE s = "hybrid_draft_loader"
  <2>1. Mends(s, "loader", t, e) BY <1>22, HybridDraftLoaderMends
  <2>2. "loader" \in Files(s) BY <1>22 DEF Files, Looks
  <2> QED BY <1>a, <2>1, <2>2, MendsSound
<1>23. CASE s = "zero_copy"
  <2>1. Mends(s, "weights", t, e) BY <1>23, ZeroCopyMends
  <2>2. "weights" \in Files(s) BY <1>23 DEF Files, Looks
  <2> QED BY <1>a, <2>1, <2>2, MendsSound
<1>24. CASE s = "qwen_router_gate"
  <2>1. Mends(s, "qwen", t, e) BY <1>24, QwenRouterGateMends
  <2>2. "qwen" \in Files(s) BY <1>24 DEF Files, Looks
  <2> QED BY <1>a, <2>1, <2>2, MendsSound
<1>25. CASE s = "rope_keys"
  <2>1. Mends(s, "rope", t, e) BY <1>25, RopeKeysMends
  <2>2. "rope" \in Files(s) BY <1>25 DEF Files, Looks
  <2> QED BY <1>a, <2>1, <2>2, MendsSound
<1>26. CASE s = "api_key_auth" BY <1>26, ApiKeyAuthSound
<1>27. CASE s = "swigluoai" BY <1>27, SwigluoaiSound
<1>28. CASE s = "inkling" BY <1>28, InklingSound DEF Shaped
<1>29. CASE s = "memory_profile" BY <1>29, MemoryProfileSound
<1>30. CASE s \notin {"swa_block_size", "mrv2_speculator", "c128a", "topk_softplus", "sm12x",
         "diffusion", "gemma4", "sm120_topk", "autogptq", "routed_experts",
         "minimax", "loader_include_order", "kv_cleanup", "heap_trim", "moe_tuning",
         "tuning_batch", "scale_swizzle", "wsl_uma", "pin_cutlass",
         "instanttensor_memory", "torch_schema", "hybrid_draft_loader", "zero_copy",
         "qwen_router_gate", "rope_keys", "api_key_auth", "swigluoai", "inkling",
         "memory_profile"}
  <2>1. Outcome(s, t, e) = Keep /\ ~Affected(s, t, e) BY <1>30 DEF Outcome, Affected
  <2>2. Good(s, t, e) BY <1>30, <2>1, KeepSettled DEF Good
  <2> QED BY <2>1, <2>2, KeepSound
<1> QED BY <1>1, <1>2, <1>3, <1>4, <1>5, <1>6, <1>7, <1>8, <1>9, <1>10, <1>11, <1>12, <1>13, <1>14, <1>15, <1>16, <1>17, <1>18, <1>19, <1>20, <1>21, <1>22, <1>23, <1>24, <1>25, <1>26, <1>27, <1>28, <1>29, <1>30

(* The three scripts that share the GPU worker's files; no other files are  *)
(* shared.                                                                 *)
Sharing == {"kv_cleanup", "heap_trim", "memory_profile"}
Owner(f) ==
    CASE f = "attention" -> "swa_block_size"
      [] f = "profiler" -> "mrv2_speculator"
      [] f \in {"mla", "compressor"} -> "c128a"
      [] f = "ops" -> "topk_softplus"
      [] f = "cmake" -> "sm12x"
      [] f = "attnUtils" -> "diffusion"
      [] f = "proposer" -> "gemma4"
      [] f = "indexer" -> "sm120_topk"
      [] f = "autogptq" -> "autogptq"
      [] f = "routed" -> "routed_experts"
      [] f = "minimax" -> "minimax"
      [] f = "storage" -> "loader_include_order"
      [] f = "moe" -> "moe_tuning"
      [] f = "prepare" -> "tuning_batch"
      [] f = "b12x" -> "scale_swizzle"
      [] f = "mem" -> "wsl_uma"
      [] f = "requirements" -> "pin_cutlass"
      [] f = "impl" -> "instanttensor_memory"
      [] f = "library" -> "torch_schema"
      [] f = "loader" -> "hybrid_draft_loader"
      [] f = "weights" -> "zero_copy"
      [] f = "qwen" -> "qwen_router_gate"
      [] f = "rope" -> "rope_keys"
      [] f \in {"auth", "common", "launchers"} -> "api_key_auth"
      [] f \in {"util", "expert", "oracle"} -> "swigluoai"
      [] f \in {"inkling", "vendor", "adapter"} -> "inkling"
      [] OTHER -> "memory_profile"

LEMMA OwnerOf ==
    ASSUME NEW s, NEW f \in Files(s)
    PROVE  Owner(f) = IF s \in Sharing THEN "memory_profile" ELSE s
<1>1. CASE s = "swa_block_size"
  <2>1. f \in {"attention"} BY <1>1 DEF Files, Looks
  <2> QED BY <1>1, <2>1 DEF Owner, Sharing
<1>2. CASE s = "mrv2_speculator"
  <2>1. f \in {"profiler"} BY <1>2 DEF Files, Looks
  <2> QED BY <1>2, <2>1 DEF Owner, Sharing
<1>3. CASE s = "c128a"
  <2>1. f \in {"mla", "compressor"} BY <1>3 DEF Files, Looks
  <2> QED BY <1>3, <2>1 DEF Owner, Sharing
<1>4. CASE s = "topk_softplus"
  <2>1. f \in {"ops"} BY <1>4 DEF Files, Looks
  <2> QED BY <1>4, <2>1 DEF Owner, Sharing
<1>5. CASE s = "sm12x"
  <2>1. f \in {"cmake"} BY <1>5 DEF Files, Looks
  <2> QED BY <1>5, <2>1 DEF Owner, Sharing
<1>6. CASE s = "diffusion"
  <2>1. f \in {"attnUtils"} BY <1>6 DEF Files, Looks
  <2> QED BY <1>6, <2>1 DEF Owner, Sharing
<1>7. CASE s = "gemma4"
  <2>1. f \in {"proposer"} BY <1>7 DEF Files, Looks
  <2> QED BY <1>7, <2>1 DEF Owner, Sharing
<1>8. CASE s = "sm120_topk"
  <2>1. f \in {"indexer"} BY <1>8 DEF Files, Looks
  <2> QED BY <1>8, <2>1 DEF Owner, Sharing
<1>9. CASE s = "autogptq"
  <2>1. f \in {"autogptq"} BY <1>9 DEF Files, Looks
  <2> QED BY <1>9, <2>1 DEF Owner, Sharing
<1>10. CASE s = "routed_experts"
  <2>1. f \in {"routed"} BY <1>10 DEF Files, Looks
  <2> QED BY <1>10, <2>1 DEF Owner, Sharing
<1>11. CASE s = "minimax"
  <2>1. f \in {"minimax"} BY <1>11 DEF Files, Looks
  <2> QED BY <1>11, <2>1 DEF Owner, Sharing
<1>12. CASE s = "loader_include_order"
  <2>1. f \in {"storage"} BY <1>12 DEF Files, Looks
  <2> QED BY <1>12, <2>1 DEF Owner, Sharing
<1>13. CASE s = "kv_cleanup"
  <2>1. f \in {"worker"} BY <1>13 DEF Files, Looks
  <2> QED BY <1>13, <2>1 DEF Owner, Sharing
<1>14. CASE s = "heap_trim"
  <2>1. f \in {"gc"} BY <1>14 DEF Files, Looks
  <2> QED BY <1>14, <2>1 DEF Owner, Sharing
<1>15. CASE s = "moe_tuning"
  <2>1. f \in {"moe"} BY <1>15 DEF Files, Looks
  <2> QED BY <1>15, <2>1 DEF Owner, Sharing
<1>16. CASE s = "tuning_batch"
  <2>1. f \in {"prepare"} BY <1>16 DEF Files, Looks
  <2> QED BY <1>16, <2>1 DEF Owner, Sharing
<1>17. CASE s = "scale_swizzle"
  <2>1. f \in {"b12x"} BY <1>17 DEF Files, Looks
  <2> QED BY <1>17, <2>1 DEF Owner, Sharing
<1>18. CASE s = "wsl_uma"
  <2>1. f \in {"mem"} BY <1>18 DEF Files, Looks
  <2> QED BY <1>18, <2>1 DEF Owner, Sharing
<1>19. CASE s = "pin_cutlass"
  <2>1. f \in {"requirements"} BY <1>19 DEF Files, Looks
  <2> QED BY <1>19, <2>1 DEF Owner, Sharing
<1>20. CASE s = "instanttensor_memory"
  <2>1. f \in {"impl"} BY <1>20 DEF Files, Looks
  <2> QED BY <1>20, <2>1 DEF Owner, Sharing
<1>21. CASE s = "torch_schema"
  <2>1. f \in {"library"} BY <1>21 DEF Files, Looks
  <2> QED BY <1>21, <2>1 DEF Owner, Sharing
<1>22. CASE s = "hybrid_draft_loader"
  <2>1. f \in {"loader"} BY <1>22 DEF Files, Looks
  <2> QED BY <1>22, <2>1 DEF Owner, Sharing
<1>23. CASE s = "zero_copy"
  <2>1. f \in {"weights"} BY <1>23 DEF Files, Looks
  <2> QED BY <1>23, <2>1 DEF Owner, Sharing
<1>24. CASE s = "qwen_router_gate"
  <2>1. f \in {"qwen"} BY <1>24 DEF Files, Looks
  <2> QED BY <1>24, <2>1 DEF Owner, Sharing
<1>25. CASE s = "rope_keys"
  <2>1. f \in {"rope"} BY <1>25 DEF Files, Looks
  <2> QED BY <1>25, <2>1 DEF Owner, Sharing
<1>26. CASE s = "api_key_auth"
  <2>1. f \in {"auth", "common", "launchers"} BY <1>26 DEF Files, Looks
  <2> QED BY <1>26, <2>1 DEF Owner, Sharing
<1>27. CASE s = "swigluoai"
  <2>1. f \in {"util", "expert", "oracle"} BY <1>27 DEF Files, Looks
  <2> QED BY <1>27, <2>1 DEF Owner, Sharing
<1>28. CASE s = "inkling"
  <2>1. f \in {"inkling", "vendor", "adapter"} BY <1>28 DEF Files, Looks
  <2> QED BY <1>28, <2>1 DEF Owner, Sharing
<1>29. CASE s = "memory_profile"
  <2>1. f \in {"worker", "gc", "serverUtils", "apiServer", "helper", "manifest", "directories"} BY <1>29 DEF Files, Looks
  <2> QED BY <1>29, <2>1 DEF Owner, Sharing
<1>30. CASE s \notin {"swa_block_size", "mrv2_speculator", "c128a", "topk_softplus", "sm12x",
         "diffusion", "gemma4", "sm120_topk", "autogptq", "routed_experts",
         "minimax", "loader_include_order", "kv_cleanup", "heap_trim", "moe_tuning",
         "tuning_batch", "scale_swizzle", "wsl_uma", "pin_cutlass",
         "instanttensor_memory", "torch_schema", "hybrid_draft_loader", "zero_copy",
         "qwen_router_gate", "rope_keys", "api_key_auth", "swigluoai", "inkling",
         "memory_profile"}
  <2>1. Looks(s) = <<>> BY <1>30 DEF Looks
  <2> QED BY <2>1 DEF Files
<1> QED BY <1>1, <1>2, <1>3, <1>4, <1>5, <1>6, <1>7, <1>8, <1>9, <1>10, <1>11, <1>12, <1>13, <1>14, <1>15, <1>16, <1>17, <1>18, <1>19, <1>20, <1>21, <1>22, <1>23, <1>24, <1>25, <1>26, <1>27, <1>28, <1>29, <1>30

LEMMA Apart ==
    ASSUME NEW r, NEW s, r # s, NEW f, f \in Files(r), f \in Files(s)
    PROVE  r \in Sharing /\ s \in Sharing
BY OwnerOf DEF Sharing

-----------------------------------------------------------------------------
(* A tree on which some of the writes of an outcome have been made. *)

(* The tree after the first k writes of an outcome decided on t.           *)
Partly(o, t, v, k) ==
    /\ k \in 0 .. Len(o.writes)
    /\ DOMAIN v = DOMAIN t /\ v = [f \in DOMAIN v |-> v[f]]
    /\ \A j \in 1 .. k : v[o.writes[j].file] = o.writes[j].text
    /\ \A f \in DOMAIN t : (\A j \in 1 .. k : o.writes[j].file # f) => v[f] = t[f]

(* The writes are of different files of the tree, and keep it a tree.      *)
Orderly(s, t, o) ==
    /\ ~o.refused /\ Ordered(o.writes)
    /\ \A w \in ToSet(o.writes) :
          w.file \in Files(s) /\ w.file \in DOMAIN t /\ Alike(w.file, t[w.file], w.text)

LEMMA SoundOrderly ==
    ASSUME NEW s, NEW t, NEW e, Sound(s, t, e), ~Outcome(s, t, e).refused
    PROVE  Orderly(s, t, Outcome(s, t, e)) /\ \A u : Applied(Outcome(s, t, e), t, u) => Good(s, u, e)
BY DEF Sound, Orderly, Refuse

LEMMA WriteAt ==
    ASSUME NEW y, Ordered(y)
    PROVE  /\ Len(y) \in Nat /\ \A j \in 1 .. Len(y) : y[j] \in ToSet(y)
           /\ \A w \in ToSet(y) : \E j \in 1 .. Len(y) : w = y[j]
<1>1. y \in Seq(ToSet(y)) BY DEF Ordered
<1>2. DOMAIN y = 1 .. Len(y) /\ Len(y) \in Nat BY <1>1
<1> QED BY <1>2 DEF ToSet

LEMMA PartlyNone ==
    ASSUME NEW o, NEW t, IsTree(t), Ordered(o.writes)
    PROVE  Partly(o, t, t, 0)
<1>1. Len(o.writes) \in Nat BY WriteAt
<1> QED BY <1>1 DEF Partly, IsTree

LEMMA PartlyNext ==
    ASSUME NEW s, NEW o, NEW t, NEW v, NEW k, Orderly(s, t, o), Partly(o, t, v, k), k < Len(o.writes),
           NEW w, w = o.writes[k + 1], NEW u, u = [v EXCEPT ![w.file] = w.text]
    PROVE  Partly(o, t, u, k + 1)
<1> DEFINE y == o.writes
<1>1. Ordered(y) /\ Len(y) \in Nat /\ k \in Nat /\ k + 1 \in 1 .. Len(y)
  BY WriteAt DEF Orderly, Partly
<1>2. w \in ToSet(y) /\ w.file \in DOMAIN t BY <1>1, WriteAt DEF Orderly
<1>3. DOMAIN v = DOMAIN t BY DEF Partly
<1>4. /\ DOMAIN u = DOMAIN t /\ u[w.file] = w.text
      /\ \A f \in DOMAIN t \ {w.file} : u[f] = v[f]
      /\ u = [f \in DOMAIN u |-> u[f]]
  BY <1>2, <1>3
<1> HIDE DEF y
<1>5. ASSUME NEW j \in 1 .. k + 1 PROVE u[y[j].file] = y[j].text
  <2>1. CASE j = k + 1 BY <1>4, <2>1 DEF y
  <2>2. CASE j # k + 1
    <3>1. j \in 1 .. k /\ j \in 1 .. Len(y) BY <1>1, <2>2
    <3>2. v[y[j].file] = y[j].text BY <3>1 DEF Partly, y
    <3>3. y[j].file # y[k + 1].file BY <1>1, <2>2, <3>1 DEF Ordered
    <3>4. y[j].file \in DOMAIN t
      <4>1. y[j] \in ToSet(y) BY <1>1, <3>1, WriteAt
      <4> QED BY <4>1 DEF Orderly, y
    <3>5. w = y[k + 1] BY DEF y
    <3> QED BY <1>4, <3>2, <3>3, <3>4, <3>5
  <2> QED BY <2>1, <2>2
<1>6. ASSUME NEW f \in DOMAIN t, \A j \in 1 .. k + 1 : y[j].file # f PROVE u[f] = t[f]
  <2>1. y[k + 1].file # f /\ \A j \in 1 .. k : y[j].file # f BY <1>1, <1>6
  <2>2. w = y[k + 1] BY DEF y
  <2>3. v[f] = t[f] BY <2>1 DEF Partly, y
  <2> QED BY <1>4, <2>1, <2>2, <2>3
<1>7. k + 1 \in 0 .. Len(y) BY <1>1
<1> QED BY <1>4, <1>5, <1>6, <1>7 DEF Partly, y

LEMMA PartlyBetween ==
    ASSUME NEW o, NEW t, NEW v, NEW k, Ordered(o.writes), Partly(o, t, v, k)
    PROVE  Between(o, t, v) /\ (k = Len(o.writes) => Applied(o, t, v))
<1> DEFINE y == o.writes
<1>1. Len(y) \in Nat /\ k \in 0 .. Len(y) BY WriteAt DEF Partly
<1>2. ASSUME NEW f \in DOMAIN t, v[f] # t[f] PROVE \E w \in ToSet(y) : w.file = f /\ w.text = v[f]
  <2>1. PICK j \in 1 .. k : y[j].file = f BY <1>2 DEF Partly
  <2>2. y[j].text = v[f] BY <2>1 DEF Partly
  <2>3. j \in 1 .. Len(y) BY <1>1
  <2>4. y[j] \in ToSet(y) BY <2>3, WriteAt
  <2> HIDE DEF y
  <2> QED BY <2>1, <2>2, <2>4
<1>3. Between(o, t, v) BY <1>2 DEF Between, Partly
<1>4. ASSUME k = Len(y), NEW w \in ToSet(y) PROVE v[w.file] = w.text
  <2>1. PICK j \in 1 .. Len(y) : w = y[j] BY WriteAt
  <2> QED BY <1>4, <2>1 DEF Partly
<1> QED BY <1>3, <1>4 DEF Applied

LEMMA BetweenTree ==
    ASSUME NEW s, NEW o, NEW t, NEW v, IsTree(t), Orderly(s, t, o), Between(o, t, v)
    PROVE  /\ IsTree(v) /\ \A f \in DOMAIN t : DOMAIN v[f] = DOMAIN t[f]
           /\ \A r : Readable(r, t) => Readable(r, v)
           /\ \A f \in DOMAIN t \ Files(s) : v[f] = t[f]
<1>1. DOMAIN v = DOMAIN t /\ v = [f \in DOMAIN v |-> v[f]] BY DEF Between
<1>2. ASSUME NEW f \in DOMAIN t
      PROVE  /\ DOMAIN v[f] = DOMAIN t[f] /\ (f \in Sources(t) => IsText(v[f]))
             /\ (f \notin Files(s) => v[f] = t[f])
  <2>1. CASE v[f] = t[f] BY <2>1 DEF IsTree
  <2>2. CASE v[f] # t[f]
    <3>1. PICK w \in ToSet(o.writes) : w.file = f /\ w.text = v[f] BY <2>2 DEF Between
    <3>2. w.file \in Files(s) /\ Alike(w.file, t[w.file], w.text) BY DEF Orderly
    <3> QED BY <3>1, <3>2 DEF Alike, Sources
  <2> QED BY <2>1, <2>2
<1>3. IsTree(v) BY <1>1, <1>2 DEF IsTree, Sources
<1> QED BY <1>1, <1>2, <1>3 DEF Readable

-----------------------------------------------------------------------------
(* Scripts that share files leave one another's work alone. *)

LEMMA AddLeaves ==
    ASSUME NEW f, NEW P, NEW p \in DOMAIN f, p \notin P
    PROVE  Add(f, P)[p] = f[p]
BY DEF Add

(* The KV-cache and the heap script leave the profiler's hooks alone.      *)
HookAlike(f, g) == g.exists = f.exists /\ g.hook = f.hook /\ g.hookStray = f.hookStray

LEMMA KvKeepsHook ==
    ASSUME NEW t, NEW e, IsTree(t), Readable("kv_cleanup", t),
           NEW w, w \in ToSet(Outcome("kv_cleanup", t, e).writes)
    PROVE  w.file = "worker" /\ HookAlike(t.worker, w.text)
<1> DEFINE f == t.worker
           before == {p \in {"cleanBeforeSnapshot"} : f.snapshot > 0}
           first == IF before # {} THEN before ELSE {"cleanBeforeFree"}
           P == (IF f.prealloc > 0 /\ KvRefreshed(f) THEN {}
                       ELSE {p \in {"importGc"} : f.importGc = 0})
                      \cup (IF KvRefreshed(f) THEN {} ELSE first \cup {"measure", "charge"})
                      \cup {p \in {"trim", "prealloc"} : f[p] = 0}
           x == Add(f, P)
           unknown == \/ f.exists = 0
                      \/ ~KvRefreshed(f) /\ f.snapshot + f.freeMemory = 0
                      \/ f.trim = 0 /\ x.measure = 0
                      \/ f.prealloc = 0 /\ f.initialize = 0
           o == Outcome("kv_cleanup", t, e)
           z == [file |-> "worker", text |-> x, atomic |-> FALSE]
<1>1. {"exists", "hook", "hookStray"} \subseteq DOMAIN f
  BY DEF Readable, Looks, IsTree, Sources, IsText
<1>2. "exists" \notin P /\ "hook" \notin P /\ "hookStray" \notin P OBVIOUS
<1>3. o = Known(unknown, IF x = f THEN Keep ELSE Write("worker", x))
  BY DEF Outcome, KvCleanup
<1>z. z.file = "worker" /\ z.text = x OBVIOUS
<1> HIDE DEF P
<1>4. HookAlike(f, x) BY <1>1, <1>2, AddLeaves DEF HookAlike
<1> HIDE DEF x, f, unknown
<1>5. o = Refuse \/ o = Keep \/ o = Write("worker", x) BY <1>3 DEF Known
<1>m. w \in ToSet(o.writes) OBVIOUS
<1>6. o.writes = <<>> \/ o.writes = <<z>>
  <2>1. Refuse.writes = <<>> /\ Keep.writes = <<>> BY DEF Refuse, Keep
  <2>2. Write("worker", x).writes = <<z>> BY Parts
  <2> HIDE DEF z, o
  <2> QED BY <1>5, <2>1, <2>2
<1> HIDE DEF z, o
<1>7. w = z
  <2>1. CASE o.writes = <<>> BY <1>m, <2>1, NoWrite
  <2>2. CASE o.writes = <<z>>
    <3>1. ToSet(<<z>>) = {z} BY OneWrite
    <3>2. w \in ToSet(<<z>>) BY <1>m, <2>2
    <3> QED BY <3>1, <3>2
  <2> QED BY <1>6, <2>1, <2>2
<1> QED BY <1>4, <1>7, <1>z DEF f

LEMMA HeapKeepsHook ==
    ASSUME NEW t, NEW e, IsTree(t), Readable("heap_trim", t),
           NEW w, w \in ToSet(Outcome("heap_trim", t, e).writes)
    PROVE  w.file = "gc" /\ HookAlike(t.gc, w.text)
<1> DEFINE f == t.gc
           P == {"trim"}
           x == Add(f, P)
           o == Outcome("heap_trim", t, e)
           z == [file |-> "gc", text |-> x, atomic |-> FALSE]
<1>1. {"exists", "hook", "hookStray"} \subseteq DOMAIN f
  BY DEF Readable, Looks, IsTree, Sources, IsText
<1>2. "exists" \notin P /\ "hook" \notin P /\ "hookStray" \notin P OBVIOUS
<1>3. o = Refuse \/ o = Keep \/ o = Write("gc", x)
  BY DEF Outcome, HeapTrim, Known
<1>z. z.file = "gc" /\ z.text = x OBVIOUS
<1> HIDE DEF P
<1>4. HookAlike(f, x) BY <1>1, <1>2, AddLeaves DEF HookAlike
<1> HIDE DEF x, f
<1>m. w \in ToSet(o.writes) OBVIOUS
<1>6. o.writes = <<>> \/ o.writes = <<z>>
  <2>1. Refuse.writes = <<>> /\ Keep.writes = <<>> BY DEF Refuse, Keep
  <2>2. Write("gc", x).writes = <<z>> BY Parts
  <2> HIDE DEF z, o
  <2> QED BY <1>3, <2>1, <2>2
<1> HIDE DEF z, o
<1>7. w = z
  <2>1. CASE o.writes = <<>> BY <1>m, <2>1, NoWrite
  <2>2. CASE o.writes = <<z>>
    <3>1. ToSet(<<z>>) = {z} BY OneWrite
    <3>2. w \in ToSet(<<z>>) BY <1>m, <2>2
    <3> QED BY <3>1, <3>2
  <2> QED BY <1>6, <2>1, <2>2
<1> QED BY <1>4, <1>7, <1>z DEF f

(* What the profiler does to the files it shares: a hook, nothing else.    *)
LEMMA ProfileTouches ==
    ASSUME NEW t, NEW e, IsTree(t), Readable("memory_profile", t), Shaped("memory_profile", t),
           NEW w, w \in ToSet(Outcome("memory_profile", t, e).writes)
    PROVE  /\ w.file = "worker" => IsText(t.worker) /\ Bare(t.worker) /\ w.text = Hook(t.worker)
           /\ w.file = "gc" => IsText(t.gc) /\ Bare(t.gc) /\ w.text = Hook(t.gc)
<1> DEFINE api == ApiFile(t)
           o == Outcome("memory_profile", t, e)
           w1 == RunMade(t, e)
           w2 == Written("helper", Made)
           w3 == Written("manifest", RunNamed(t, e))
           w4 == Written("worker", Hook(t.worker))
           w5 == Written("gc", Hook(t.gc))
           w6 == Written(api, Hook(t[api]))
<1>1. \/ o = Refuse \/ o = Keep
      \/ Bare(t.worker) /\ Bare(t.gc) /\ o.writes = ProfileWrites(t, e)
  BY ProfileCases, MemDoneGood
<1>2. o # Refuse /\ o # Keep BY NoWrite DEF Refuse, Keep
<1>3. w = w1 \/ w = w2 \/ w = w3 \/ w = w4 \/ w = w5 \/ w = w6 BY <1>1, <1>2, ProfileSix
<1>4. api = "serverUtils" \/ api = "apiServer" BY DEF ApiFile
<1>5. /\ w1.file = "directories" /\ w2.file = "helper" /\ w3.file = "manifest"
      /\ w4.file = "worker" /\ w5.file = "gc" /\ w6.file = api
      /\ w4.text = Hook(t.worker) /\ w5.text = Hook(t.gc)
  BY DEF RunMade, Written
<1>6. IsText(t.worker) /\ IsText(t.gc)
  BY DEF Readable, Looks, IsTree, Sources
<1> HIDE DEF w1, w2, w3, w4, w5, w6, api
<1> QED BY <1>1, <1>2, <1>3, <1>4, <1>5, <1>6

(* What a script has made good another script leaves good.                 *)
LEMMA StaysGood ==
    ASSUME NEW r, NEW s, r # s, NEW t, NEW e, NEW v, IsTree(t),
           Readable(r, t), Shaped(r, t), Readable(s, t), Shaped(s, t),
           ~Outcome(r, t, e).refused, Between(Outcome(r, t, e), t, v), Good(s, t, e)
    PROVE  Good(s, v, e)
<1> DEFINE o == Outcome(r, t, e)
<1>1. Orderly(r, t, o) BY AllSound, SoundOrderly
<1>2. /\ IsTree(v) /\ (\A f \in DOMAIN t : DOMAIN v[f] = DOMAIN t[f])
      /\ Readable(s, v) /\ \A f \in DOMAIN t \ Files(r) : v[f] = t[f]
  BY <1>1, BetweenTree
<1>3. Files(s) \subseteq DOMAIN t BY DEF Files, Readable
<1>4. \A w \in ToSet(Outcome(s, t, e).writes) : w.file \in Files(s)
  <2>1. Sound(s, t, e) BY AllSound
  <2>2. ToSet(Refuse.writes) = {}
    <3>1. Refuse.writes = <<>> BY DEF Refuse
    <3> QED BY <3>1, NoWrite
  <2> QED BY <2>1, <2>2 DEF Sound
<1>5. \A f \in DOMAIN t : v[f] = t[f] \/ \E w \in ToSet(o.writes) : w.file = f /\ w.text = v[f]
  BY DEF Between
<1>6. CASE \A f \in Files(s) : v[f] = t[f]
  BY <1>4, <1>6, GoodFrame
<1>7. CASE ~\A f \in Files(s) : v[f] = t[f]
  <2>1. PICK g \in Files(s) : v[g] # t[g] BY <1>7
  <2>2. g \in Files(r) BY <1>2, <1>3, <2>1
  <2>3. r \in Sharing /\ s \in Sharing BY <2>1, <2>2, Apart
  <2>4. CASE s = "kv_cleanup"
    <3>1. g = "worker" BY <2>1, <2>4 DEF Files, Looks
    <3>2. PICK w \in ToSet(o.writes) : w.file = "worker" /\ w.text = v.worker
      BY <1>3, <1>5, <2>1, <3>1
    <3>3. r = "memory_profile"
      <4>1. r # "heap_trim" BY <2>2, <3>1 DEF Files, Looks
      <4> QED BY <2>3, <2>4, <4>1 DEF Sharing
    <3>4. IsText(t.worker) /\ Bare(t.worker) /\ v.worker = Hook(t.worker)
      BY <3>2, <3>3, ProfileTouches
    <3>5. {"trim", "prealloc", "measure", "inline", "charge", "hook", "hookStray", "exists"} \subseteq DOMAIN t.worker
      BY <2>4, <3>4 DEF Readable, Looks, IsText
    <3>6. \A p \in DOMAIN t.worker : p # "hook" => v.worker[p] = t.worker[p]
      BY <3>4, <3>5, HookFits
    <3>7. KvDone(t.worker)
      <4>1. t.worker.trim # 0 /\ t.worker.prealloc # 0 /\ KvRefreshed(t.worker)
        BY <2>4 DEF Good, Affected
      <4>2. t.worker.trim \in Nat /\ t.worker.prealloc \in Nat BY <3>4, <3>5 DEF IsText
      <4>3. t.worker.exists # 0 BY <3>4 DEF Bare
      <4> QED BY <4>1, <4>2, <4>3 DEF KvDone
    <3>8. KvDone(v.worker) BY <3>5, <3>6, <3>7 DEF KvDone, KvRefreshed
    <3> QED BY <1>2, <2>4, <3>8, KvDoneGood
  <2>5. CASE s = "heap_trim"
    <3>1. g = "gc" BY <2>1, <2>5 DEF Files, Looks
    <3>2. PICK w \in ToSet(o.writes) : w.file = "gc" /\ w.text = v.gc
      BY <1>3, <1>5, <2>1, <3>1
    <3>3. r = "memory_profile"
      <4>1. r # "kv_cleanup" BY <2>2, <3>1 DEF Files, Looks
      <4> QED BY <2>3, <2>5, <4>1 DEF Sharing
    <3>4. IsText(t.gc) /\ Bare(t.gc) /\ v.gc = Hook(t.gc)
      BY <3>2, <3>3, ProfileTouches
    <3>5. {"function", "collect", "freezeLast", "trim", "stray", "hook", "hookStray", "exists"} \subseteq DOMAIN t.gc
      BY <2>5, <3>4 DEF Readable, Looks, IsText
    <3>6. \A p \in DOMAIN t.gc : p # "hook" => v.gc[p] = t.gc[p]
      BY <3>4, <3>5, HookFits
    <3>7. HeapDone(t.gc)
      <4>1. t.gc.trim # 0 BY <2>5 DEF Good, Affected
      <4>2. ~HeapTrim(t).refused BY <2>5 DEF Good, Settled, Outcome
      <4>3. t.gc.trim \in Nat /\ t.gc.stray \in Nat BY <3>4, <3>5 DEF IsText
      <4>4. ~(\/ t.gc.exists = 0 \/ t.gc.function # 1
              \/ t.gc.trim + t.gc.stray > 0 /\ (t.gc.trim + t.gc.stray # 1 \/ t.gc.trim # 1)
              \/ t.gc.freezeLast = 0 \/ t.gc.collect = 0)
        BY <4>2 DEF HeapTrim, Known, Refuse
      <4> QED BY <4>1, <4>3, <4>4 DEF HeapDone
    <3>8. HeapDone(v.gc) BY <3>5, <3>6, <3>7 DEF HeapDone
    <3> QED BY <1>2, <2>5, <3>8, HeapDoneGood
  <2>6. CASE s = "memory_profile"
    <3>1. MemDone(t, e)
      <4>1. ~Outcome(s, t, e).refused /\ t.worker.hook = 1 BY <2>6 DEF Good, Settled
      <4>2. ~Bare(t.worker) BY <4>1 DEF Bare
      <4>3. Outcome(s, t, e) # Refuse BY <4>1 DEF Refuse
      <4> QED BY <2>6, <4>2, <4>3, ProfileCases
    <3>2. Files(s) = {"worker", "gc", "serverUtils", "apiServer", "helper", "manifest", "directories"}
      BY <2>6 DEF Files, Looks
    <3>3. /\ v.serverUtils = t.serverUtils /\ v.apiServer = t.apiServer /\ v.helper = t.helper
          /\ v.manifest = t.manifest /\ v.directories = t.directories
          /\ v.worker = t.worker \/ HookAlike(t.worker, v.worker)
          /\ v.gc = t.gc \/ HookAlike(t.gc, v.gc)
      <4>1. CASE r = "kv_cleanup"
        <5>1. Files(r) = {"worker"} BY <4>1 DEF Files, Looks
        <5>2. v.worker # t.worker => \E w \in ToSet(o.writes) : w.file = "worker" /\ w.text = v.worker
          BY <1>3, <1>5, <3>2
        <5>3. v.worker = t.worker \/ HookAlike(t.worker, v.worker) BY <4>1, <5>2, KvKeepsHook
        <5>4. \A f \in Files(s) : f # "worker" => v[f] = t[f] BY <1>2, <1>3, <5>1
        <5> QED BY <3>2, <5>3, <5>4
      <4>2. CASE r = "heap_trim"
        <5>1. Files(r) = {"gc"} BY <4>2 DEF Files, Looks
        <5>2. v.gc # t.gc => \E w \in ToSet(o.writes) : w.file = "gc" /\ w.text = v.gc
          BY <1>3, <1>5, <3>2
        <5>3. v.gc = t.gc \/ HookAlike(t.gc, v.gc) BY <4>2, <5>2, HeapKeepsHook
        <5>4. \A f \in Files(s) : f # "gc" => v[f] = t[f] BY <1>2, <1>3, <5>1
        <5> QED BY <3>2, <5>3, <5>4
      <4> QED BY <2>3, <2>6, <4>1, <4>2 DEF Sharing
    <3>4. HookDone(v.worker) /\ HookDone(v.gc) BY <3>1, <3>3 DEF MemDone, HookDone, HookAlike
    <3>5. ApiFile(v) = ApiFile(t) /\ v[ApiFile(v)] = t[ApiFile(t)] BY <3>3 DEF ApiFile
    <3>6. MemDone(v, e) BY <3>1, <3>3, <3>4, <3>5 DEF MemDone
    <3> QED BY <2>6, <3>6, MemDoneGood
  <2> QED BY <2>3, <2>4, <2>5, <2>6 DEF Sharing
<1> QED BY <1>6, <1>7

-----------------------------------------------------------------------------
(* The profiler hooks the worker after it has installed what the hook needs. *)

(* The profiler's writes before its hook in the GPU worker is made.        *)
LEMMA ProfileOrder ==
    ASSUME NEW t, NEW e, NEW v, NEW k, IsTree(t),
           Readable("memory_profile", t), Shaped("memory_profile", t),
           NEW o, o = Outcome("memory_profile", t, e), ~o.refused, Partly(o, t, v, k)
    PROVE  \/ v = t /\ Len(o.writes) = 0
           \/ /\ t.worker.hook = 0 /\ v.worker # t.worker =>
                    v.helper.whole = 1 /\ v.manifest.run \in v.directories.runs
              /\ t.worker.hook = 0
              /\ k < Len(o.writes) /\ o.writes[k + 1].file \in {"directories", "helper", "manifest"}
                    => v.worker = t.worker
<1> DEFINE api == ApiFile(t)
           w1 == RunMade(t, e)
           w2 == Written("helper", Made)
           w3 == Written("manifest", RunNamed(t, e))
           w4 == Written("worker", Hook(t.worker))
           w5 == Written("gc", Hook(t.gc))
           w6 == Written(api, Hook(t[api]))
           y == o.writes
<1>1. \/ o = Refuse \/ o = Keep
      \/ Bare(t.worker) /\ Bare(t.gc) /\ o.writes = ProfileWrites(t, e)
  BY ProfileCases, MemDoneGood
<1>2. o # Refuse BY DEF Refuse
<1>3. CASE o = Keep
  <2>1. o.writes = <<>> BY <1>3 DEF Keep
  <2>2. Ordered(o.writes) /\ ToSet(o.writes) = {} /\ Len(o.writes) = 0 BY <2>1, NoWrite
  <2>3. Between(o, t, v) BY <2>2, PartlyBetween
  <2>4. v = t BY <2>2, <2>3 DEF Between, IsTree
  <2> QED BY <2>2, <2>4
<1>4. CASE o # Keep
  <2>1. Bare(t.worker) /\ o.writes = ProfileWrites(t, e) BY <1>1, <1>2, <1>4
  <2>2. Six(y, w1, w2, w3, w4, w5, w6) BY <2>1, ProfileSix
  <2>3. api = "serverUtils" \/ api = "apiServer" BY DEF ApiFile
  <2>4. /\ w1.file = "directories" /\ w1.text.runs = t.directories.runs \cup {ProfileRun(t, e)}
        /\ w2.file = "helper" /\ w2.text.whole = 1 /\ w3.file = "manifest" /\ w3.text.run = ProfileRun(t, e)
        /\ w4.file = "worker" /\ w5.file = "gc" /\ w6.file = api
    BY DEF RunMade, Written, Made, RunNamed
  <2> HIDE DEF w1, w2, w3, w4, w5, w6, api, y
  <2>5. /\ Len(y) = 6 /\ y[1] = w1 /\ y[2] = w2 /\ y[3] = w3 /\ y[4] = w4 /\ y[5] = w5 /\ y[6] = w6
    BY <2>2 DEF Six
  <2>6. \A j \in 1 .. 6 : y[j].file = "worker" => j = 4
    <3> TAKE j \in 1 .. 6
    <3>1. j = 1 \/ j = 2 \/ j = 3 \/ j = 4 \/ j = 5 \/ j = 6 OBVIOUS
    <3> QED BY <2>3, <2>4, <2>5, <3>1
  <2>7. k \in 0 .. 6 /\ "worker" \in DOMAIN t BY <2>5 DEF Partly, Readable, Looks, y
  <2>8. t.worker.hook = 0 BY <2>1 DEF Bare
  <2>9. ASSUME v.worker # t.worker PROVE k >= 4
    <3>1. PICK j \in 1 .. k : y[j].file = "worker" BY <2>7, <2>9 DEF Partly, y
    <3> QED BY <2>6, <2>7, <3>1
  <2>10. ASSUME v.worker # t.worker
         PROVE v.helper.whole = 1 /\ v.manifest.run \in v.directories.runs
    <3>1. 1 \in 1 .. k /\ 2 \in 1 .. k /\ 3 \in 1 .. k BY <2>7, <2>9, <2>10
    <3>2. v[y[1].file] = y[1].text /\ v[y[2].file] = y[2].text /\ v[y[3].file] = y[3].text
      BY <3>1 DEF Partly, y
    <3> QED BY <2>4, <2>5, <3>2
  <2>11. ASSUME k < Len(y), y[k + 1].file \in {"directories", "helper", "manifest"}
         PROVE  v.worker = t.worker
    <3>1. SUFFICES ASSUME k >= 4 PROVE FALSE BY <2>9
    <3>2. k = 4 \/ k = 5 BY <2>5, <2>7, <2>11, <3>1
    <3> QED BY <2>3, <2>4, <2>5, <2>11, <3>2
  <2> QED BY <2>8, <2>10, <2>11 DEF y
<1> QED BY <1>3, <1>4

LEMMA SharedFiles ==
    ASSUME NEW r, NEW f, f \in Files(r), f \in Files("memory_profile"), r # "memory_profile"
    PROVE  \/ r = "kv_cleanup" /\ f = "worker"
           \/ r = "heap_trim" /\ f = "gc"
<1>1. r \in Sharing BY Apart
<1>2. r = "kv_cleanup" => f = "worker" BY DEF Files, Looks
<1>3. r = "heap_trim" => f = "gc" BY DEF Files, Looks
<1> QED BY <1>1, <1>2, <1>3 DEF Sharing

LEMMA ShapedPartly ==
    ASSUME NEW r, NEW s, NEW t, NEW e, NEW v, NEW k, IsTree(t),
           Readable(r, t), Shaped(r, t), Readable(s, t), Shaped(s, t),
           NEW o, o = Outcome(r, t, e), ~o.refused, Partly(o, t, v, k)
    PROVE  Shaped(s, v)
<1>1. Orderly(r, t, o) BY AllSound, SoundOrderly
<1>2. Between(o, t, v) BY <1>1, PartlyBetween DEF Orderly
<1>3. /\ \A f \in DOMAIN t : DOMAIN v[f] = DOMAIN t[f]
      /\ \A f \in DOMAIN t \ Files(r) : v[f] = t[f]
  BY <1>1, <1>2, BetweenTree
<1>4. ASSUME s = "inkling"
      PROVE DOMAIN v.vendor = {"exists", "whole"} /\ DOMAIN v.adapter = {"exists", "whole"}
  BY <1>3, <1>4 DEF Shaped, Readable, Looks
<1>5. ASSUME s = "memory_profile"
      PROVE  /\ DOMAIN v.helper = {"exists", "whole"} /\ DOMAIN v.manifest = {"exists", "run"}
             /\ DOMAIN v.directories = {"runs"} /\ ProfiledWhole(v)
  <2>1. /\ DOMAIN v.helper = {"exists", "whole"} /\ DOMAIN v.manifest = {"exists", "run"}
        /\ DOMAIN v.directories = {"runs"}
    BY <1>3, <1>5 DEF Shaped, Readable, Looks
  <2>2. ProfiledWhole(t) BY <1>5 DEF Shaped
  <2>3. CASE r = "memory_profile"
    <3>1. \/ v = t
          \/ /\ v.worker # t.worker =>
                    v.helper.whole = 1 /\ v.manifest.run \in v.directories.runs
             /\ t.worker.hook = 0
      BY <2>3, ProfileOrder
    <3> QED BY <2>1, <2>2, <3>1 DEF ProfiledWhole
  <2>4. CASE r # "memory_profile"
    <3>1. Files("memory_profile") =
            {"worker", "gc", "serverUtils", "apiServer", "helper", "manifest", "directories"}
      BY DEF Files, Looks
    <3>2. Files("memory_profile") \subseteq DOMAIN t BY <1>5 DEF Files, Readable
    <3>3. v.helper = t.helper /\ v.manifest = t.manifest /\ v.directories = t.directories
      BY <1>3, <2>4, <3>1, <3>2, SharedFiles
    <3>4. v.worker = t.worker \/ HookAlike(t.worker, v.worker)
      <4>1. SUFFICES ASSUME v.worker # t.worker PROVE HookAlike(t.worker, v.worker) OBVIOUS
      <4>2. r = "kv_cleanup" BY <1>3, <2>4, <3>1, <3>2, <4>1, SharedFiles
      <4>3. PICK w \in ToSet(o.writes) : w.file = "worker" /\ w.text = v.worker
        BY <1>2, <3>1, <3>2, <4>1 DEF Between
      <4> QED BY <4>2, <4>3, KvKeepsHook
    <3>5. v.gc = t.gc \/ HookAlike(t.gc, v.gc)
      <4>1. SUFFICES ASSUME v.gc # t.gc PROVE HookAlike(t.gc, v.gc) OBVIOUS
      <4>2. r = "heap_trim" BY <1>3, <2>4, <3>1, <3>2, <4>1, SharedFiles
      <4>3. PICK w \in ToSet(o.writes) : w.file = "gc" /\ w.text = v.gc
        BY <1>2, <3>1, <3>2, <4>1 DEF Between
      <4> QED BY <4>2, <4>3, HeapKeepsHook
    <3> QED BY <2>1, <2>2, <3>3, <3>4, <3>5 DEF ProfiledWhole, HookAlike
  <2> QED BY <2>1, <2>3, <2>4
<1> QED BY <1>4, <1>5 DEF Shaped

-----------------------------------------------------------------------------
(* A kill empties at most the next file, never one a finished script needs *)
(* unless the running mod then refuses it.                                 *)

LEMMA EmptiedText ==
    ASSUME NEW x
    PROVE  /\ DOMAIN Emptied(x) = DOMAIN x
           /\ \A p \in DOMAIN x : p # "exists" => Emptied(x)[p] = 0
           /\ IsText(x) => IsText(Emptied(x))
BY DEF Emptied, IsText

(* A tree the running script's next file has been emptied in.              *)
Spoilt(v, w) == [v EXCEPT ![w.file] = Emptied(w.text)]

LEMMA KilledTree ==
    ASSUME NEW r, NEW t, NEW e, NEW v, NEW k, IsTree(t), Readable(r, t), Shaped(r, t),
           NEW o, o = Outcome(r, t, e), ~o.refused, Partly(o, t, v, k), k < Len(o.writes),
           NEW w, w = o.writes[k + 1], NEW u, u = Spoilt(v, w)
    PROVE  /\ IsTree(u) /\ DOMAIN u = DOMAIN t /\ \A f \in DOMAIN t : DOMAIN u[f] = DOMAIN t[f]
           /\ \A s : Readable(s, t) => Readable(s, u)
           /\ w.file \in Files(r) /\ w.file \in DOMAIN t /\ DOMAIN w.text = DOMAIN t[w.file]
           /\ u[w.file] = Emptied(w.text) /\ \A f \in DOMAIN t \ {w.file} : u[f] = v[f]
<1>1. Orderly(r, t, o) BY AllSound, SoundOrderly
<1>2. Between(o, t, v) BY <1>1, PartlyBetween DEF Orderly
<1>3. /\ IsTree(v) /\ (\A f \in DOMAIN t : DOMAIN v[f] = DOMAIN t[f])
      /\ DOMAIN v = DOMAIN t
  BY <1>1, <1>2, BetweenTree DEF Between
<1>4. w \in ToSet(o.writes)
  <2>1. Ordered(o.writes) BY <1>1 DEF Orderly
  <2>2. Len(o.writes) \in Nat /\ k \in Nat BY <2>1, WriteAt DEF Partly
  <2>3. k + 1 \in 1 .. Len(o.writes) BY <2>2
  <2> QED BY <2>1, <2>3, WriteAt
<1>5. w.file \in Files(r) /\ w.file \in DOMAIN t /\ Alike(w.file, t[w.file], w.text)
  BY <1>1, <1>4 DEF Orderly
<1>6. /\ DOMAIN u = DOMAIN t /\ u[w.file] = Emptied(w.text)
      /\ \A f \in DOMAIN t \ {w.file} : u[f] = v[f]
      /\ u = [f \in DOMAIN u |-> u[f]]
  BY <1>3, <1>5 DEF Spoilt
<1>7. DOMAIN Emptied(w.text) = DOMAIN t[w.file] /\ (w.file \in Sources(t) => IsText(Emptied(w.text)))
  BY <1>5, EmptiedText DEF Alike, Sources
<1>8. \A f \in DOMAIN t : DOMAIN u[f] = DOMAIN t[f] BY <1>3, <1>6, <1>7
<1>9. IsTree(u) BY <1>3, <1>6, <1>7 DEF IsTree, Sources
<1>10. \A s : Readable(s, t) => Readable(s, u) BY <1>6, <1>8 DEF Readable
<1> QED BY <1>5, <1>6, <1>8, <1>9, <1>10 DEF Alike

LEMMA KilledShaped ==
    ASSUME NEW r, NEW s, NEW t, NEW e, NEW v, NEW k, IsTree(t),
           Readable(r, t), Shaped(r, t), Readable(s, t), Shaped(s, t),
           NEW o, o = Outcome(r, t, e), ~o.refused, Partly(o, t, v, k), k < Len(o.writes),
           NEW w, w = o.writes[k + 1], NEW u, u = Spoilt(v, w)
    PROVE  Shaped(s, u)
<1>1. /\ \A f \in DOMAIN t : DOMAIN u[f] = DOMAIN t[f]
      /\ w.file \in Files(r) /\ w.file \in DOMAIN t /\ DOMAIN w.text = DOMAIN t[w.file]
      /\ u[w.file] = Emptied(w.text) /\ \A f \in DOMAIN t \ {w.file} : u[f] = v[f]
  BY KilledTree
<1>2. Shaped(s, v) BY ShapedPartly
<1>4. ASSUME s = "inkling"
      PROVE DOMAIN u.vendor = {"exists", "whole"} /\ DOMAIN u.adapter = {"exists", "whole"}
  BY <1>1, <1>4, ZenonT(40) DEF Shaped, Readable, Looks
<1>5. ASSUME s = "memory_profile"
      PROVE  /\ DOMAIN u.helper = {"exists", "whole"} /\ DOMAIN u.manifest = {"exists", "run"}
             /\ DOMAIN u.directories = {"runs"} /\ ProfiledWhole(u)
  <2>1. /\ DOMAIN u.helper = {"exists", "whole"} /\ DOMAIN u.manifest = {"exists", "run"}
        /\ DOMAIN u.directories = {"runs"}
    BY <1>1, <1>5, ZenonT(40) DEF Shaped, Readable, Looks
  <2>2. ProfiledWhole(v) BY <1>2, <1>5 DEF Shaped
  <2>3. Files("memory_profile") =
          {"worker", "gc", "serverUtils", "apiServer", "helper", "manifest", "directories"}
    BY DEF Files, Looks
  <2>4. Files("memory_profile") \subseteq DOMAIN t BY <1>5 DEF Files, Readable
  <2>5. "hook" \in DOMAIN t.worker /\ "hook" \in DOMAIN t.gc BY <1>5 DEF Readable, Looks
  <2>6. CASE w.file \in {"worker", "gc"}
    <3>1. u[w.file].hook = 0 BY <1>1, <2>5, <2>6, EmptiedText
    <3> QED BY <2>1, <2>6, <3>1 DEF ProfiledWhole
  <2>7. CASE w.file \in {"directories", "helper", "manifest"}
    <3>1. r = "memory_profile" BY <1>1, <2>3, <2>7, SharedFiles
    <3>2. t.worker.hook = 0 /\ v.worker = t.worker
      <4>1. \/ v = t /\ Len(o.writes) = 0
            \/ /\ t.worker.hook = 0
               /\ k < Len(o.writes) /\ o.writes[k + 1].file \in {"directories", "helper", "manifest"}
                    => v.worker = t.worker
        BY <3>1, ProfileOrder
      <4>2. ~(Len(o.writes) = 0) BY DEF Partly
      <4> QED BY <2>7, <4>1, <4>2
    <3>3. u.worker = v.worker BY <1>1, <2>3, <2>4, <2>7
    <3> QED BY <2>1, <3>2, <3>3 DEF ProfiledWhole
  <2>8. CASE w.file \notin {"worker", "gc", "directories", "helper", "manifest"}
    <3>1. /\ u.worker = v.worker /\ u.gc = v.gc /\ u.directories = v.directories
          /\ u.helper = v.helper /\ u.manifest = v.manifest
      BY <1>1, <2>3, <2>4, <2>8
    <3> QED BY <2>1, <2>2, <3>1 DEF ProfiledWhole
  <2> QED BY <2>6, <2>7, <2>8
<1> QED BY <1>4, <1>5 DEF Shaped

LEMMA GoodUntouched ==
    ASSUME NEW s, NEW t, NEW u, NEW e, IsTree(t), Readable(s, t), Shaped(s, t), Good(s, t, e),
           \A f \in Files(s) : u[f] = t[f]
    PROVE  Good(s, u, e)
<1>1. Sound(s, t, e) BY AllSound
<1>2. Refuse.writes = <<>> BY DEF Refuse
<1>3. ToSet(Refuse.writes) = {} BY <1>2, NoWrite
<1>4. \A w \in ToSet(Outcome(s, t, e).writes) : w.file \in Files(s)
  BY <1>1, <1>3 DEF Sound
<1> QED BY <1>4, GoodFrame

(* A mod killed while it wrote spoils no script that ended before it,      *)
(* unless it left a shared file empty and then refuses it.                 *)
LEMMA KilledGood ==
    ASSUME NEW r, NEW s, r # s, r \in Mods, NEW t, NEW e, NEW v, NEW k, IsTree(t),
           Readable(r, t), Shaped(r, t), Readable(s, t), Shaped(s, t), Good(s, t, e),
           NEW o, o = Outcome(r, t, e), ~o.refused, Partly(o, t, v, k), k < Len(o.writes),
           NEW w, w = o.writes[k + 1], NEW u, u = Spoilt(v, w)
    PROVE  Good(s, u, e) \/ Outcome(r, u, e).refused
<1>1. /\ w.file \in Files(r) /\ w.file \in DOMAIN t /\ DOMAIN w.text = DOMAIN t[w.file]
      /\ u[w.file] = Emptied(w.text) /\ \A f \in DOMAIN t \ {w.file} : u[f] = v[f]
  BY KilledTree
<1>2. Orderly(r, t, o) BY AllSound, SoundOrderly
<1>3. Between(o, t, v) BY <1>2, PartlyBetween DEF Orderly
<1>4. Good(s, v, e) BY <1>3, StaysGood
<1>5. CASE w.file \notin Files(s)
  <2>1. IsTree(v) /\ Readable(s, v) BY <1>2, <1>3, BetweenTree
  <2>2. Shaped(s, v) BY ShapedPartly
  <2>5. Files(s) \subseteq DOMAIN t BY DEF Files, Readable
  <2>6. \A f \in Files(s) : u[f] = v[f] BY <1>1, <1>5, <2>5
  <2>7. Good(s, u, e) BY <1>4, <2>1, <2>2, <2>6, GoodUntouched
  <2> QED BY <2>7
<1>6. CASE w.file \in Files(s)
  <2>1. r \in Sharing /\ s \in Sharing BY <1>1, <1>6, Apart
  <2>2. r = "memory_profile" BY <2>1 DEF Sharing, Mods
  <2>3. w.file = "worker" \/ w.file = "gc" BY <1>1, <1>6, <2>2, SharedFiles
  <2>4. /\ {"startup", "hook", "hookStray"} \subseteq DOMAIN t.worker
        /\ {"function", "hook", "hookStray"} \subseteq DOMAIN t.gc
    BY <2>2 DEF Readable, Looks
  <2>5. HookUnknown(u.worker, "startup") \/ HookUnknown(u.gc, "function")
    <3>1. CASE w.file = "worker"
      <4>1. u.worker.startup = 0 /\ u.worker.hook = 0 /\ u.worker.hookStray = 0
        BY <1>1, <2>4, <3>1, EmptiedText
      <4> QED BY <4>1 DEF HookUnknown, Hooked
    <3>2. CASE w.file = "gc"
      <4>1. u.gc.function = 0 /\ u.gc.hook = 0 /\ u.gc.hookStray = 0
        BY <1>1, <2>4, <3>2, EmptiedText
      <4> QED BY <4>1 DEF HookUnknown, Hooked
    <3> QED BY <2>3, <3>1, <3>2
  <2>6. Outcome("memory_profile", u, e) = Refuse BY <2>5 DEF Outcome, MemoryProfile
  <2> QED BY <2>2, <2>6 DEF Refuse
<1> QED BY <1>5, <1>6

-----------------------------------------------------------------------------
(* The series: the invariant, and its steps. *)

(* Where the series stands: the running script is the first of `todo', and *)
(* nothing is left to write between two scripts.                           *)
InOrder ==
    /\ steps \in Seq(ToSet(steps)) /\ steps # <<>> /\ todo \in Seq(ToSet(steps))
    /\ busy \in {"idle", "edits", "fails"} /\ status \in {"running", "refused", "done"}
    /\ busy # "edits" => pending = <<>>
    /\ status = "running" => todo # <<>>
    /\ status = "done" => todo = <<>>
    /\ status # "running" => busy = "idle"

Fit(t) == IsTree(t) /\ \A s \in ToSet(steps) : Readable(s, t) /\ Shaped(s, t)
Shapes ==
    /\ Fit(tree) /\ Fit(base) /\ DOMAIN tree = DOMAIN base
    /\ \A f \in DOMAIN tree : DOMAIN tree[f] = DOMAIN base[f]

(* The scripts of the series with nothing to do until it is applied again. *)
Ended == ToSet(steps) \ ToSet(todo)

Pending(y, k) == \* what is left of the writes y after k of them
    /\ pending \in Seq(ToSet(y)) /\ Len(pending) = Len(y) - k
    /\ \A i \in 1 .. Len(pending) : pending[i] = y[k + i]

Editing ==
    busy = "edits" =>
        LET o == Outcome(Head(todo), base, env)
        IN  /\ ~o.refused /\ \E k \in 0 .. Len(o.writes) : Partly(o, base, tree, k) /\ Pending(o.writes, k)
            /\ \A s \in Ended : Good(s, base, env)

(* Between two scripts those that have ended stay good, unless a kill left  *)
(* the next one a file it refuses.                                         *)
Waiting ==
    busy = "idle" /\ status = "running" =>
        \/ \A s \in Ended : Good(s, tree, env)
        \/ Outcome(Head(todo), tree, env).refused

Finished == status = "done" => \A s \in ToSet(steps) : Good(s, tree, env)

Series == InOrder /\ Shapes /\ Editing /\ Waiting /\ Finished

LEMMA SeqParts ==
    ASSUME NEW S, NEW y, y \in Seq(S), y # <<>>
    PROVE  /\ Head(y) \in ToSet(y) /\ Head(y) \in S /\ Tail(y) \in Seq(S)
           /\ Len(Tail(y)) = Len(y) - 1 /\ Head(y) = y[1] /\ Len(y) \in Nat /\ Len(y) > 0
           /\ \A i \in 1 .. Len(Tail(y)) : Tail(y)[i] = y[i + 1]
           /\ ToSet(y) \subseteq S
           /\ \A v \in ToSet(y) : v = Head(y) \/ v \in ToSet(Tail(y))
<1>1. /\ Head(y) = y[1] /\ Tail(y) \in Seq(S) /\ Len(Tail(y)) = Len(y) - 1 /\ Len(y) > 0 /\ Len(y) \in Nat
      /\ \A i \in 1 .. Len(Tail(y)) : Tail(y)[i] = y[i + 1]
  OBVIOUS
<1>2. DOMAIN y = 1 .. Len(y) /\ DOMAIN Tail(y) = 1 .. Len(Tail(y)) BY <1>1
<1>3. ToSet(y) \subseteq S BY <1>2 DEF ToSet
<1>4. Head(y) \in ToSet(y)
  <2>1. 1 \in DOMAIN y BY <1>1, <1>2
  <2> QED BY <1>1, <2>1 DEF ToSet
<1>5. ASSUME NEW v \in ToSet(y) PROVE v = Head(y) \/ v \in ToSet(Tail(y))
  <2>1. PICK i \in 1 .. Len(y) : v = y[i] BY <1>2 DEF ToSet
  <2>2. CASE i = 1 BY <1>1, <2>1, <2>2
  <2>3. CASE i # 1
    <3>1. i - 1 \in 1 .. Len(Tail(y)) /\ (i - 1) + 1 = i BY <1>1, <2>3
    <3>2. Tail(y)[i - 1] = y[(i - 1) + 1] BY <1>1, <3>1
    <3>3. Tail(y)[i - 1] = v /\ i - 1 \in DOMAIN Tail(y) BY <1>2, <2>1, <3>1, <3>2
    <3> QED BY <3>3 DEF ToSet
  <2> QED BY <2>2, <2>3
<1> QED BY <1>1, <1>3, <1>4, <1>5

LEMMA SeriesInit == Init => Series
<1> SUFFICES ASSUME Init PROVE Series OBVIOUS
<1>1. PICK s \in Starts : steps = s.steps /\ env = s.env /\ tree = s.tree BY DEF Init
<1>2. todo = steps /\ pending = <<>> /\ busy = "idle" /\ base = tree /\ status = "running" BY DEF Init
<1>3. /\ s.steps \in Seq(ToSet(s.steps)) /\ s.steps # <<>>
      /\ s.tree = [f \in DOMAIN s.tree |-> s.tree[f]]
      /\ \A f \in Sources(s.tree) : IsText(s.tree[f])
      /\ \A script \in ToSet(s.steps) : Readable(script, s.tree) /\ Shaped(script, s.tree)
  BY StartsAssumption
<1>4. InOrder BY <1>1, <1>2, <1>3 DEF InOrder
<1>5. Shapes BY <1>1, <1>2, <1>3 DEF Shapes, Fit, IsTree
<1>6. Editing /\ Finished BY <1>2 DEF Editing, Finished
<1>7. Waiting BY <1>2 DEF Waiting, Ended
<1> QED BY <1>4, <1>5, <1>6, <1>7 DEF Series

LEMMA SeriesDecide == Series /\ Decide => Series'
<1> SUFFICES ASSUME Series, Decide PROVE Series' OBVIOUS
<1> DEFINE r == Head(todo)
           o == Outcome(r, tree, env)
<1>1. /\ status = "running" /\ busy = "idle" /\ todo # <<>>
      /\ pending' = o.writes /\ busy' = IF o.refused THEN "fails" ELSE "edits"
      /\ base' = tree /\ steps' = steps /\ env' = env /\ tree' = tree /\ todo' = todo /\ status' = status
  BY DEF Decide
<1>2. InOrder /\ Shapes /\ Waiting BY DEF Series
<1>3. r \in ToSet(steps) BY <1>1, <1>2, SeqParts DEF InOrder
<1>4. IsTree(tree) /\ Readable(r, tree) /\ Shaped(r, tree) BY <1>2, <1>3 DEF Shapes, Fit
<1>5. Sound(r, tree, env) BY <1>4, AllSound
<1>6. Shapes' BY <1>1, <1>2 DEF Shapes, Fit
<1>7. CASE o.refused
  <2>1. o.writes = <<>> BY <1>5, <1>7 DEF Sound, Refuse
  <2>2. busy' = "fails" BY <1>1, <1>7
  <2>3. InOrder' BY <1>1, <1>2, <2>1, <2>2 DEF InOrder
  <2>4. Editing' /\ Waiting' /\ Finished' BY <1>1, <2>2 DEF Editing, Waiting, Finished
  <2> QED BY <1>6, <2>3, <2>4 DEF Series
<1>8. CASE ~o.refused
  <2>1. Orderly(r, tree, o) BY <1>5, <1>8, SoundOrderly
  <2>2. Ordered(o.writes) BY <2>1 DEF Orderly
  <2>3. Partly(o, tree, tree, 0) BY <1>4, <2>2, PartlyNone
  <2>4. busy' = "edits" BY <1>1, <1>8
  <2>5. InOrder' BY <1>1, <1>2, <2>4 DEF InOrder
  <2>6. Waiting' /\ Finished' BY <1>1, <2>4 DEF Waiting, Finished
  <2>7. Pending(o.writes, 0)'
    <3>1. o.writes \in Seq(ToSet(o.writes)) BY <2>2 DEF Ordered
    <3>2. o' = o BY <1>1
    <3> DEFINE y == o.writes
    <3>3. y' = y BY <3>2
    <3>4. pending' \in Seq(ToSet(y)) /\ Len(pending') = Len(y) - 0
          /\ \A i \in 1 .. Len(pending') : pending'[i] = y[0 + i]
      <4>1. pending' = y BY <1>1
      <4>2. y \in Seq(ToSet(y)) BY <3>1
      <4>3. Len(y) \in Nat BY <4>2
      <4> HIDE DEF y
      <4> QED BY <4>1, <4>2, <4>3
    <3> HIDE DEF y
    <3> QED BY <3>3, <3>4 DEF Pending, y
  <2>8. \A s \in Ended : Good(s, tree, env) BY <1>1, <1>2, <1>8 DEF Waiting
  <2>9. Editing'
    <3>1. Outcome(Head(todo'), base', env') = o BY <1>1
    <3>2. Ended' = Ended BY <1>1 DEF Ended
    <3>3. 0 \in 0 .. Len(o.writes) BY <2>3 DEF Partly
    <3>4. Partly(o, base', tree', 0) BY <1>1, <2>3
    <3>5. o' = o BY <1>1
    <3> HIDE DEF o
    <3> QED BY <1>1, <1>8, <2>7, <2>8, <3>1, <3>2, <3>3, <3>4, <3>5 DEF Editing
  <2> QED BY <1>6, <2>5, <2>6, <2>9 DEF Series
<1> QED BY <1>7, <1>8

(* With writes to make the script at the head of `todo' has decided on     *)
(* `base' to make them, and the next one is its k + 1st.                   *)
LEMMA Underway ==
    ASSUME Series, pending # <<>>, NEW r, r = Head(todo), NEW o, o = Outcome(r, base, env)
    PROVE  /\ busy = "edits" /\ status = "running" /\ todo # <<>>
           /\ r \in ToSet(steps) /\ r \in ToSet(todo) /\ ~o.refused
           /\ IsTree(base) /\ Readable(r, base) /\ Shaped(r, base) /\ Orderly(r, base, o)
           /\ \E k \in 0 .. Len(o.writes) :
                 /\ Partly(o, base, tree, k) /\ Pending(o.writes, k)
                 /\ k < Len(o.writes) /\ Head(pending) = o.writes[k + 1]
<1>1. InOrder /\ Shapes /\ Editing BY DEF Series
<1>2. busy = "edits" /\ status = "running" /\ todo # <<>> BY <1>1 DEF InOrder
<1>3. r \in ToSet(steps) /\ r \in ToSet(todo) BY <1>1, <1>2, SeqParts DEF InOrder
<1>4. IsTree(base) /\ Readable(r, base) /\ Shaped(r, base) BY <1>1, <1>3 DEF Shapes, Fit
<1>5. ~o.refused /\ \E k \in 0 .. Len(o.writes) : Partly(o, base, tree, k) /\ Pending(o.writes, k)
  BY <1>1, <1>2 DEF Editing
<1>6. Orderly(r, base, o) BY <1>4, <1>5, AllSound, SoundOrderly
<1>7. PICK k \in 0 .. Len(o.writes) : Partly(o, base, tree, k) /\ Pending(o.writes, k) BY <1>5
<1> DEFINE y == o.writes
<1>8. Len(y) \in Nat BY <1>6, WriteAt DEF Orderly
<1>9. /\ pending \in Seq(ToSet(y)) /\ Len(pending) = Len(y) - k
      /\ \A i \in 1 .. Len(pending) : pending[i] = y[k + i]
  BY <1>7 DEF Pending
<1>10. Head(pending) = pending[1] /\ Len(pending) > 0 /\ Len(pending) \in Nat BY <1>9, SeqParts
<1> HIDE DEF y
<1>11. k < Len(y) /\ pending[1] = y[k + 1] BY <1>7, <1>8, <1>9, <1>10 DEF y
<1> QED BY <1>2, <1>3, <1>4, <1>5, <1>6, <1>7, <1>10, <1>11 DEF y

(* What of the invariant speaks of the base and of the scripts that ended. *)
LEMMA EndedGood ==
    ASSUME Series, busy = "edits" PROVE \A s \in Ended : Good(s, base, env)
BY DEF Series, Editing

LEMMA SeriesMakeWrite == Series /\ MakeWrite => Series'
<1> SUFFICES ASSUME Series, MakeWrite PROVE Series' OBVIOUS
<1> DEFINE r == Head(todo)
           o == Outcome(r, base, env)
           y == o.writes
           w == Head(pending)
<1>1. /\ pending # <<>> /\ tree' = [tree EXCEPT ![w.file] = w.text] /\ pending' = Tail(pending)
      /\ steps' = steps /\ env' = env /\ todo' = todo /\ busy' = busy /\ base' = base /\ status' = status
  BY DEF MakeWrite
<1>2. InOrder /\ Shapes BY DEF Series
<1>3. /\ busy = "edits" /\ status = "running" /\ todo # <<>>
      /\ r \in ToSet(steps) /\ ~o.refused
      /\ IsTree(base) /\ Readable(r, base) /\ Shaped(r, base) /\ Orderly(r, base, o)
      /\ \E k \in 0 .. Len(o.writes) :
                 /\ Partly(o, base, tree, k) /\ Pending(o.writes, k)
                 /\ k < Len(o.writes) /\ Head(pending) = o.writes[k + 1]
  BY <1>1, Underway
<1>4. PICK k \in 0 .. Len(o.writes) :
                 /\ Partly(o, base, tree, k) /\ Pending(o.writes, k)
                 /\ k < Len(o.writes) /\ Head(pending) = o.writes[k + 1]
  BY <1>3
<1> HIDE DEF o, r
<1>5. w = y[k + 1] BY <1>4
<1>6. Partly(o, base, tree', k + 1) BY <1>1, <1>3, <1>4, <1>5, PartlyNext
<1>7. Between(o, base, tree') BY <1>3, <1>6, PartlyBetween DEF Orderly
<1>8. /\ IsTree(tree') /\ (\A f \in DOMAIN base : DOMAIN tree'[f] = DOMAIN base[f])
      /\ DOMAIN tree' = DOMAIN base
      /\ \A s : Readable(s, base) => Readable(s, tree')
  BY <1>3, <1>7, BetweenTree DEF Between
<1>9. Shapes'
  <2>1. \A s \in ToSet(steps) : Readable(s, base) /\ Shaped(s, base) BY <1>2 DEF Shapes, Fit
  <2>2. ASSUME NEW s \in ToSet(steps) PROVE Shaped(s, tree')
    BY <1>3, <1>6, <2>1, <2>2, ShapedPartly DEF o
  <2>3. Fit(base)' BY <1>1, <1>2 DEF Shapes, Fit
  <2> QED BY <1>1, <1>8, <2>1, <2>2, <2>3 DEF Shapes, Fit
<1>10. InOrder' BY <1>1, <1>2, <1>3 DEF InOrder
<1>11. Waiting' /\ Finished' BY <1>1, <1>3 DEF Waiting, Finished
<1>12. Editing'
  <2>1. Outcome(Head(todo'), base', env') = o BY <1>1 DEF o, r
  <2>2. Ended' = Ended BY <1>1 DEF Ended
  <2>3. Len(y) \in Nat /\ k \in Nat /\ k + 1 \in 0 .. Len(y)
    BY <1>3, <1>4, WriteAt DEF Orderly
  <2>4. pending' \in Seq(ToSet(y)) /\ Len(pending') = Len(y) - (k + 1)
        /\ \A i \in 1 .. Len(pending') : pending'[i] = y[(k + 1) + i]
    <3> HIDE DEF y
    <3>1. /\ pending \in Seq(ToSet(y)) /\ Len(pending) = Len(y) - k
          /\ \A i \in 1 .. Len(pending) : pending[i] = y[k + i]
      BY <1>4 DEF Pending, y
    <3>2. /\ pending' \in Seq(ToSet(y)) /\ Len(pending') = Len(pending) - 1
          /\ \A i \in 1 .. Len(pending') : pending'[i] = pending[i + 1]
      BY <1>1, <3>1, SeqParts
    <3>3. Len(pending') = Len(y) - (k + 1) BY <2>3, <3>1, <3>2
    <3>4. ASSUME NEW i \in 1 .. Len(pending') PROVE pending'[i] = y[(k + 1) + i]
      <4>1. i + 1 \in 1 .. Len(pending) /\ k + (i + 1) = (k + 1) + i BY <2>3, <3>1, <3>2
      <4>2. pending[i + 1] = y[k + (i + 1)] BY <3>1, <4>1
      <4> QED BY <3>2, <4>1, <4>2
    <3> QED BY <3>2, <3>3, <3>4
  <2>5. o' = o BY <1>1 DEF o, r
  <2>6. Pending(y, k + 1)'
    <3>1. y' = y BY <2>5
    <3>2. k' = k OBVIOUS
    <3> HIDE DEF y
    <3> QED BY <2>4, <3>1, <3>2 DEF Pending
  <2>7. \A s \in Ended : Good(s, base, env) BY <1>3, EndedGood
  <2> QED BY <1>1, <1>3, <1>6, <2>1, <2>2, <2>3, <2>5, <2>6, <2>7 DEF Editing
<1> QED BY <1>9, <1>10, <1>11, <1>12 DEF Series

LEMMA SeriesEndScript == Series /\ EndScript => Series'
<1> SUFFICES ASSUME Series, EndScript PROVE Series' OBVIOUS
<1> DEFINE r == Head(todo)
           o == Outcome(r, base, env)
           y == o.writes
<1>1. /\ busy = "edits" /\ pending = <<>> /\ busy' = "idle" /\ todo' = Tail(todo)
      /\ status' = IF Tail(todo) = <<>> THEN "done" ELSE status
      /\ steps' = steps /\ env' = env /\ tree' = tree /\ pending' = pending /\ base' = base
  BY DEF EndScript
<1>2. InOrder /\ Shapes /\ Editing BY DEF Series
<1>3. status = "running" /\ todo # <<>> BY <1>1, <1>2 DEF InOrder
<1>4. /\ r \in ToSet(steps) /\ r \in ToSet(todo) /\ Tail(todo) \in Seq(ToSet(steps))
      /\ ToSet(todo) \subseteq ToSet(steps)
      /\ \A s \in ToSet(todo) : s = r \/ s \in ToSet(Tail(todo))
  BY <1>2, <1>3, SeqParts DEF InOrder
<1>5. \A s \in ToSet(steps) : Readable(s, base) /\ Shaped(s, base) BY <1>2 DEF Shapes, Fit
<1>6. IsTree(base) BY <1>2 DEF Shapes, Fit
<1>7. ~o.refused /\ \E k \in 0 .. Len(o.writes) : Partly(o, base, tree, k) /\ Pending(o.writes, k)
  BY <1>1, <1>2 DEF Editing
<1>8. /\ Orderly(r, base, o)
      /\ \A u : Applied(o, base, u) => Good(r, u, env)
  BY <1>4, <1>5, <1>6, <1>7, AllSound, SoundOrderly
<1>9. PICK k \in 0 .. Len(o.writes) : Partly(o, base, tree, k) /\ Pending(o.writes, k) BY <1>7
<1> HIDE DEF r
<1>10. Between(o, base, tree) /\ Applied(o, base, tree)
  <2>1. Ordered(y) BY <1>8 DEF Orderly
  <2>2. Len(y) \in Nat BY <2>1, WriteAt
  <2>3. Len(pending) = 0 BY <1>1
  <2>4. Len(pending) = Len(y) - k BY <1>9 DEF Pending
  <2> DEFINE n == Len(y)
  <2>5. k \in 0 .. n BY <1>9
  <2> HIDE DEF n
  <2>6. k = n BY <2>2, <2>3, <2>4, <2>5 DEF n
  <2> QED BY <1>9, <2>1, <2>6, PartlyBetween DEF n
<1>11. Good(r, tree, env) BY <1>8, <1>10
<1>12. ASSUME NEW s \in Ended PROVE Good(s, tree, env)
  <2>1. s # r /\ s \in ToSet(steps) BY <1>4, <1>12 DEF Ended
  <2>2. Good(s, base, env) BY <1>1, <1>12, EndedGood
  <2> QED BY <1>4, <1>5, <1>6, <1>7, <1>10, <2>1, <2>2, StaysGood
<1>13. ASSUME NEW s \in Ended' PROVE Good(s, tree, env)
  <2>1. s \in ToSet(steps) /\ s \notin ToSet(Tail(todo)) BY <1>1, <1>13 DEF Ended
  <2>2. s = r \/ s \in Ended BY <1>4, <2>1 DEF Ended
  <2> QED BY <1>11, <1>12, <2>2
<1>14. InOrder' BY <1>1, <1>2, <1>3, <1>4 DEF InOrder
<1>15. Shapes' BY <1>1, <1>2 DEF Shapes, Fit
<1>16. Editing' BY <1>1 DEF Editing
<1>17. Waiting' BY <1>1, <1>13 DEF Waiting
<1>18. Finished'
  <2>1. SUFFICES ASSUME status' = "done" PROVE \A s \in ToSet(steps) : Good(s, tree, env)
    BY <1>1 DEF Finished
  <2>2. todo' = <<>> BY <1>1, <1>3, <2>1
  <2>3. ToSet(todo') = {} BY <2>2, NoWrite
  <2>4. Ended' = ToSet(steps) BY <1>1, <2>3 DEF Ended
  <2> QED BY <1>13, <2>4
<1> QED BY <1>14, <1>15, <1>16, <1>17, <1>18 DEF Series

LEMMA SeriesFail == Series /\ Fail => Series'
<1> SUFFICES ASSUME Series, Fail PROVE Series' OBVIOUS
<1>1. /\ busy' = "idle" /\ status' = "refused" /\ pending = <<>>
      /\ steps' = steps /\ env' = env /\ tree' = tree /\ todo' = todo /\ pending' = pending /\ base' = base
  BY DEF Fail
<1>2. InOrder /\ Shapes BY DEF Series
<1>3. InOrder' BY <1>1, <1>2 DEF InOrder
<1>4. Shapes' BY <1>1, <1>2 DEF Shapes, Fit
<1>5. Editing' /\ Waiting' /\ Finished' BY <1>1 DEF Editing, Waiting, Finished
<1> QED BY <1>3, <1>4, <1>5 DEF Series

(* The mods that fail after, or before, their own look at the sources.     *)
LEMMA SeriesPreflightFails == Series /\ PreflightFails => Series'
<1> SUFFICES ASSUME Series, PreflightFails PROVE Series' OBVIOUS
<1>1. /\ busy = "idle" /\ busy' = busy /\ status' = "refused" /\ base' = tree
      /\ steps' = steps /\ env' = env /\ tree' = tree /\ todo' = todo /\ pending' = pending
  BY DEF PreflightFails
<1>2. InOrder /\ Shapes BY DEF Series
<1>3. InOrder' BY <1>1, <1>2 DEF InOrder
<1>4. Shapes' BY <1>1, <1>2 DEF Shapes, Fit
<1>5. Editing' /\ Waiting' /\ Finished' BY <1>1 DEF Editing, Waiting, Finished
<1> QED BY <1>3, <1>4, <1>5 DEF Series

LEMMA SeriesFailsHalfway == ASSUME NEW s, Series, FailsHalfway(s) PROVE Series'
<1>1. /\ busy' = "idle" /\ status' = "refused" /\ pending' = <<>>
      /\ steps' = steps /\ env' = env /\ tree' = tree /\ todo' = todo /\ base' = base
  BY DEF FailsHalfway
<1>2. InOrder /\ Shapes BY DEF Series
<1>3. InOrder' BY <1>1, <1>2 DEF InOrder
<1>4. Shapes' BY <1>1, <1>2 DEF Shapes, Fit
<1>5. Editing' /\ Waiting' /\ Finished' BY <1>1 DEF Editing, Waiting, Finished
<1> QED BY <1>3, <1>4, <1>5 DEF Series

LEMMA SeriesAgain == Series /\ Again => Series'
<1> SUFFICES ASSUME Series, Again PROVE Series' OBVIOUS
<1>1. /\ status = "done" /\ todo' = steps /\ status' = "running"
      /\ steps' = steps /\ env' = env /\ tree' = tree /\ pending' = pending /\ busy' = busy /\ base' = base
  BY DEF Again
<1>2. InOrder /\ Shapes BY DEF Series
<1>3. busy = "idle" BY <1>1, <1>2 DEF InOrder
<1>4. InOrder' BY <1>1, <1>2, <1>3 DEF InOrder
<1>5. Shapes' BY <1>1, <1>2 DEF Shapes, Fit
<1>6. Ended' = {} BY <1>1 DEF Ended
<1>7. Editing' /\ Waiting' /\ Finished' BY <1>1, <1>3, <1>6 DEF Editing, Waiting, Finished
<1> QED BY <1>4, <1>5, <1>7 DEF Series

LEMMA SeriesKill == Series /\ Kill => Series'
<1> SUFFICES ASSUME Series, Kill PROVE Series' OBVIOUS
<1> DEFINE r == Head(todo)
           o == Outcome(r, base, env)
           w == Head(pending)
<1>1. /\ pending # <<>> /\ r \in Mods /\ pending' = <<>> /\ busy' = "idle"
      /\ \/ tree' = tree
         \/ tree' = Spoilt(tree, w)
      /\ steps' = steps /\ env' = env /\ todo' = todo /\ base' = base /\ status' = status
  BY DEF Kill, Spoilt
<1>2. InOrder /\ Shapes BY DEF Series
<1>3. /\ busy = "edits" /\ status = "running" /\ todo # <<>>
      /\ r \in ToSet(steps) /\ r \in ToSet(todo) /\ ~o.refused
      /\ IsTree(base) /\ Readable(r, base) /\ Shaped(r, base) /\ Orderly(r, base, o)
      /\ \E k \in 0 .. Len(o.writes) :
                 /\ Partly(o, base, tree, k) /\ Pending(o.writes, k)
                 /\ k < Len(o.writes) /\ Head(pending) = o.writes[k + 1]
  BY <1>1, Underway
<1>4. PICK k \in 0 .. Len(o.writes) :
                 /\ Partly(o, base, tree, k) /\ Pending(o.writes, k)
                 /\ k < Len(o.writes) /\ w = o.writes[k + 1]
  BY <1>3
<1>o. o = Outcome(r, base, env) OBVIOUS
<1>t. tree' = tree \/ tree' = Spoilt(tree, w) BY <1>1
<1>5. \A s \in ToSet(steps) : Readable(s, base) /\ Shaped(s, base) BY <1>2 DEF Shapes, Fit
<1>6. \A s \in Ended : s # r /\ s \in ToSet(steps) /\ Good(s, base, env)
  BY <1>3, EndedGood DEF Ended
<1>7. InOrder' BY <1>1, <1>2, <1>3 DEF InOrder
<1>8. Editing' /\ Finished' BY <1>1, <1>3 DEF Editing, Finished
<1>9. Ended' = Ended /\ Outcome(Head(todo'), tree', env') = Outcome(r, tree', env)
  BY <1>1 DEF Ended
<1> HIDE DEF o, r, w
<1>10. CASE tree' = tree
  <2>1. Shapes' BY <1>1, <1>2, <1>10 DEF Shapes, Fit
  <2>2. Between(o, base, tree) BY <1>3, <1>4, PartlyBetween DEF Orderly
  <2>3. ASSUME NEW s \in Ended PROVE Good(s, tree, env)
    BY <1>o, <1>3, <1>5, <1>6, <2>2, <2>3, StaysGood
  <2>4. Waiting' BY <1>1, <1>9, <1>10, <2>3 DEF Waiting
  <2> QED BY <1>7, <1>8, <2>1, <2>4 DEF Series
<1>11. CASE tree' = Spoilt(tree, w)
  <2>1. /\ IsTree(tree') /\ DOMAIN tree' = DOMAIN base
        /\ \A f \in DOMAIN base : DOMAIN tree'[f] = DOMAIN base[f]
        /\ \A s : Readable(s, base) => Readable(s, tree')
    <3>1. IsTree(base) /\ Readable(r, base) /\ Shaped(r, base) /\ ~o.refused BY <1>3
    <3>2. Partly(o, base, tree, k) /\ k < Len(o.writes) /\ w = o.writes[k + 1] BY <1>4
    <3> QED BY <1>o, <1>11, <3>1, <3>2, KilledTree
  <2>2. ASSUME NEW s \in ToSet(steps) PROVE Shaped(s, tree')
    BY <1>o, <1>3, <1>4, <1>5, <1>11, <2>2, KilledShaped
  <2>3. Shapes'
    <3>1. Fit(base)' BY <1>1, <1>2 DEF Shapes, Fit
    <3> QED BY <1>1, <1>5, <2>1, <2>2, <3>1 DEF Shapes, Fit
  <2>4. ASSUME NEW s \in Ended PROVE Good(s, tree', env) \/ Outcome(r, tree', env).refused
    BY <1>o, <1>1, <1>3, <1>4, <1>5, <1>6, <1>11, <2>4, KilledGood
  <2>5. Waiting' BY <1>1, <1>9, <2>4 DEF Waiting
  <2> QED BY <1>7, <1>8, <2>3, <2>5 DEF Series
<1> QED BY <1>t, <1>10, <1>11

LEMMA SeriesStep == Series /\ [Next]_vars => Series'
<1>1. ASSUME Series, UNCHANGED vars PROVE Series'
  BY <1>1 DEF vars, Series, InOrder, Shapes, Fit, Editing, Pending, Waiting, Finished, Ended
<1>2. Series /\ (ImportFails \/ BaselineFails) => Series'
  BY SeriesFailsHalfway DEF ImportFails, BaselineFails
<1> QED BY <1>1, <1>2, SeriesDecide, SeriesMakeWrite, SeriesEndScript, SeriesFail, SeriesPreflightFails,
           SeriesAgain, SeriesKill DEF Next

-----------------------------------------------------------------------------
(* The theorems. *)

LEMMA SeriesAlways == Spec => []Series
BY SeriesInit, SeriesStep, PTL DEF Spec

LEMMA CountsStep ==
    ASSUME rounds \in 1 .. MaxRounds, kills \in 0 .. MaxKills, [Next]_vars
    PROVE  rounds' \in 1 .. MaxRounds /\ kills' \in 0 .. MaxKills
<1>1. MaxRounds \in Nat /\ MaxKills \in Nat BY BoundsAssumption
<1>2. \/ rounds' = rounds \/ (rounds < MaxRounds /\ rounds' = rounds + 1)
  BY DEF Next, Decide, MakeWrite, Fail, PreflightFails, ImportFails, BaselineFails, FailsHalfway,
         EndScript, Again, Kill, vars
<1>3. \/ kills' = kills \/ (kills < MaxKills /\ kills' = kills + 1)
  BY DEF Next, Decide, MakeWrite, Fail, PreflightFails, ImportFails, BaselineFails, FailsHalfway,
         EndScript, Again, Kill, vars
<1>4. rounds' \in 1 .. MaxRounds BY <1>1, <1>2
<1>5. kills' \in 0 .. MaxKills BY <1>1, <1>3
<1> QED BY <1>4, <1>5

-----------------------------------------------------------------------------
(* Who fails with something written. *)

(* When Inkling's mod takes its sources it installs two files, and leaves  *)
(* at most the dispatch to write after them.                               *)
LEMMA InklingInstalls ==
    ASSUME NEW t, NEW e, NEW o, o = Outcome("inkling", t, e), ~o.refused
    PROVE  \E w1, w2 :
              /\ w1.file = "vendor" /\ w1.text.whole = 1 /\ w2.file = "adapter" /\ w2.text.whole = 1
              /\ Ordered(o.writes) /\ o.writes[1] = w1 /\ o.writes[2] = w2
              /\ Len(InklingPatch(t).writes) \in {0, 1}
              /\ Len(o.writes) = 2 + Len(InklingPatch(t).writes)
<1> DEFINE made == [exists |-> 1, whole |-> 1]
           w1 == [file |-> "vendor", text |-> made, atomic |-> FALSE]
           w2 == [file |-> "adapter", text |-> made, atomic |-> FALSE]
           a == Write("vendor", made)
           b == Write("adapter", made)
           patch == InklingPatch(t)
           rest == Then(b, patch)
<1>1. ~a.refused /\ a.writes = <<w1>> /\ ~b.refused /\ b.writes = <<w2>> BY Parts
<1>2. ~patch.refused /\ (patch.writes = <<>> \/ \E w3 : w3.file = "inkling" /\ patch.writes = <<w3>>)
  <2>1. o = Known(patch.refused, Then(a, rest)) BY DEF Outcome, InklingMod
  <2>2. ~patch.refused
    <3> HIDE DEF a, rest, patch
    <3> QED BY <2>1 DEF Known, Refuse
  <2>3. \E x : patch = Refuse \/ patch = Keep \/ patch = Replace("inkling", x) BY DEF InklingPatch, Known
  <2>4. PICK x : patch = Refuse \/ patch = Keep \/ patch = Replace("inkling", x) BY <2>3
  <2> DEFINE w3 == [file |-> "inkling", text |-> x, atomic |-> TRUE]
  <2>5. w3.file = "inkling" OBVIOUS
  <2>6. Refuse.refused BY DEF Refuse
  <2>7. Replace("inkling", x).writes = <<w3>> /\ Keep.writes = <<>> BY Parts
  <2> HIDE DEF patch, w3
  <2>8. patch.writes = <<>> \/ patch.writes = <<w3>> BY <2>2, <2>4, <2>6, <2>7
  <2> QED BY <2>2, <2>5, <2>8
<1>3. o = Then(a, rest) BY <1>2 DEF Outcome, InklingMod, Known
<1>4. w1.file = "vendor" /\ w1.text.whole = 1 /\ w2.file = "adapter" /\ w2.text.whole = 1
  OBVIOUS
<1> HIDE DEF a, b, patch, w1, w2
<1>5. o.writes = <<w1>> \o (<<w2>> \o patch.writes)
  <2>1. \A c, d : Then(c, d).writes = c.writes \o d.writes BY Parts
  <2>2. rest.writes = b.writes \o patch.writes BY <2>1
  <2>3. o.writes = a.writes \o rest.writes BY <1>3, <2>1
  <2> QED BY <1>1, <2>2, <2>3
<1> DEFINE y == <<w2>> \o patch.writes
<1>6. /\ Ordered(y) /\ y[1] = w2 /\ Len(patch.writes) \in {0, 1} /\ Len(y) = 1 + Len(patch.writes)
      /\ \A v \in ToSet(y) : v.file # "vendor"
  <2>1. CASE patch.writes = <<>>
    <3>1. y = <<w2>> BY <2>1
    <3>2. Ordered(y) /\ ToSet(y) = {w2} /\ Len(y) = 1 /\ y[1] = w2 BY <3>1, OneWrite
    <3> HIDE DEF y
    <3> QED BY <1>4, <2>1, <3>2, NoWrite
  <2>2. CASE \E w3 : w3.file = "inkling" /\ patch.writes = <<w3>>
    <3>1. PICK w3 : w3.file = "inkling" /\ patch.writes = <<w3>> BY <2>2
    <3> DEFINE z == <<w3>>
    <3>2. Ordered(z) /\ ToSet(z) = {w3} /\ Len(z) = 1 BY OneWrite
    <3>3. y = Prepended(w2, z) BY <3>1 DEF Prepended
    <3>4. patch.writes = z BY <3>1
    <3> HIDE DEF y, z
    <3>5. \A v \in ToSet(z) : v.file # w2.file BY <1>4, <3>1, <3>2
    <3>6. /\ Ordered(y) /\ Len(y) = Len(z) + 1 /\ y[1] = w2
          /\ \A v : v \in ToSet(y) <=> v = w2 \/ v \in ToSet(z)
      BY <3>2, <3>3, <3>5, ConsFacts
    <3> QED BY <1>4, <3>1, <3>2, <3>4, <3>6
  <2> QED BY <1>2, <2>1, <2>2
<1>7. o.writes = Prepended(w1, y) BY <1>5 DEF Prepended
<1> HIDE DEF y
<1>8. /\ Ordered(o.writes) /\ Len(o.writes) = Len(y) + 1 /\ o.writes[1] = w1
      /\ o.writes[1 + 1] = y[1]
  <2>1. 1 \in 1 .. Len(y) BY <1>6
  <2> QED BY <1>4, <1>6, <1>7, <2>1, ConsFacts
<1> QED BY <1>4, <1>6, <1>8 DEF patch

(* Two mods fail with their files in place; every other script that fails, *)
(* or is about to, has left the tree as it found it.                       *)
Refused == (busy = "fails" => tree = base) /\ RefusalLeavesTree

LEMMA RefusedImport ==
    ASSUME Series, ImportFails
    PROVE  /\ ~Outcome("inkling", base, env).refused
           /\ tree.vendor.whole = 1 /\ tree.adapter.whole = 1
           /\ \A f \in DOMAIN tree \ {"vendor", "adapter"} : tree[f] = base[f]
<1> DEFINE o == Outcome("inkling", base, env)
<1>1. busy = "edits" /\ Head(todo) = "inkling" /\ pending = InklingPatch(base).writes
  BY DEF ImportFails, FailsHalfway
<1>2. ~o.refused /\ \E k \in 0 .. Len(o.writes) : Partly(o, base, tree, k) /\ Pending(o.writes, k)
  BY <1>1 DEF Series, Editing
<1>3. PICK k \in 0 .. Len(o.writes) : Partly(o, base, tree, k) /\ Pending(o.writes, k) BY <1>2
<1> HIDE DEF o
<1>4. PICK w1, w2 :
         /\ w1.file = "vendor" /\ w1.text.whole = 1 /\ w2.file = "adapter" /\ w2.text.whole = 1
         /\ Ordered(o.writes) /\ o.writes[1] = w1 /\ o.writes[2] = w2
         /\ Len(InklingPatch(base).writes) \in {0, 1}
         /\ Len(o.writes) = 2 + Len(InklingPatch(base).writes)
  BY <1>2, InklingInstalls DEF o
<1>5. k = 2
  <2>1. Len(pending) = Len(o.writes) - k BY <1>3 DEF Pending
  <2>2. k \in Int BY <1>3
  <2> QED BY <1>1, <1>4, <2>1, <2>2
<1>6. Partly(o, base, tree, 2) BY <1>3, <1>5
<1>7. 1 .. 2 = {1, 2} OBVIOUS
<1>8. /\ DOMAIN tree = DOMAIN base
      /\ \A j \in {1, 2} : tree[o.writes[j].file] = o.writes[j].text
      /\ \A f \in DOMAIN base : (\A j \in {1, 2} : o.writes[j].file # f) => tree[f] = base[f]
  BY <1>6, <1>7 DEF Partly
<1> QED BY <1>2, <1>4, <1>8 DEF o

LEMMA RefusedBaseline ==
    ASSUME Series, BaselineFails
    PROVE  /\ ~Outcome("memory_profile", base, env).refused
           /\ \A w \in ToSet(Outcome("memory_profile", base, env).writes) : tree[w.file] = w.text
<1> DEFINE o == Outcome("memory_profile", base, env)
<1>1. busy = "edits" /\ Head(todo) = "memory_profile" /\ pending = <<>>
  BY DEF BaselineFails, FailsHalfway
<1>2. ~o.refused /\ \E k \in 0 .. Len(o.writes) : Partly(o, base, tree, k) /\ Pending(o.writes, k)
  BY <1>1 DEF Series, Editing
<1>3. PICK k \in 0 .. Len(o.writes) : Partly(o, base, tree, k) /\ Pending(o.writes, k) BY <1>2
<1>4. Ordered(o.writes)
  <2>1. InOrder /\ Shapes BY DEF Series
  <2>2. status = "running" /\ todo # <<>> BY <1>1, <2>1 DEF InOrder
  <2>3. "memory_profile" \in ToSet(steps) BY <1>1, <2>1, <2>2, SeqParts DEF InOrder
  <2>4. IsTree(base) /\ Readable("memory_profile", base) /\ Shaped("memory_profile", base)
    BY <2>1, <2>3 DEF Shapes, Fit
  <2>5. Sound("memory_profile", base, env) BY <2>4, AllSound
  <2> QED BY <1>2, <2>5, SoundOrderly DEF Orderly
<1> HIDE DEF o
<1>5. k = Len(o.writes)
  <2>1. Len(pending) = Len(o.writes) - k /\ Len(pending) = 0 BY <1>1, <1>3 DEF Pending
  <2>2. Len(o.writes) \in Nat BY <1>4, WriteAt
  <2> DEFINE n == Len(o.writes)
  <2>3. k \in 0 .. n /\ n \in Nat /\ 0 = n - k BY <1>3, <2>1, <2>2
  <2> HIDE DEF n
  <2>4. k = n BY <2>3
  <2> QED BY <2>4 DEF n
<1>6. Applied(o, base, tree) BY <1>3, <1>4, <1>5, PartlyBetween
<1> QED BY <1>2, <1>6 DEF Applied, o

LEMMA RefusedStep == Series /\ Refused /\ [Next]_vars => Refused'
<1> SUFFICES ASSUME Series, Refused, [Next]_vars PROVE Refused' OBVIOUS
<1>1. InOrder BY DEF Series
<1>2. CASE Decide
  <2>1. status' = "running" /\ base' = tree /\ tree' = tree BY <1>2 DEF Decide
  <2> QED BY <2>1 DEF Refused, RefusalLeavesTree
<1>3. CASE MakeWrite
  <2>1. busy' = "edits" /\ status' = "running" BY <1>1, <1>3 DEF InOrder, MakeWrite
  <2> QED BY <2>1 DEF Refused, RefusalLeavesTree
<1>4. CASE Fail
  <2>1. tree' = base' /\ busy' = "idle" BY <1>4 DEF Refused, Fail
  <2> QED BY <2>1 DEF Refused, RefusalLeavesTree
<1>5. CASE EndScript
  <2>1. busy' = "idle" /\ status' # "refused" BY <1>1, <1>5 DEF InOrder, EndScript
  <2> QED BY <2>1 DEF Refused, RefusalLeavesTree
<1>6. CASE Again
  <2>1. busy' = "idle" /\ status' = "running" BY <1>1, <1>6 DEF InOrder, Again
  <2> QED BY <2>1 DEF Refused, RefusalLeavesTree
<1>7. CASE Kill
  <2>1. busy' = "idle" /\ status' = "running" BY <1>1, <1>7 DEF InOrder, Kill
  <2> QED BY <2>1 DEF Refused, RefusalLeavesTree
<1>8. CASE PreflightFails
  <2>1. tree' = tree /\ base' = tree BY <1>8 DEF PreflightFails
  <2> QED BY <2>1 DEF Refused, RefusalLeavesTree
<1>9. CASE ImportFails
  <2>1. /\ busy' = "idle" /\ tree' = tree /\ base' = base /\ env' = env /\ Head(todo') = "inkling"
    BY <1>9 DEF ImportFails, FailsHalfway
  <2>2. /\ ~Outcome("inkling", base, env).refused
        /\ tree.vendor.whole = 1 /\ tree.adapter.whole = 1
        /\ \A f \in DOMAIN tree \ {"vendor", "adapter"} : tree[f] = base[f]
    BY <1>9, RefusedImport
  <2> QED BY <2>1, <2>2 DEF Refused, RefusalLeavesTree
<1>10. CASE BaselineFails
  <2>1. /\ busy' = "idle" /\ tree' = tree /\ base' = base /\ env' = env
        /\ Head(todo') = "memory_profile"
    BY <1>10 DEF BaselineFails, FailsHalfway
  <2>2. /\ ~Outcome("memory_profile", base, env).refused
        /\ \A w \in ToSet(Outcome("memory_profile", base, env).writes) : tree[w.file] = w.text
    BY <1>10, RefusedBaseline
  <2> QED BY <2>1, <2>2 DEF Refused, RefusalLeavesTree
<1>11. CASE UNCHANGED vars BY <1>11 DEF vars, Refused, RefusalLeavesTree
<1> QED BY <1>2, <1>3, <1>4, <1>5, <1>6, <1>7, <1>8, <1>9, <1>10, <1>11 DEF Next

(* However the sources look and whichever scripts edited them before, the  *)
(* script that fails a build leaves the tree as it found it; so does a mod *)
(* that fails the start of a container, unless it took the sources and one *)
(* of the checks that follow its writes failed: Inkling's import of the    *)
(* kernels it installed, or the profiler's first measurement.              *)
THEOREM RefusalSafe == Spec => []RefusalLeavesTree
<1>1. Init => Refused BY DEF Init, Refused, RefusalLeavesTree
<1>2. Refused => RefusalLeavesTree BY DEF Refused
<1> QED BY <1>1, <1>2, RefusedStep, SeriesAlways, PTL DEF Spec

(* The scripts never make or lose a file or a passage they count, and no   *)
(* count goes below nothing: a passage is only taken out where it was found. *)
THEOREM TypeCorrect == Spec => []TypeOK
<1> DEFINE Counts == rounds \in 1 .. MaxRounds /\ kills \in 0 .. MaxKills
<1>1. Init => Counts BY BoundsAssumption DEF Init
<1>2. Counts /\ [Next]_vars => Counts' BY CountsStep
<1>3. Series /\ Counts => TypeOK
  <2> SUFFICES ASSUME Series, Counts PROVE TypeOK OBVIOUS
  <2>1. InOrder /\ Shapes BY DEF Series
  <2>2. ASSUME NEW f \in DOMAIN tree \ {"directories", "manifest"}, NEW p \in DOMAIN tree[f]
        PROVE  tree[f][p] \in Nat
    <3>1. IsText(tree[f]) BY <2>1 DEF Shapes, Fit, IsTree, Sources
    <3> QED BY <3>1 DEF IsText
  <2> QED BY <2>1, <2>2 DEF TypeOK, InOrder, Shapes
<1> HIDE DEF Counts
<1> QED BY <1>1, <1>2, <1>3, SeriesAlways, PTL DEF Spec

(* Whatever sources a series was applied to, and however often its mods    *)
(* were killed on the way, no script of it mistakes its own work or that   *)
(* of another one when it is applied again.                                *)
THEOREM AppliedAgain == Spec => []ReapplyQuiet
<1>1. Series => ReapplyQuiet
  <2> SUFFICES ASSUME Series, status = "done", NEW s \in ToSet(steps) \ {"api_key_auth"}
               PROVE  LET o == Outcome(s, tree, env)
                      IN  ~o.refused /\ (s # "inkling" => \A w \in ToSet(o.writes) : w.text = tree[w.file])
    BY DEF ReapplyQuiet
  <2>1. Good(s, tree, env) BY DEF Series, Finished
  <2> QED BY <2>1 DEF Good, Settled
<1> QED BY <1>1, SeriesAlways, PTL

(* A series that ends well has left nothing its scripts exist to remove    *)
(* and has added everything they exist to add, from whatever sources.      *)
THEOREM Mended == Spec => []NothingAffectedLeft
<1>1. Series => NothingAffectedLeft
  BY DEF Series, Finished, Good, NothingAffectedLeft
<1> QED BY <1>1, SeriesAlways, PTL

(* A memory profiler or an Inkling mod that reports success is all there,  *)
(* also after an attempt that was killed between two of its writes.        *)
THEOREM Installed == Spec => []InstalledWhole
<1>1. Series => InstalledWhole
  <2> SUFFICES ASSUME Series, status = "done"
               PROVE  /\ "memory_profile" \in ToSet(steps) =>
                           /\ tree.worker.hook = 1 /\ tree.gc.hook = 1
                           /\ tree[ApiFile(tree)].hook = 1
                           /\ tree.helper.whole = 1 /\ tree.manifest.run \in tree.directories.runs
                           /\ env.run \in {0, tree.manifest.run}
                      /\ "inkling" \in ToSet(steps) /\ tree.inkling.adapter > 0 =>
                           tree.vendor.whole = 1 /\ tree.adapter.whole = 1
    BY DEF InstalledWhole
  <2>1. \A s \in ToSet(steps) : Good(s, tree, env) BY DEF Series, Finished
  <2>2. ASSUME "memory_profile" \in ToSet(steps)
        PROVE  /\ tree.worker.hook = 1 /\ tree.gc.hook = 1
               /\ tree[ApiFile(tree)].hook = 1
               /\ tree.helper.whole = 1 /\ tree.manifest.run \in tree.directories.runs
               /\ env.run \in {0, tree.manifest.run}
    <3>1. Good("memory_profile", tree, env) BY <2>1, <2>2
    <3> QED BY <3>1 DEF Good
  <2>3. ASSUME "inkling" \in ToSet(steps), tree.inkling.adapter > 0
        PROVE  tree.vendor.whole = 1 /\ tree.adapter.whole = 1
    <3>1. Good("inkling", tree, env) BY <2>1, <2>3
    <3> QED BY <2>3, <3>1 DEF Good
  <2> QED BY <2>2, <2>3
<1> QED BY <1>1, SeriesAlways, PTL
=============================================================================
