------------------------------ MODULE DemoPlan ------------------------------
(***************************************************************************)
(* tools/xlang-runner/src/demo/plan.rs: which languages ship a demo here,  *)
(* and every assignment of them to the demo's slots as a case.  A process  *)
(* has a slot, or (slot None) runs once for each language.  Of the         *)
(* placeholders those that can fail, {path:BIN@SLOT}, and {total} are      *)
(* kept; the demo file is one that config.rs has accepted.                 *)
(***************************************************************************)
EXTENDS Integers, Sequences, FiniteSets, SequencesExt

CONSTANTS
  Langs,       \* languages of the demo file, in the order of their names
  Demos        \* [bins : binary -> the languages that declare it, languages, clear,
               \*  count, procs : Seq([role, slot, bin, paths, spawned])]

VARIABLES
  demo, dirs, built,  \* the demo; languages with a directory; <<bin, lang>> found in it
  result              \* the plan, once it is made

vars == <<demo, dirs, built, result>>

None == "none"

\* config.rs load: what a demo file that was accepted satisfies.
load(d) == \A i \in DOMAIN d.procs :
             LET p == d.procs[i]
             IN p.bin \in DOMAIN d.bins /\ (p.spawned => p.slot # None)

Init == /\ demo \in Demos /\ dirs \in SUBSET Range(Langs) /\ result = <<>> /\ load(demo)
        /\ built \in SUBSET UNION {{b} \X demo.bins[b] : b \in DOMAIN demo.bins}

resolve_bin(bin, lang) == lang \in dirs /\ bin \in DOMAIN demo.bins /\ <<bin, lang>> \in built

\* The binaries the processes of a slot run.
Bins(slot) == {demo.procs[i].bin : i \in {j \in DOMAIN demo.procs : demo.procs[j].slot = slot}}
Groups == {demo.procs[i].slot : i \in DOMAIN demo.procs}

\* Languages that take part and declare a binary of the slot.
Ports(slot) ==
  {l \in dirs : /\ demo.languages = {} \/ l \in demo.languages
                /\ \E b \in Bins(slot) : l \in demo.bins[b]}

\* Seeded fault: one of the binaries is enough.
group_langs_AnyBin(slot) ==
  SelectSeq(Langs, LAMBDA l : l \in Ports(slot) /\ \E b \in Bins(slot) : resolve_bin(b, l))

group_langs(slot) ==
  SelectSeq(Langs, LAMBDA l : l \in Ports(slot) /\ \A b \in Bins(slot) : resolve_bin(b, l))

\* Languages that declare a binary and do not ship it.
\* Seeded fault: only those that ship none of the slot's binaries.
skipped_NoneBuilt ==
  {l \in dirs : \E s \in Groups : l \in Ports(s) /\ \A b \in Bins(s) : ~resolve_bin(b, l)}

skipped == {l \in dirs : \E s \in Groups : l \in Ports(s) \ Range(group_langs(s))}

\* Slots in the order of the processes.
slots == LET own == SelectSeq(demo.procs, LAMBDA p : p.slot # None)
         IN [i \in DOMAIN own |-> own[i].slot]
Distinct(s) == FoldLeft(LAMBDA acc, x : IF x \in Range(acc) THEN acc ELSE Append(acc, x), <<>>, s)

\* Every assignment of a language to each slot: slot by slot, each partial one
\* with each language.
product(ss) ==
  FoldLeft(LAMBDA out, s :
             FlattenSeq([k \in DOMAIN out |->
               LET ls == group_langs(s)
               IN [m \in DOMAIN ls |-> Append(out[k], ls[m])]]),
           <<<<>>>>, ss)

each_langs == group_langs(None)
\* Seeded fault: one process per language, however many roles there are.
fan_in_OneRole == Len(each_langs)

fan_in == Cardinality({i \in DOMAIN demo.procs : demo.procs[i].slot = None}) * Len(each_langs)
total == IF fan_in > 0 THEN demo.count * fan_in ELSE demo.count

\* One process; no language when its binary, or one it names, is not there.
case_proc(spec, lang, assign) ==
  IF /\ resolve_bin(spec.bin, lang)
     /\ \A q \in spec.paths : resolve_bin(q.bin, assign[q.slot])
  THEN [role |-> spec.role, lang |-> lang, each |-> spec.slot = None]
  ELSE [role |-> spec.role, lang |-> None, each |-> FALSE]

Case(i, ss, langs) ==
  LET assign == [s \in Range(ss) |-> langs[CHOOSE k \in DOMAIN ss : ss[k] = s]]
      run == SelectSeq(demo.procs, LAMBDA p : ~p.spawned)
      Procs(spec) == LET ls == IF spec.slot = None THEN each_langs ELSE <<assign[spec.slot]>>
                     IN [k \in DOMAIN ls |-> case_proc(spec, ls[k], assign)]
      mains == SelectSeq(langs \o each_langs, LAMBDA l : resolve_bin("main", l))
  IN [ch |-> i, assign |-> assign, total |-> total,
      procs |-> FlattenSeq([k \in DOMAIN run |-> Procs(run[k])]),
      clear |-> IF demo.clear /\ mains # <<>> THEN Head(mains) ELSE None]

\* plan, for one demo: cases, the languages it takes, and its notes.
Plan ==
  LET ss == Distinct(slots)
      none == \E s \in Groups : group_langs(s) = <<>>
      all == IF none THEN <<>> ELSE product(ss)
  IN /\ result = <<>>
     /\ result' = <<[cases |-> [i \in DOMAIN all |-> Case(i, ss, all[i])],
                    coverage |-> IF none THEN {} ELSE UNION {Range(group_langs(s)) : s \in Groups},
                    notes |-> (Range(Langs) \ dirs) \cup skipped \cup (IF none THEN {"*"} ELSE {})]>>
     /\ UNCHANGED <<demo, dirs, built>>

Done == result # <<>> /\ UNCHANGED vars

Next == Plan \/ Done

Spec == Init /\ [][Next]_vars

-----------------------------------------------------------------------------
Planned == result # <<>>

\* Property.  The cases are the assignments in which every slot has a language
\* that ships all its processes run, each once (product, group_langs).
DpComplete ==
  Planned =>
    LET ships(l, s) == /\ l \in dirs /\ (demo.languages = {} \/ l \in demo.languages)
                       /\ \A i \in DOMAIN demo.procs :
                            demo.procs[i].slot = s => <<demo.procs[i].bin, l>> \in built
        named == Groups \ {None}
        want == IF None \in Groups /\ ~\E l \in Range(Langs) : ships(l, None) THEN {}
                ELSE {f \in [named -> Range(Langs)] : \A s \in named : ships(f[s], s)}
        got == [i \in DOMAIN result[1].cases |-> result[1].cases[i].assign]
    IN Range(got) = want /\ Len(got) = Cardinality(want)

\* Property.  A planned case has a binary for every process it starts or
\* names, expects the total its producers will send, and has someone to clear
\* up if the demo asks for it (case_proc, fan_in, clear).
DpFits ==
  Planned =>
    \A i \in DOMAIN result[1].cases :
      LET c == result[1].cases[i]
          producers == {k \in DOMAIN c.procs : c.procs[k].each}
      IN /\ \A k \in DOMAIN c.procs : c.procs[k].lang # None
         /\ None \in Groups => c.total = demo.count * Cardinality(producers)
         /\ demo.clear => c.clear # None

\* Property.  A language that declares a binary of a role and fills that role
\* in no case is named in the notes, or the demo as a whole is (skipped, notes).
DpTold ==
  Planned =>
    \A l \in Range(Langs), i \in DOMAIN demo.procs :
      LET spec == demo.procs[i]
          fills(c) == IF spec.slot = None
                      THEN \E k \in DOMAIN c.procs : c.procs[k].role = spec.role /\ c.procs[k].lang = l
                      ELSE c.assign[spec.slot] = l
      IN l \in demo.bins[spec.bin] /\ (demo.languages = {} \/ l \in demo.languages) =>
           \/ {l, "*"} \cap result[1].notes # {}
           \/ \E k \in DOMAIN result[1].cases : fills(result[1].cases[k])
=============================================================================
