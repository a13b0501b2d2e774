------------------------------ MODULE CasePlan ------------------------------
(***************************************************************************)
(* tools/xlang-runner/src/cases.rs and harness.rs: the scenarios of the    *)
(* matrix expanded into cases for the harnesses that are on this host.     *)
(* Sizes and counts are one small set for all scenarios.                   *)
(***************************************************************************)
EXTENDS Integers, Sequences, FiniteSets, SequencesExt

CONSTANTS
  Langs,       \* the configured languages, in the order of their names
  Reference,   \* the language the conformance traces are compared with
  Traces,      \* conformance probes
  Sizes, Algorithms, Codecs, COUNT, badkey_size

None == "none"
SCENARIOS == {"conform", "contend", "sync", "async", "fanout", "channel", "reap", "primitives",
              "typed", "secure", "secure-badkey", "secure-negative"}

\* Every value of F over a sequence, in order: a loop that pushes.
Each(s, F(_)) == FlattenSeq([i \in DOMAIN s |-> F(s[i])])

-----------------------------------------------------------------------------
\* harness.rs.  What a build of the harness reports with its caps verb.
caps(feats) ==
  {<<"prim", None>>}
  \cup (IF "codec-protobuf" \in feats THEN {<<"typed", "protobuf">>} ELSE {})
  \cup (IF "notify" \in feats THEN {<<"notify", None>>} ELSE {})
  \cup (IF "async-tokio" \in feats THEN {<<"async", None>>} ELSE {})
  \cup (IF "secure-crypto-openssl" \in feats
        THEN {"secure"} \X {None, "aes256gcm", "chacha20poly1305"} ELSE {})

\* A harness that does not answer in time has no capabilities.
probe_caps(b) == IF b.answers THEN caps(b.feats) ELSE {}

\* The languages whose binary is there, in order.
resolve(host) ==
  LET there == SelectSeq(Langs, LAMBDA l : host[l].present)
  IN [i \in DOMAIN there |-> [name |-> there[i], modes |-> host[there[i]].modes,
                              feats |-> host[there[i]].feats, caps |-> probe_caps(host[there[i]])]]

required_caps(mode) ==
  CASE mode = "primitives" -> {<<"prim", None>>}
    [] mode = "async" -> {<<"notify", None>>, <<"async", None>>}
    [] mode = "typed" -> {"typed"} \X Range(Codecs)
    [] mode = "secure" -> {"secure"} \X ({None} \cup Range(Algorithms))
    [] OTHER -> {}

has_caps(h, required) == required \subseteq h.caps

-----------------------------------------------------------------------------
Mode(scenario) == CASE scenario \in {"conform", "contend", "sync", "fanout"} -> "sync"
                    [] scenario \in {"secure", "secure-badkey", "secure-negative"} -> "secure"
                    [] OTHER -> scenario

participants(ready, mode) ==
  SelectSeq(ready, LAMBDA h : mode \in h.modes /\ has_caps(h, required_caps(mode)))

\* The languages left out of a scenario for want of capabilities.
missing(ready, mode) ==
  {h.name : h \in {g \in Range(ready) : mode \in g.modes /\ ~has_caps(g, required_caps(mode))}}

\* One process of a case: a harness and its arguments.  min is the number of
\* receivers a writer waits for, alg its algorithm or codec.
rw(h, verb, n, size, min, alg) ==
  [lang |-> h.name, feats |-> h.feats, verb |-> verb, n |-> n, size |-> size, min |-> min,
   alg |-> alg]
Proc(h, verb) == rw(h, verb, 0, 0, 1, None)

Case(scenario, tag, readers, writers) ==
  [scenario |-> scenario, channel |-> <<tag, 0>>, readers |-> readers, writers |-> writers,
   holder |-> <<>>, kill |-> FALSE, zombie |-> FALSE, probes |-> <<>>]
HoldProbe(scenario, tag, holder, kill, zombie, probes, readers, writers) ==
  [Case(scenario, tag, readers, writers) EXCEPT
     !.holder = <<holder>>, !.kill = kill, !.zombie = zombie, !.probes = probes]
Probe(proc, expect) == [proc |-> proc, expect |-> expect]

Pairs(L, F(_, _)) == Each(L, LAMBDA w : Each(L, LAMBDA r : F(w, r)))

conform(ready) ==
  LET ref == SelectSeq(ready, LAMBDA h : h.name = Reference)
  IN IF ref = <<>> THEN <<>>
     ELSE Each(Traces, LAMBDA t :
            Each(SelectSeq(ready, LAMBDA h : h.name # Reference /\ "sync" \in h.modes),
                 LAMBDA h : <<Case("conform", "", <<rw(h, "conform", 0, 0, 1, t)>>,
                                   <<rw(Head(ref), "conform", 0, 0, 1, t)>>)>>))

sync(L) ==
  Pairs(L, LAMBDA w, r : Each(Sizes, LAMBDA z :
    <<Case("sync", "s", <<rw(r, "read", COUNT, z, 1, None)>>, <<rw(w, "write", COUNT, z, 1, None)>>)>>))

async(L) ==
  Pairs(L, LAMBDA w, r : Each(Sizes, LAMBDA z :
    <<Case("async", "a", <<rw(r, "aread", COUNT, z, 1, None)>>, <<rw(w, "write", COUNT, z, 1, None)>>)>>))

\* contend and fanout: everyone reads what one writes once all are there.
\* Seeded fault: the writer starts as soon as one reader is there.
fanout_AnyReader(L, scenario, tag) ==
  IF Len(L) < 2 THEN <<>>
  ELSE Each(L, LAMBDA w : Each(Sizes, LAMBDA z :
         <<Case(scenario, tag, [i \in DOMAIN L |-> rw(L[i], "read", COUNT, z, 1, None)],
                <<rw(w, "write", COUNT, z, 1, None)>>)>>))

fanout(L, scenario, tag) ==
  IF Len(L) < 2 THEN <<>>
  ELSE Each(L, LAMBDA w : Each(Sizes, LAMBDA z :
         <<Case(scenario, tag, [i \in DOMAIN L |-> rw(L[i], "read", COUNT, z, 1, None)],
                <<rw(w, "write", COUNT, z, Len(L), None)>>)>>))

\* Two writers of different languages; the reader expects what both send.
\* Seeded fault: the second writer starts one language too late.
channel_SkipTwo(L) ==
  Each([i \in DOMAIN L |-> i], LAMBDA i : Each(SubSeq(L, i + 2, Len(L)), LAMBDA w2 :
    Each(L, LAMBDA r : Each(Sizes, LAMBDA z :
      <<Case("channel", "c", <<rw(r, "cread", 2 * COUNT, z, 1, None)>>,
             <<rw(L[i], "cwrite", COUNT, z, 1, None), rw(w2, "cwrite", COUNT, z, 1, None)>>)>>))))

channel(L) ==
  Each([i \in DOMAIN L |-> i], LAMBDA i : Each(SubSeq(L, i + 1, Len(L)), LAMBDA w2 :
    Each(L, LAMBDA r : Each(Sizes, LAMBDA z :
      <<Case("channel", "c", <<rw(r, "cread", 2 * COUNT, z, 1, None)>>,
             <<rw(L[i], "cwrite", COUNT, z, 1, None), rw(w2, "cwrite", COUNT, z, 1, None)>>)>>))))

\* Receiver slots and the sender slot of a holder that lives, dies, or is dead
\* and not yet waited for, and traffic over what it leaves.
reap(L) ==
  LET Hold(h, verb, kill, zombie, probes, rs, ws) ==
        HoldProbe("reap", "r", Proc(h, verb), kill, zombie, probes, rs, ws)
      Ask(r, verb, expect) == Probe(Proc(r, verb), expect)
  IN Pairs(L, LAMBDA h, r :
       <<Hold(h, "hold", TRUE, FALSE, <<Ask(r, "count", 1)>>, <<>>, <<>>),
         Hold(h, "hold", FALSE, FALSE, <<Ask(r, "count", 2)>>, <<>>, <<>>),
         Hold(h, "hold", TRUE, FALSE, <<Ask(r, "probe", 1), Ask(r, "count", 1)>>, <<>>, <<>>),
         Hold(h, "hold", TRUE, FALSE, <<>>, <<rw(r, "read", COUNT, 200, 1, None)>>,
              <<rw(h, "write", COUNT, 200, 1, None)>>),
         Hold(h, "shold", TRUE, FALSE, <<Ask(r, "sclaim", 1)>>, <<>>, <<>>),
         Hold(h, "shold", FALSE, FALSE, <<Ask(r, "sclaim", 0)>>, <<>>, <<>>),
         Hold(h, "shold", TRUE, FALSE, <<>>, <<rw(h, "read", COUNT, 200, 1, None)>>,
              <<rw(r, "write", COUNT, 200, 1, None)>>),
         Hold(h, "shold", TRUE, TRUE, <<Ask(r, "sclaim", 1)>>, <<>>, <<>>),
         Hold(h, "hold", TRUE, TRUE, <<Ask(r, "count", 1)>>, <<>>, <<>>)>>)

primitives(L) ==
  LET Hold(a, kill, zombie, b, verb, expect) ==
        HoldProbe("primitives", "p", Proc(a, "mhold"), kill, zombie,
                  <<Probe(Proc(b, verb), expect)>>, <<>>, <<>>)
  IN Pairs(L, LAMBDA a, b :
       <<Hold(a, FALSE, FALSE, b, "mtry", "busy"),
         Hold(a, TRUE, FALSE, b, "mlock", "acquired"),
         Hold(a, TRUE, TRUE, b, "mlock", "acquired"),
         Case("primitives", "p", <<rw(b, "swait", 3, 0, 1, None)>>, <<rw(a, "spost", 3, 0, 1, None)>>),
         Case("primitives", "p", <<Proc(b, "cvwait")>>, <<Proc(a, "cvnotify")>>)>>)

secure(L, on) ==
  Each(Algorithms, LAMBDA g : Pairs(L, LAMBDA w, r :
    (IF "secure" \in on
     THEN Each(Sizes, LAMBDA z : <<Case("secure", "e", <<rw(r, "sread", COUNT, z, 1, g)>>,
                                        <<rw(w, "swrite", COUNT, z, 1, g)>>)>>)
     ELSE <<>>)
    \o
    (IF "secure-badkey" \in on
     THEN <<Case("secure-badkey", "b", <<rw(r, "sread-badkey", COUNT, badkey_size, 1, g)>>,
                 <<rw(w, "swrite", COUNT, badkey_size, 1, g)>>)>>
     ELSE <<>>)))

typed(L) ==
  Each(Codecs, LAMBDA g : Pairs(L, LAMBDA w, r : Each(Sizes, LAMBDA z :
    <<Case("typed", "t", <<rw(r, "tread", COUNT, z, 1, g)>>, <<rw(w, "twrite", COUNT, z, 1, g)>>)>>)))

secure_negative(L) ==
  Each([i \in DOMAIN Algorithms |-> i], LAMBDA i : Pairs(L, LAMBDA w, r :
    LET g == Algorithms[i]
        other == Algorithms[(i % Len(Algorithms)) + 1]
        Neg(write, read, alg) ==
          Case("secure-negative", "n", <<rw(r, read, COUNT, badkey_size, 1, alg)>>,
               <<rw(w, write, COUNT, badkey_size, 1, g)>>)
    IN <<Neg("swrite-tamper", "sread-reject", g), Neg("swrite", "sread-badkeyid", g)>>
       \o IF Len(Algorithms) >= 2 THEN <<Neg("swrite", "sread-reject", other)>> ELSE <<>>))

\* Namer.next: the run's counter makes a channel the case's own.
Named(cases) ==
  [i \in DOMAIN cases |->
     IF cases[i].scenario = "conform" THEN cases[i]
     ELSE [cases[i] EXCEPT !.channel[2] =
             Cardinality({j \in 1..i : cases[j].scenario # "conform"})]]

\* Scenarios that run, an empty filter naming them all.
enabled(filter) == IF filter = {} THEN SCENARIOS ELSE filter

\* The cases in the order they are pushed.
plan(ready, filter) ==
  LET on == enabled(filter)
      If(s, F(_)) == IF s \in on THEN F(participants(ready, Mode(s))) ELSE <<>>
  IN Named((IF "conform" \in on THEN conform(ready) ELSE <<>>)
           \o If("sync", sync) \o If("async", async)
           \o If("contend", LAMBDA L : fanout(L, "contend", "k"))
           \o If("fanout", LAMBDA L : fanout(L, "fanout", "f"))
           \o If("channel", channel) \o If("reap", reap) \o If("primitives", primitives)
           \o (IF on \cap {"secure", "secure-badkey"} # {}
               THEN secure(participants(ready, "secure"), on) ELSE <<>>)
           \o If("typed", typed) \o If("secure-negative", secure_negative))

\* What the plan says it leaves out: a language of a scenario.
notes(ready, filter) ==
  LET Label(s) == IF s = "secure-badkey" THEN "secure" ELSE s
  IN UNION {{<<Label(s), l>> : l \in missing(ready, Mode(s))} : s \in enabled(filter) \ {"conform"}}
     \cup {<<s, Reference>> : s \in {t \in enabled(filter) \cap {"conform"} :
                                       \A h \in Range(ready) : h.name # Reference}}
=============================================================================
