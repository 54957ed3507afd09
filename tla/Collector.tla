----------------------------- MODULE Collector ------------------------------
(***************************************************************************)
(* The collector of lua55vm/gc.lua, and a program that allocates, links    *)
(* and drops objects on several threads.  The host owns the memory; what   *)
(* the collector decides is which entries of weak tables disappear and     *)
(* which finalizers run.  Marking and sweeping is one step, for nothing    *)
(* else runs meanwhile; finalizers run one by one, as guest code that does *)
(* whatever a program can do.                                              *)
(***************************************************************************)
EXTENDS Integers, Sequences, FiniteSets, SequencesExt

CONSTANTS Main, Plain, Coros,  \* the main thread, tables, coroutines
          MaxLinks             \* bound on the references a program holds

ASSUME CollectorAssumption ==
    /\ Main \notin Coros /\ Plain \cap Coros = {}
    /\ IsFiniteSet(Plain) /\ IsFiniteSet(Coros)
    /\ MaxLinks \in Nat

Objs    == Plain \cup Coros
Threads == {Main} \cup Coros

VARIABLES
    made,        \* the objects created so far
    refs,        \* refs[o] is what table o refers to
    globals,     \* what the globals refer to
    weak,        \* the values of a weak table the globals refer to
    held,        \* held[t] is what the registers of t's frames refer to;
                 \* for a coroutine that has not started, what its function does
    status,      \* of each coroutine
    chain,       \* the threads from Main to the running one
    objects,     \* gc.objects, in order of creation
    finalizable, \* gc.finalizable, in the order of the setmetatable calls
    pending,     \* the finalizers this collection still has to run
    in_gc,       \* gc.in_gc: "no", or how the collection was started
    gcth,        \* the thread that runs it
    owed         \* history: how often o was marked for a finalizer, less how
                 \* often its finalizer was called

heap == <<made, refs, globals, weak, held>>
gc   == <<objects, finalizable, pending, in_gc, gcth, owed>>
vars == <<heap, status, chain, gc>>

CollectorTypeOK ==
    /\ made \subseteq Objs
    /\ refs \in [Plain -> SUBSET Objs]
    /\ globals \subseteq Objs /\ weak \subseteq Objs
    /\ held \in [Threads -> SUBSET Objs]
    /\ status \in [Coros -> {"new", "suspended", "active", "dead"}]
    /\ chain \in Seq(Threads)
    /\ objects \in Seq(Objs) /\ finalizable \in Seq(Plain)
    /\ pending \in Seq(Plain) /\ in_gc \in {"no", "call", "auto"}
    /\ gcth \in Threads /\ owed \in [Plain -> Int]

Init ==
    /\ made = {} /\ refs = [o \in Plain |-> {}]
    /\ globals = {} /\ weak = {} /\ held = [t \in Threads |-> {}]
    /\ status = [c \in Coros |-> "new"] /\ chain = <<Main>>
    /\ objects = <<>> /\ finalizable = <<>> /\ pending = <<>>
    /\ in_gc = "no" /\ gcth = Main /\ owed = [o \in Plain |-> 0]

running == Last(chain)
Local   == held[running]

-----------------------------------------------------------------------------
(* Reach(roots, next) is what next leads to from the roots.                *)
Reach(roots, next) ==
    LET step[n \in Nat] == IF n = 0 THEN roots
                           ELSE LET p == step[n - 1]
                                IN  p \cup UNION {next[o] : o \in p}
    IN  step[Cardinality(Objs)]

(* What a program can still get at.                                        *)
Refers == [o \in Objs |-> IF o \in Plain THEN refs[o] ELSE held[o]]
Live == Reach(globals \cup ToSet(Tail(chain)) \cup
              UNION {held[t] : t \in ToSet(chain)}, Refers)

(* Mutant: a coroutine's frames are not traced.                            *)
MarksTablesOnly == [o \in Objs |-> IF o \in Plain THEN refs[o] ELSE {}]

(* gc_mark: the frames of a coroutine are on the thread object, but not    *)
(* the function of one that has not started.                               *)
Marks == [o \in Objs |-> IF o \in Plain THEN refs[o]
                          ELSE IF status[o] = "new" THEN {} ELSE held[o]]

(* Mutant: the collector's own list is a root.                             *)
MarkedWithList ==
    Reach(globals \cup (IF running = Main THEN {} ELSE {running}) \cup Local
          \cup ToSet(objects), Marks)

(* The roots: globals, the current thread and the frames it runs on.       *)
Marked == Reach(globals \cup (IF running = Main THEN {} ELSE {running}) \cup Local,
                Marks)

-----------------------------------------------------------------------------
(* The program.  A thread works with what its registers refer to.          *)
SetLocal(S) == held' = [held EXCEPT ![running] = S]

Links == Cardinality(globals) + Cardinality(weak)
         + FoldSet(LAMBDA o, n : n + Cardinality(refs[o]), 0, Plain)
         + FoldSet(LAMBDA t, n : n + Cardinality(held[t]), 0, Threads)
Room  == Links < MaxLinks

Track(o) == objects' = Append(objects, o)

New(o) ==
    /\ Room /\ o \in Plain \ made
    /\ made' = made \cup {o} /\ Track(o) /\ SetLocal(Local \cup {o})
    /\ UNCHANGED <<refs, globals, weak, status, chain, finalizable, pending, in_gc,
                   gcth, owed>>

(* coroutine.create(f), where f has at most one upvalue                    *)
Create(c, S) ==
    /\ Room /\ c \in Coros \ made /\ S \subseteq Local /\ Cardinality(S) <= 1
    /\ made' = made \cup {c} /\ Track(c)
    /\ held' = [held EXCEPT ![running] = @ \cup {c}, ![c] = S]
    /\ UNCHANGED <<refs, globals, weak, status, chain, finalizable, pending, in_gc,
                   gcth, owed>>

Store(o, p) ==
    /\ Room /\ o \in Local \cap Plain /\ p \in Local \ refs[o]
    /\ refs' = [refs EXCEPT ![o] = @ \cup {p}]
    /\ UNCHANGED <<made, globals, weak, held, status, chain, gc>>

Erase(o, p) ==
    /\ o \in Local \cap Plain /\ p \in refs[o]
    /\ refs' = [refs EXCEPT ![o] = @ \ {p}]
    /\ UNCHANGED <<made, globals, weak, held, status, chain, gc>>

(* Read a field, a global or a weak entry into a register; or drop one.    *)
Fetch(p) ==
    /\ Room /\ p \in (globals \cup weak \cup UNION {refs[o] : o \in Local \cap Plain}) \ Local
    /\ SetLocal(Local \cup {p})
    /\ UNCHANGED <<made, refs, globals, weak, status, chain, gc>>

Drop(p) ==
    /\ p \in Local /\ SetLocal(Local \ {p})
    /\ UNCHANGED <<made, refs, globals, weak, status, chain, gc>>

SetGlobal(p) ==
    /\ Room /\ p \in Local \ globals /\ globals' = globals \cup {p}
    /\ UNCHANGED <<made, refs, weak, held, status, chain, gc>>

UnsetGlobal(p) ==
    /\ p \in globals /\ globals' = globals \ {p}
    /\ UNCHANGED <<made, refs, weak, held, status, chain, gc>>

SetWeak(p) ==
    /\ Room /\ p \in (Local \cap Plain) \ weak /\ weak' = weak \cup {p}
    /\ UNCHANGED <<made, refs, globals, held, status, chain, gc>>

(* setmetatable with a __gc, gc_check_finalizer                            *)
SetFinalizer(o) ==
    /\ o \in (Local \cap Plain) \ ToSet(finalizable)
    /\ finalizable' = Append(finalizable, o)
    /\ owed' = [owed EXCEPT ![o] = @ + 1]
    /\ UNCHANGED <<heap, status, chain, objects, pending, in_gc, gcth>>

Resume(c) ==
    /\ c \in Local \cap Coros /\ status[c] \in {"new", "suspended"}
    /\ status' = [status EXCEPT ![c] = "active"]
    /\ chain' = Append(chain, c)
    /\ UNCHANGED <<heap, gc>>

Switch(s) ==
    /\ running # Main
    /\ status' = [status EXCEPT ![running] = s]
    /\ chain' = Front(chain)

(* There is a native frame to stop a finalizer's yield only if the program *)
(* called collectgarbage.                                                  *)
Yield ==
    /\ Switch("suspended") /\ ~(in_gc = "call" /\ gcth = running)
    /\ UNCHANGED <<heap, gc>>

Finish ==
    /\ Switch("dead") /\ ~(in_gc # "no" /\ gcth = running)
    /\ SetLocal({})
    /\ UNCHANGED <<made, refs, globals, weak, gc>>

-----------------------------------------------------------------------------
(* The sweep goes through a list and keeps what is in S, in order.         *)
Sift(s, S) ==
    LET kept[n \in 0..Len(s)] ==
          IF n = 0 THEN <<>>
          ELSE IF s[n] \in S THEN Append(kept[n - 1], s[n]) ELSE kept[n - 1]
    IN  kept[Len(s)]

(* Mutant: an object stays in gc.finalizable when it is taken.             *)
CollectKeepsFinalizable(how) ==
    /\ in_gc = "no" /\ in_gc' = how /\ gcth' = running
    /\ weak' = weak \cap Marked
    /\ objects' = Sift(objects, Marked)
    /\ pending' = Reverse(Sift(objects, ToSet(finalizable) \ Marked))
    /\ UNCHANGED <<made, refs, globals, held, status, chain, owed, finalizable>>

(* gc_collect.  A new epoch's marks; the weak entries without a mark go    *)
(* (gc_clear_weak); the sweep keeps the marked objects and takes the       *)
(* others' finalizers, which run in the opposite order.                    *)
Collect(how) ==
    /\ in_gc = "no" /\ in_gc' = how /\ gcth' = running
    /\ LET m == Marked IN
       /\ weak' = weak \cap m
       /\ objects' = Sift(objects, m)
       /\ pending' = Reverse(Sift(objects, ToSet(finalizable) \ m))
       /\ finalizable' = Sift(finalizable, Plain \ ToSet(pending'))
    /\ UNCHANGED <<made, refs, globals, held, status, chain, owed>>

(* The next finalizer is called with the object; gc.objects no longer has  *)
(* it, whatever the finalizer does with it.                                *)
Finalize ==
    /\ in_gc # "no" /\ gcth = running /\ pending # <<>>
    /\ SetLocal(Local \cup {Head(pending)})
    /\ pending' = Tail(pending)
    /\ owed' = [owed EXCEPT ![Head(pending)] = @ - 1]
    /\ UNCHANGED <<made, refs, globals, weak, status, chain, objects, finalizable,
                   in_gc, gcth>>

EndCollection ==
    /\ in_gc # "no" /\ gcth = running /\ pending = <<>>
    /\ in_gc' = "no" /\ gcth' = Main
    /\ UNCHANGED <<heap, status, chain, objects, finalizable, pending, owed>>

Next == \/ \E o \in Plain : New(o) \/ SetFinalizer(o)
        \/ \E c \in Coros, S \in SUBSET Objs : Create(c, S)
        \/ \E o \in Plain, p \in Objs : Store(o, p) \/ Erase(o, p)
        \/ \E p \in Objs : Fetch(p) \/ Drop(p) \/ SetGlobal(p) \/ UnsetGlobal(p)
                           \/ SetWeak(p)
        \/ \E c \in Coros : Resume(c)
        \/ Yield \/ Finish
        \/ \E how \in {"call", "auto"} : Collect(how)
        \/ Finalize \/ EndCollection

Spec == Init /\ [][Next]_vars

-----------------------------------------------------------------------------
Starts == in_gc = "no" /\ in_gc' # "no"

TakesOnlyGarbage == (weak \ weak') \cap Live = {} /\ ToSet(pending') \cap Live = {}

(* A collection on the main thread clears no weak entry and finalizes no   *)
(* object that the program can still reach, through any chain of tables    *)
(* and suspended coroutines, provided every coroutine has started.         *)
MainTakesOnlyGarbage ==
    [][Starts /\ running = Main /\ (\A c \in made \cap Coros : status[c] # "new")
          => TakesOnlyGarbage]_vars

(* A collection leaves nothing behind: no weak entry outlives its value,   *)
(* and every tracked object that is unreachable and has a finalizer is     *)
(* finalized in this cycle.                                                *)
TakesAllGarbage ==
    [][Starts => /\ weak' \subseteq Live
                 /\ (ToSet(objects) \cap ToSet(finalizable)) \ Live
                       \subseteq ToSet(pending')]_vars

(* A finalizer is called once for each time an object was marked for it:   *)
(* what is owed is either still to be found by a collection or pending in  *)
(* the one that runs, however finalizers resurrect their objects and mark  *)
(* them, or others that wait, again.                                       *)
Times(o, s) == Cardinality({i \in DOMAIN s : s[i] = o})
FinalizedOnce ==
    CollectorTypeOK /\ \A o \in Plain : owed[o] = Times(o, finalizable) + Times(o, pending)

=============================================================================
