----------------------------- MODULE Coroutines -----------------------------
(***************************************************************************)
(* Calls, protected calls and coroutines of the interpreter.               *)
(*                                                                         *)
(* Guest coroutines run on host coroutines, so every thread has a host     *)
(* call stack, which the host unwinds by itself when an error is raised.   *)
(* Beside it the interpreter keeps registers of its own: the frame stack   *)
(* I.frames, the depth counter I.depth, the message handler I.msgh and     *)
(* I.current_thread.  Only pcall, xpcall, load and resume repair them, and *)
(* this module is about whether they always say what the host stack says.  *)
(* No to-be-closed variable is declared here; CloseVariables has them.    *)
(***************************************************************************)
EXTENDS Naturals, Sequences, FiniteSets, SequencesExt

CONSTANTS Main, Coros,
          MaxCalls,     \* bound on the host activations of all threads
          MaxPair,      \* the same once a second coroutine has been resumed
          MaxDepth,     \* max_depth: a call beyond it is an Error like others
          MaxHeadroom   \* bound on the nested extensions of max_depth

ASSUME CoroutineAssumption ==
    /\ Main \notin Coros /\ IsFiniteSet(Coros)
    /\ MaxCalls \in Nat /\ MaxPair \in Nat /\ MaxDepth \in Nat /\ MaxHeadroom \in Nat

Threads == {Main} \cup Coros
Msgh    == {"default", "cleared", "handler"}
Frame   == {"lua", "native", "ynative"}  \* ynative: a native one may yield across

VARIABLES
    stack,    \* the host activations of each thread, innermost last
    status,   \* the host coroutine's status
    running,  \* the thread the host runs
    frames,   \* th.frames; the main thread's is the initial I.frames
    cf,       \* the thread whose frame stack I.frames is
    depth, thdepth,    \* I.depth, and th.depth of the others
    msgh, thmsgh,      \* I.msgh, and th.msgh of the others
    curth,    \* I.current_thread, Main for nil
    closing,  \* th.closing
    headroom, \* how often max_depth is extended
    slips     \* history: what an incomplete repair has put out of step

host  == <<stack, status, running>>
iregs == <<frames, cf, depth, msgh, curth>>
threg == <<thdepth, thmsgh, closing>>
vars  == <<host, iregs, threg, headroom, slips>>

(* A host activation: a Lua function; a native that calls back; a          *)
(* suspended yield; pcall or xpcall; load; a message handler; resume.      *)
Lua    == [op |-> "lua"]
Native == [op |-> "native"]
Yielded == [op |-> "yield"]

Activation ==
    [op : {"lua", "native", "yield"}]
    \cup [op : {"pcall"}, n : Nat, d : Nat, m : Msgh, h : BOOLEAN]
    \cup [op : {"load"}, n : Nat]
    \cup [op : {"handler"}, for : {"pcall", "load", "piece"}, left : Seq(Frame),
          x : Nat]
    \cup [op : {"resume"}, th : Coros, sf : Threads, d : Nat, m : Msgh,
          sc : Threads]

CoroutineTypeOK ==
    /\ stack \in [Threads -> Seq(Activation)]
    /\ status \in [Coros -> {"new", "suspended", "normal", "running", "dead"}]
    /\ running \in Threads /\ cf \in Threads /\ curth \in Threads
    /\ frames \in [Threads -> Seq(Frame)]
    /\ depth \in Nat /\ thdepth \in [Coros -> Nat]
    /\ msgh \in Msgh /\ thmsgh \in [Coros -> Msgh]
    /\ closing \in [Coros -> BOOLEAN]
    /\ headroom \in Nat
    /\ slips \subseteq {"frames", "depth", "msgh"}

Init ==
    /\ stack = [t \in Threads |-> IF t = Main THEN <<Lua>> ELSE <<>>]
    /\ frames = [t \in Threads |-> IF t = Main THEN <<"lua">> ELSE <<>>]
    /\ status = [c \in Coros |-> "new"]
    /\ running = Main /\ cf = Main /\ curth = Main
    /\ depth = 1 /\ thdepth = [c \in Coros |-> 0]
    /\ msgh = "default" /\ thmsgh = [c \in Coros |-> "cleared"]
    /\ closing = [c \in Coros |-> FALSE]
    /\ headroom = 0 /\ slips = {}

-----------------------------------------------------------------------------
Cut(s, n) == SubSeq(s, 1, IF n < Len(s) THEN n ELSE Len(s))
Pop(s)    == SubSeq(s, 1, Len(s) - 1)     \* t[#t] = nil, also on an empty t

Calls == Len(stack[Main]) + FoldSet(LAMBDA c, sum : sum + Len(stack[c]), 0, Coros)
Used == {c \in Coros : status[c] # "new"}
Bound(used) == IF Cardinality(used) < 2 THEN MaxCalls ELSE MaxPair
Room(n) == n + Calls <= Bound(Used)

(* Guest code runs: the innermost activation is a Lua function's.          *)
Below == stack[running][Len(stack[running]) - 1]
InGuest == Last(stack[running]) = Lua
CalledBy(op) == InGuest /\ Len(stack[running]) > 1 /\ Below.op = op

Enter(acts, fs) ==
    /\ InGuest /\ Room(Len(acts)) /\ depth < MaxDepth
    /\ stack' = [stack EXCEPT ![running] = @ \o acts]
    /\ frames' = [frames EXCEPT ![cf] = @ \o fs]
    /\ depth' = depth + 1
    /\ UNCHANGED <<status, running, cf, curth, threg, headroom, slips>>

(* run_closure, directly and from a native function such as table.sort     *)
Call     == Enter(<<Lua>>, <<"lua">>) /\ UNCHANGED msgh
Callback == Enter(<<Native, Lua>>, <<"native", "lua">>) /\ UNCHANGED msgh

(* Mutant: saved_n leaves out the native's own frame, so that an error      *)
(* takes one frame of the caller with it.                                  *)
PcallCountsLess(h) ==
    /\ Enter(<<[op |-> "pcall", n |-> Len(frames[cf]), d |-> depth,
                m |-> msgh, h |-> h], Lua>>, <<"ynative", "lua">>)
    /\ msgh' = IF h THEN "handler" ELSE "cleared"

(* pcall and xpcall: the native's own frame is counted in saved_n.         *)
Pcall(h) ==
    /\ Enter(<<[op |-> "pcall", n |-> Len(frames[cf]) + 1, d |-> depth,
                m |-> msgh, h |-> h], Lua>>, <<"ynative", "lua">>)
    /\ msgh' = IF h THEN "handler" ELSE "cleared"

(* load with a reader function                                             *)
Load == /\ Enter(<<[op |-> "load", n |-> Len(frames[cf]) + 1], Lua>>,
                 <<"native", "lua">>)
        /\ UNCHANGED msgh

(* Pop k host activations and the same number of frames.                   *)
Leave(k) ==
    /\ stack' = [stack EXCEPT ![running] = SubSeq(@, 1, Len(@) - k)]
    /\ frames' = [frames EXCEPT ![cf] = IF k = 1 THEN Pop(@) ELSE Pop(Pop(@))]
    /\ depth' = depth - 1
    /\ UNCHANGED <<status, running, cf, curth, threg, headroom, slips>>

ReturnToLua    == CalledBy("lua") /\ Leave(1) /\ UNCHANGED msgh
ReturnToNative == CalledBy("native") /\ Leave(2) /\ UNCHANGED msgh

ReturnToPcall  == CalledBy("pcall") /\ Leave(2) /\ msgh' = Below.m
ReaderReturns  == CalledBy("load") /\ Leave(2) /\ UNCHANGED msgh

(* The reader returned something that is no string: a callable I.msgh is   *)
(* called on the message with nothing unwound, any other just returns.     *)
ReaderMisbehaves ==
    /\ CalledBy("load")
    /\ IF msgh # "handler"
       THEN Leave(2)
       ELSE /\ Room(1)
            /\ stack' = [stack EXCEPT ![running] =
                          Front(@) \o <<[op |-> "handler", for |-> "piece",
                                         left |-> <<>>, x |-> headroom], Lua>>]
            /\ UNCHANGED <<status, running, frames, cf, depth, curth, threg,
                           headroom, slips>>
    /\ UNCHANGED msgh

-----------------------------------------------------------------------------
(* Errors.  The host unwinds to the innermost activation that catches; a   *)
(* self-close sentinel passes through pcall, but not through the plain     *)
(* host pcall around a reader or around a message handler.                 *)
Catches(a, exc) == a.op \in {"load", "handler"} \/ (a.op = "pcall" /\ exc = "error")

Catchers(exc) == {i \in DOMAIN stack[running] : Catches(stack[running][i], exc)}

CaughtAt(j, exc, op) ==
    /\ InGuest /\ j \in Catchers(exc)
    /\ \A i \in Catchers(exc) : i <= j
    /\ stack[running][j].op = op

(* coroutine.close marks the thread; if the sentinel is swallowed the mark *)
(* stays.                                                                  *)
Swallow(exc, also) ==
    /\ closing' = IF exc = "selfclose" THEN [closing EXCEPT ![curth] = TRUE]
                                       ELSE closing
    /\ slips' = slips \cup also
    /\ UNCHANGED <<status, running, cf, curth, thdepth, thmsgh>>

(* A pcall that the sentinel passes by on its way to j does not give back  *)
(* the message handler of its caller.                                      *)
PassedBy(j, exc) ==
    {s \in {"msgh"} : exc = "selfclose" /\ \E i \in DOMAIN stack[running] :
                        i > j /\ stack[running][i].op = "pcall"}

(* The message handler runs on top of the frames the error left behind.    *)
StartHandler(j, for) ==
    /\ Room(1) /\ depth < MaxDepth
    /\ stack' = [stack EXCEPT ![running] =
         SubSeq(@, 1, j) \o
         <<[op |-> "handler", for |-> for, x |-> headroom,
            left |-> SubSeq(frames[cf], @[j].n + 1, Len(frames[cf]))], Lua>>]
    /\ frames' = [frames EXCEPT ![cf] = Append(@, "lua")]
    /\ depth' = depth + 1
    /\ UNCHANGED msgh

(* protected's epilogue and the native's return                            *)
EndPcall(j) ==
    LET p == stack[running][j] IN
    /\ stack' = [stack EXCEPT ![running] = SubSeq(@, 1, j - 1)]
    /\ frames' = [frames EXCEPT ![cf] = Pop(Cut(@, p.n))]
    /\ depth' = p.d
    /\ msgh' = p.m

(* Mutant: the reader's frames stay.                                       *)
EndLoadKeeps(j, d) ==
    /\ stack' = [stack EXCEPT ![running] = SubSeq(@, 1, j - 1)]
    /\ frames' = [frames EXCEPT ![cf] = Pop(@)]
    /\ depth' = d
    /\ UNCHANGED msgh

(* load drops the reader's frames and returns nil and a message; the depth *)
(* stays d.                                                                *)
EndLoad(j, d) ==
    /\ stack' = [stack EXCEPT ![running] = SubSeq(@, 1, j - 1)]
    /\ frames' = [frames EXCEPT ![cf] = Pop(Cut(@, stack[running][j].n))]
    /\ depth' = d
    /\ UNCHANGED msgh

CaughtByPcall(exc) ==
    \E j \in Catchers(exc) :
       /\ CaughtAt(j, exc, "pcall")
       /\ IF stack[running][j].h
          THEN /\ headroom < MaxHeadroom
               /\ headroom' = headroom + 1
               /\ StartHandler(j, "pcall")
          ELSE EndPcall(j) /\ UNCHANGED headroom
       /\ Swallow(exc, {})

CaughtByLoad(exc) ==
    \E j \in Catchers(exc) :
       /\ CaughtAt(j, exc, "load")
       /\ IF msgh = "handler" THEN StartHandler(j, "load") ELSE EndLoad(j, depth)
       /\ Swallow(exc, {"depth"} \cup PassedBy(j, exc))
       /\ UNCHANGED headroom

(* A handler's result, or "error in error handling" if it raised: pcall    *)
(* restores everything, load the frames at most.                           *)
HandlerReturns ==
    /\ CalledBy("handler")
    /\ LET j == Len(stack[running]) - 2 IN
       CASE Below.for = "pcall" -> EndPcall(j) /\ headroom' = Below.x
         [] Below.for = "load"  -> EndLoad(j, depth - 1) /\ UNCHANGED headroom
         [] Below.for = "piece" ->
              /\ stack' = [stack EXCEPT ![running] = SubSeq(@, 1, j - 1)]
              /\ frames' = [frames EXCEPT ![cf] = Pop(Pop(@))]
              /\ depth' = depth - 1
              /\ UNCHANGED <<msgh, headroom>>
    /\ UNCHANGED <<status, running, cf, curth, threg, slips>>

CaughtByHandler(exc) ==
    \E j \in Catchers(exc) :
       /\ CaughtAt(j, exc, "handler")
       /\ LET h == stack[running][j] IN
          CASE h.for = "pcall" ->
                 EndPcall(j - 1) /\ headroom' = h.x /\ Swallow(exc, {})
            [] h.for = "load"  ->
                 /\ EndLoad(j - 1, depth) /\ UNCHANGED headroom
                 /\ Swallow(exc, {"depth"} \cup PassedBy(j, exc))
            [] h.for = "piece" ->
                 /\ stack' = [stack EXCEPT ![running] = SubSeq(@, 1, j - 2)]
                 /\ frames' = [frames EXCEPT ![cf] = Pop(@)]
                 /\ Swallow(exc, {"frames", "depth"} \cup PassedBy(j, exc))
                 /\ UNCHANGED <<depth, msgh, headroom>>

-----------------------------------------------------------------------------
(* do_resume, after the host resume: back to the resumer r, whose innermost *)
(* activation holds what was saved, with stack and frames of the resumed    *)
(* thread as given.                                                         *)
Resumer == CHOOSE t \in Threads : /\ stack[t] # <<>> /\ Last(stack[t]).op = "resume"
                                  /\ Last(stack[t]).th = running

(* Mutant: the resumer is taken for the main thread.                       *)
GoBackToMain(newstack, newframes, newstatus) ==
    LET r == Resumer
        a == Last(stack[r]) IN
    /\ stack' = [stack EXCEPT ![r] = Front(@), ![running] = newstack]
    /\ frames' = [frames EXCEPT ![a.sf] = Pop(@), ![running] = newframes]
    /\ status' = [c \in Coros |-> IF c = running THEN newstatus
                                  ELSE IF c = r THEN "running" ELSE status[c]]
    /\ running' = r
    /\ cf' = a.sf /\ depth' = a.d /\ curth' = Main
    /\ UNCHANGED headroom

GoBack(newstack, newframes, newstatus) ==
    LET r == Resumer
        a == Last(stack[r]) IN
    /\ stack' = [stack EXCEPT ![r] = Front(@), ![running] = newstack]
    /\ frames' = [frames EXCEPT ![a.sf] = Pop(@), ![running] = newframes]
    /\ status' = [c \in Coros |-> IF c = running THEN newstatus
                                  ELSE IF c = r THEN "running" ELSE status[c]]
    /\ running' = r
    /\ cf' = a.sf /\ depth' = a.d /\ curth' = a.sc
    /\ UNCHANGED headroom

Saved == Last(stack[Resumer])

(* A first or later resume of a coroutine the host can resume.             *)
Resume(c) ==
    /\ InGuest /\ status[c] \in {"new", "suspended"} /\ Calls < Bound(Used \cup {c})
    /\ stack' = [stack EXCEPT
         ![running] = Append(@, [op |-> "resume", th |-> c, sf |-> cf,
                                 d |-> depth, m |-> msgh, sc |-> curth]),
         ![c] = IF status[c] = "new" THEN <<Lua>> ELSE Front(@)]
    /\ frames' = [frames EXCEPT
         ![cf] = Append(@, "native"),
         ![c] = IF status[c] = "new" THEN <<"lua">> ELSE Pop(@)]
    /\ depth' = thdepth[c] + (IF status[c] = "new" THEN 1 ELSE 0)
    /\ msgh' = thmsgh[c]
    /\ cf' = c /\ curth' = c /\ running' = c
    /\ status' = [x \in Coros |-> IF x = c THEN "running"
                                  ELSE IF x = running THEN "normal" ELSE status[x]]
    /\ UNCHANGED <<threg, headroom, slips>>

(* The host refuses to resume a running, normal or dead coroutine, and     *)
(* do_resume treats that like a failure of its body: it empties th.frames, *)
(* even if the coroutine is alive, and leaves I.msgh as the coroutine's.   *)
ResumeRefused(c) ==
    /\ InGuest /\ status[c] \in {"running", "normal", "dead"}
    /\ frames' = [frames EXCEPT ![c] = <<>>]
    /\ msgh' = thmsgh[c]
    /\ slips' = slips \cup {"msgh"} \cup
                (IF status[c] = "dead" THEN {} ELSE {"frames"})
    /\ UNCHANGED <<host, cf, depth, curth, thdepth, thmsgh, closing, headroom>>

(* is_yieldable_now, as the interpreter's own registers answer it          *)
Yieldable == curth # Main /\ \A i \in DOMAIN frames[cf] : frames[cf][i] # "native"

Yield ==
    /\ InGuest /\ running # Main /\ Yieldable /\ Room(1)
    /\ thdepth' = [thdepth EXCEPT ![running] = depth]
    /\ thmsgh' = [thmsgh EXCEPT ![running] = msgh]
    /\ msgh' = Saved.m
    /\ GoBack(Append(stack[running], Yielded), Append(frames[cf], "native"), "suspended")
    /\ UNCHANGED <<closing, slips>>

BodyReturns ==
    /\ running # Main /\ stack[running] = <<Lua>>
    /\ thdepth' = [thdepth EXCEPT ![running] = depth - 1]
    /\ thmsgh' = [thmsgh EXCEPT ![running] = msgh]
    /\ msgh' = Saved.m
    /\ GoBack(<<>>, Pop(frames[cf]), "dead")
    /\ UNCHANGED <<closing, slips>>

(* No activation of the coroutine catches the error: I.msgh is not given   *)
(* back to the resumer.                                                    *)
BodyFails ==
    /\ InGuest /\ running # Main /\ Catchers("error") = {}
    /\ thdepth' = [thdepth EXCEPT ![running] = depth]
    /\ slips' = slips \cup {"msgh"}
    /\ GoBack(<<>>, <<>>, "dead")
    /\ UNCHANGED <<msgh, thmsgh, closing>>

CanSelfClose == InGuest /\ curth # Main /\ ~closing[curth]

BodyClosesItself ==
    /\ CanSelfClose /\ running # Main /\ Catchers("selfclose") = {}
    /\ thdepth' = [thdepth EXCEPT ![running] = 0]
    /\ closing' = [closing EXCEPT ![running] = FALSE]
    /\ msgh' = Saved.m
    /\ GoBack(<<>>, <<>>, "dead")
    /\ UNCHANGED <<thmsgh, slips>>

(* coroutine.close of a suspended, new or dead coroutine                   *)
Close(c) ==
    /\ InGuest /\ c # curth /\ ~closing[c] /\ status[c] # "normal"
    /\ stack' = [stack EXCEPT ![c] = <<>>]
    /\ frames' = [frames EXCEPT ![c] = <<>>]
    /\ status' = [status EXCEPT ![c] = "dead"]
    /\ UNCHANGED <<running, cf, depth, msgh, curth, thdepth, thmsgh, closing,
                   headroom, slips>>

Error == CaughtByPcall("error") \/ CaughtByLoad("error") \/ CaughtByHandler("error")
SelfClose == CanSelfClose /\ (CaughtByLoad("selfclose") \/ CaughtByHandler("selfclose"))

Next == \/ Call \/ Callback \/ Load \/ \E h \in BOOLEAN : Pcall(h)
        \/ ReturnToLua \/ ReturnToNative \/ ReturnToPcall
        \/ ReaderReturns \/ ReaderMisbehaves \/ HandlerReturns
        \/ Error \/ SelfClose
        \/ \E c \in Coros : Resume(c) \/ ResumeRefused(c) \/ Close(c)
        \/ Yield \/ BodyReturns \/ BodyFails \/ BodyClosesItself

Spec == Init /\ [][Next]_vars

-----------------------------------------------------------------------------
(* The frames an activation stands for; below a handler lie those the      *)
(* error left.                                                             *)
FramesOfActivation(a) ==
    CASE a.op = "lua" -> <<"lua">>
      [] a.op = "pcall" -> <<"ynative">>
      [] a.op = "handler" -> a.left
      [] OTHER -> <<"native">>

FramesOf(s) == FlattenSeq([i \in DOMAIN s |-> FramesOfActivation(s[i])])

(* The frame stack of every thread mirrors its host call stack, through    *)
(* every error, handler, yield, resume and close (pcall, xpcall, load,     *)
(* do_resume).  Excepted: a refused resume emptied a live thread's stack,  *)
(* or load called a handler on a bad piece and the handler failed.         *)
FramesMatch ==
    "frames" \notin slips => \A t \in Threads : frames[t] = FramesOf(stack[t])

Count(s, x)  == Cardinality({i \in DOMAIN s : s[i] = x})
LuaFrames(f) == Count(f, "lua")

(* The depth that guards against stack overflow counts the Lua frames, in  *)
(* the running thread and in those that will run again.  Excepted: load    *)
(* caught its reader's error.                                              *)
DepthMatch ==
    slips \cap {"frames", "depth"} = {} =>
       /\ depth = LuaFrames(frames[running])
       /\ \A c \in Coros : status[c] = "suspended" => thdepth[c] = LuaFrames(frames[c])

(* The message handler of a thread is the one of its innermost pcall or    *)
(* xpcall, and without one it is the thread's own default.                 *)
Innermost(s, i) == /\ i \in DOMAIN s /\ s[i].op = "pcall"
                   /\ \A j \in DOMAIN s : j > i => s[j].op # "pcall"
HandlerIn(t, s) ==
    CASE \E i \in DOMAIN s : Innermost(s, i) /\ s[i].h  -> "handler"
      [] \E i \in DOMAIN s : Innermost(s, i) /\ ~s[i].h -> "cleared"
      [] OTHER -> IF t = Main THEN "default" ELSE "cleared"
HandlerOf(t) == HandlerIn(t, stack[t])

(* Excepted: a resume failed or was refused, or a self-close passed a      *)
(* pcall by and was then swallowed.                                        *)
MsghMatch ==
    "msgh" \notin slips =>
       /\ msgh = HandlerOf(running)
       /\ \A c \in Coros : status[c] = "suspended" => thmsgh[c] = HandlerOf(c)

(* What the interpreter takes for the running coroutine is the one that    *)
(* the host runs, and its frame stack is the current one.                  *)
CurrentMatches == curth = running /\ cf = running

(* The four together: what the interpreter keeps of the calls under way is *)
(* what the host stack says (run_closure, protected, do_resume, load).     *)
StateMatches == /\ CoroutineTypeOK
                /\ FramesMatch
                /\ DepthMatch
                /\ MsghMatch
                /\ CurrentMatches

(* No coroutine is left suspended inside a native that cannot be yielded   *)
(* across - a comparator, a reader of load, a resume of its own: that call *)
(* would never see its end.  coroutine.yield asks the frames, so they must *)
(* be right after any errors, handlers, resumes and closes (pcall, load,   *)
(* do_resume, is_yieldable_now).                                           *)
NoYieldAcrossNative ==
    "frames" \notin slips =>
       \A c \in Coros : status[c] = "suspended" =>
          \A i \in DOMAIN stack[c] : stack[c][i].op \notin {"native", "load", "resume"}

-----------------------------------------------------------------------------
(* What the interpreter itself can tell of the coroutines - I.current_thread *)
(* and the saved_cur of the pending resumes - is the chain of CoroutineChain. *)
SavedCur(c) ==
    (CHOOSE a \in {Last(stack[t]) : t \in {x \in Threads : stack[x] # <<>>}} :
        a.op = "resume" /\ a.th = c).sc

ChainTo[n \in 0..Cardinality(Coros)] ==
    IF n = 0 THEN <<curth>>
    ELSE LET s == ChainTo[n - 1] IN
         IF s[1] = Main THEN s ELSE <<SavedCur(s[1])>> \o s

Library == INSTANCE CoroutineChain WITH
    chain <- ChainTo[Cardinality(Coros)],
    left  <- [c \in Coros |-> IF status[c] \in {"running", "normal"}
                              THEN "suspended" ELSE status[c]]

ImplementsChain == Library!Spec

=============================================================================
