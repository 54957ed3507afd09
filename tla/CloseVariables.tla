--------------------------- MODULE CloseVariables ---------------------------
(***************************************************************************)
(* To-be-closed variables and errors on one thread of the interpreter:     *)
(* close_upvals and protected in vm.lua, and the instructions that declare *)
(* and close variables.  An error unwinds the host stack by itself; the    *)
(* frames it passed stay on I.frames, with the variables they still have   *)
(* to close, until whoever caught the error deals with them.               *)
(* Message handlers and coroutines are in Coroutines.  An error that no    *)
(* protected call will catch ends the program and is not raised here.      *)
(***************************************************************************)
EXTENDS Naturals, Sequences, FiniteSets, SequencesExt

CONSTANTS Vars, Errs, None,
          MaxDepth   \* bound on the depth at which functions call and declare

ASSUME CloseAssumption == MaxDepth \in Nat \ {0} /\ None \notin Errs

Id == 1..(MaxDepth + 1)  \* frames, named anew when nothing refers to them

VARIABLES host,    \* the host activations, innermost last
          frames,  \* I.frames, the Lua ones
          tbc,     \* frame.tbc of each frame, in order of declaration
          depth,   \* I.depth
          got      \* the error the last protected call returned

vars == <<host, frames, tbc, depth, got>>

(* exec_loop on a frame; protected; close_upvals on a frame, keeping its   *)
(* first variables.                                                        *)
Lua(f) == [op |-> "lua", f |-> f]
Pcall  == [op |-> "pcall", n |-> Len(frames), d |-> depth, ph |-> "body", err |-> None]
CloseOf(f, keep, how, e, n) ==
    [op |-> "close", f |-> f, keep |-> keep, how |-> how, e |-> e, n |-> n,
     d |-> depth, ph |-> "next", err |-> None, j |-> 0]

CloseTypeOK ==
    /\ \A i \in DOMAIN host :
         LET a == host[i] IN
         \/ a.op = "lua" /\ a.f \in Id
         \/ /\ a.op = "pcall" /\ a.n \in Nat /\ a.d \in Nat
            /\ \/ a.ph = "body" /\ a.err = None
               \/ a.ph = "unwind" /\ a.err \in Errs
         \/ /\ a.op = "close" /\ a.f \in Id /\ a.keep \in Nat
            /\ a.how \in {"block", "return", "error"} /\ a.e \in Errs \cup {None}
            /\ a.n \in Nat /\ a.d \in Nat /\ a.j \in Nat
            /\ \/ a.ph \in {"next", "body"} /\ a.err = None
               \/ a.ph = "left" /\ a.err \in Errs
    /\ frames \in Seq(Id) /\ tbc \in [Id -> Seq(Vars)]
    /\ depth \in Nat /\ got \in Errs \cup {None}

Init == /\ host = <<Lua(1)>> /\ frames = <<1>> /\ depth = 1
        /\ tbc = [f \in Id |-> <<>>] /\ got = None

-----------------------------------------------------------------------------
Top      == Last(host)
Frame    == Top.f
InGuest  == Top.op = "lua"
InUse    == ToSet(frames) \cup {host[i].f : i \in {x \in DOMAIN host : host[x].op # "pcall"}}
Fresh(f) == f \in Id \ InUse /\ \A g \in Id \ InUse : f <= g
InPcall  == \E i \in DOMAIN host : host[i].op = "pcall"
WithTop(a) == [host EXCEPT ![Len(host)] = a]

Call == \E f \in Id :
          /\ InGuest /\ depth < MaxDepth /\ Fresh(f)
          /\ \/ host' = Append(host, Lua(f))
             \/ host' = host \o <<Pcall, Lua(f)>>
          /\ frames' = Append(frames, f) /\ depth' = depth + 1
          /\ tbc' = [tbc EXCEPT ![f] = <<>>]
          /\ UNCHANGED got

(* TBC: a local variable with the attribute close, its value not nil       *)
Declare(v) ==
    /\ InGuest /\ depth < MaxDepth /\ \A f \in InUse : v \notin ToSet(tbc[f])
    /\ tbc' = [tbc EXCEPT ![Frame] = Append(@, v)]
    /\ UNCHANGED <<host, frames, depth, got>>

(* CLOSE at the end of a block, TAILCALL, which keeps the frame, or RETURN *)
Exit(keep, how) ==
    /\ InGuest /\ keep <= Len(tbc[Frame])
    /\ how = "return" => keep = 0 /\ Len(host) > 1
    /\ host' = Append(host, CloseOf(Frame, keep, how, None, Len(frames)))
    /\ UNCHANGED <<frames, tbc, depth, got>>

Catching(a) == a.op \in {"pcall", "close"} /\ a.ph = "body"

(* The host unwinds to the innermost activation that called something      *)
(* under its pcall: a protected call, or close_upvals calling a handler.   *)
Throw(e, upto) ==
    \E i \in 1..upto :
      /\ Catching(host[i]) /\ \A j \in (i + 1)..upto : ~Catching(host[j])
      /\ host' = Append(SubSeq(host, 1, i - 1),
                        IF host[i].op = "pcall"
                        THEN [host[i] EXCEPT !.ph = "unwind", !.err = e]
                        ELSE [host[i] EXCEPT !.ph = "left", !.err = e,
                                             !.j = Len(frames)])

Raise(e) ==
    /\ InGuest /\ InPcall
    /\ Throw(e, Len(host))
    /\ UNCHANGED <<frames, tbc, depth, got>>

-----------------------------------------------------------------------------
(* close_upvals.                                                           *)
InClose(ph) == Top.op = "close" /\ Top.ph = ph

(* The frames an earlier failed handler left are dropped first.            *)
CallHandler(g) ==
    /\ frames' = Append(SubSeq(frames, 1, Top.n), g)
    /\ depth' = Top.d + 1

CloseNext == \E g \in Id :
    /\ InClose("next") /\ Len(tbc[Frame]) > Top.keep
    /\ Fresh(g)
    /\ CallHandler(g)
    /\ tbc' = [tbc EXCEPT ![Frame] = Front(@), ![g] = <<>>]
    /\ host' = Append(WithTop([Top EXCEPT !.ph = "body"]), Lua(g))
    /\ UNCHANGED got

(* The value's metatable has lost its __close: that is an error, too.      *)
NoHandler(e) ==
    /\ InClose("next") /\ Len(tbc[Frame]) > Top.keep /\ InPcall
    /\ tbc' = [tbc EXCEPT ![Frame] = Front(@)]
    /\ host' = WithTop([Top EXCEPT !.e = e])
    /\ UNCHANGED <<frames, depth, got>>

(* Mutant: the variables of a failed handler are forgotten.                *)
LeftNextSkips ==
    /\ InClose("left") /\ Top.j > Top.n
    /\ host' = WithTop([Top EXCEPT !.j = @ - 1])
    /\ UNCHANGED <<frames, tbc, depth, got>>

(* A handler failed: close the variables of the frames it left, from the   *)
(* innermost out.                                                          *)
LeftNext ==
    /\ InClose("left") /\ Top.j > Top.n
    /\ LET f == frames[Top.j]
           rest == WithTop([Top EXCEPT !.j = @ - 1]) IN
       host' = IF tbc[f] = <<>> THEN rest
               ELSE Append(rest, CloseOf(f, 0, "error", Top.err, Len(frames)))
    /\ UNCHANGED <<frames, tbc, depth, got>>

(* Mutant: the error that was under way is kept, not the handler's.        *)
LeftDoneKeeps ==
    /\ InClose("left") /\ Top.j <= Top.n
    /\ host' = WithTop([Top EXCEPT !.ph = "next", !.err = None])
    /\ UNCHANGED <<frames, tbc, depth, got>>

(* ... and its error becomes the pending one.                              *)
LeftDone ==
    /\ InClose("left") /\ Top.j <= Top.n
    /\ host' = WithTop([Top EXCEPT !.ph = "next", !.e = Top.err, !.err = None])
    /\ UNCHANGED <<frames, tbc, depth, got>>

Below   == Front(host)
Closed  == InClose("next") /\ Len(tbc[Frame]) <= Top.keep

BlockDone ==
    /\ Closed /\ Top.how = "block" /\ Top.e = None
    /\ host' = Below
    /\ UNCHANGED <<frames, tbc, depth, got>>

(* RETURN: the function's frame goes, and its caller continues.            *)
ReturnDone ==
    /\ Closed /\ Top.how = "return" /\ Top.e = None
    /\ LET callers == Front(Below)
           c == Last(callers) IN
       host' = CASE c.op = "lua"   -> callers
                 [] c.op = "pcall" -> Front(callers)
                 [] c.op = "close" -> Append(Front(callers), [c EXCEPT !.ph = "next"])
    /\ frames' = Front(frames) /\ depth' = depth - 1
    /\ UNCHANGED <<tbc, got>>

(* The instruction raises the error its handlers ended with.               *)
ExitFails ==
    /\ Closed /\ Top.how \in {"block", "return"} /\ Top.e # None
    /\ Throw(Top.e, Len(Below))
    /\ UNCHANGED <<frames, tbc, depth, got>>

(* Back in the unwinding of protected, or of a failed handler.             *)
ErrorDone ==
    /\ Closed /\ Top.how = "error"
    /\ host' = Append(Front(Below), [Last(Below) EXCEPT !.err = Top.e])
    /\ UNCHANGED <<frames, tbc, depth, got>>

(* protected: pop the frames the error left, closing their variables.      *)
InUnwind == Top.op = "pcall" /\ Top.ph = "unwind"

Unwind ==
    /\ InUnwind /\ Len(frames) > Top.n
    /\ frames' = Front(frames)
    /\ host' = IF tbc[Last(frames)] = <<>> THEN host
               ELSE Append(host, CloseOf(Last(frames), 0, "error", Top.err,
                                         Len(frames) - 1))
    /\ UNCHANGED <<tbc, depth, got>>

Deliver ==
    /\ InUnwind /\ Len(frames) <= Top.n
    /\ host' = Below
    /\ depth' = Top.d /\ got' = Top.err
    /\ UNCHANGED <<frames, tbc>>

Next == \/ Call
        \/ \E v \in Vars : Declare(v)
        \/ \E keep \in 0..Cardinality(Vars), how \in {"block", "return"} : Exit(keep, how)
        \/ \E e \in Errs : Raise(e) \/ NoHandler(e)
        \/ CloseNext \/ LeftNext \/ LeftDone
        \/ BlockDone \/ ReturnDone \/ ExitFails \/ ErrorDone
        \/ Unwind \/ Deliver

Spec == Init /\ [][Next]_vars

-----------------------------------------------------------------------------
(* A frame that nothing refers to any more has no variable left to close:  *)
(* however handlers fail, nest and leave frames behind (close_upvals and   *)
(* protected), none is forgotten.                                          *)
NoneForgotten == \A f \in Id \ InUse : tbc[f] = <<>>

(* A handler runs directly above the frames of the scope that is left,     *)
(* not above those of a handler that failed before it (vm.lua:115-118).    *)
HandlerAboveScope ==
    \A i \in DOMAIN host :
       host[i].op = "close" /\ host[i].ph = "body" =>
          /\ frames[host[i].n + 1] = host[i + 1].f
          /\ host[i].how # "error" => frames[host[i].n] = host[i].f

(* The depth counts the frames, but for those an unwinding has dropped.    *)
DepthMatch ==
    /\ depth >= Len(frames)
    /\ InGuest /\ (\A i \in DOMAIN host : host[i].op = "pcall" => host[i].ph = "body")
          => depth = Len(frames)

(* The three together (close_upvals, protected): what is unwound leaves    *)
(* behind no variable, no misplaced handler and no depth of its own.       *)
LeavesNothing == CloseTypeOK /\ NoneForgotten /\ HandlerAboveScope /\ DepthMatch

-----------------------------------------------------------------------------
(* The interpreter does what Unwinding promises.  Below a handler that     *)
(* runs with an error under way, and below an unwinding, the host's stack  *)
(* or I.frames may still show functions; what counts are their variables.  *)
A == INSTANCE Unwinding WITH todo <- <<>>, mode <- [m |-> "run"]

VarsOf(f) == [i \in DOMAIN tbc[f] |-> A!Var(tbc[f][i])]
Pending(i, j) == \* the variables of the frames above i, up to j
    LET upto[k \in 0..j] ==
          IF k <= i THEN <<>> ELSE upto[k - 1] \o VarsOf(frames[k])
    IN  upto[j]

(* Todo[p] is what the first p host activations still have to do, and Work *)
(* adds to that what one more has to, with the frames up to the number     *)
(* given; ModeOf is how a close_upvals goes on.                            *)
ModeOf(a, below) ==
    IF a.e # None THEN A!Raise(a.e)
    ELSE A!Leave(IF a.how = "return" THEN Len(below) - Len(tbc[a.f]) - 1
                 ELSE Len(below) - Len(tbc[a.f]) + a.keep)

Base(a, below) ==
    LET all == IF a.how = "error" THEN below \o VarsOf(a.f) ELSE below
    IN  IF a.e # None THEN A!Abandon(all) ELSE all

Work(a, below, n) ==
    CASE a.op = "lua" -> Append(below, A!Fn) \o VarsOf(a.f)
      [] a.op = "pcall" /\ a.ph = "body" -> Append(below, A!Protected)
      [] a.op = "pcall" /\ a.ph = "unwind" ->
           Append(below, A!Protected) \o Pending(a.n, n)
      [] a.op = "close" /\ a.ph = "next" -> Base(a, below)
      [] a.op = "close" /\ a.ph = "body" ->
           Append(Base(a, below), A!Handler(ModeOf(a, below)))
      [] a.op = "close" /\ a.ph = "left" ->
           Append(Base(a, below), A!Handler(ModeOf(a, below))) \o Pending(a.n, a.j)

Todo[p \in 0..Len(host)] ==
    IF p = 0 THEN <<>>
    ELSE Work(host[p], Todo[p - 1],
              IF p = Len(host) THEN Len(frames) ELSE host[p + 1].n)

Lang == INSTANCE Unwinding WITH
    todo <- Todo[Len(host)],
    mode <- IF InGuest THEN A!Run
            ELSE IF Top.op = "close" /\ Top.ph = "next"
                 THEN ModeOf(Top, Todo[Len(host) - 1])
            ELSE A!Raise(Top.err)

ImplementsUnwinding == Lang!Spec
=============================================================================
