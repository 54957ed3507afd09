------------------------------ MODULE Machine ------------------------------
(***************************************************************************)
(* The instruction loop of vm.lua (exec_loop, run_closure, close_upvals)   *)
(* running what a compiler makes of a source program, one instruction to a *)
(* step.                                                                   *)
(*                                                                         *)
(* What a program outputs is compared with what its source means, whatever *)
(* registers, jumps and upvalues the compiler and the loop use.            *)
(***************************************************************************)
EXTENDS Values

CONSTANTS
    Programs,  \* the source programs, a sequence of blocks
    Compiled(_),  \* the proto of a block, its error, and its slips (Compiler)
    Meant(_),  \* how the block ends and what it outputs (Meaning)
    MaxReg     \* registers are 0..MaxReg

ASSUME MachineAssumption ==
    /\ \A n \in DOMAIN Programs : Len(Programs[n]) >= 0
    /\ MaxReg \in Nat

VARIABLES
    prog,      \* which program runs, the slips of the compiler on it, how it
               \* ends and what it outputs by its meaning: fixed at the start
    frames,    \* I.frames
    uvs,       \* upvalue boxes, open or closed
    closures,  \* guest closures: a proto and upvalues
    tables,    \* guest tables
    log,       \* what the program has output
    status     \* "run", "done", "error" or "rejected"

vars == <<prog, frames, uvs, closures, tables, log, status>>
heap == <<uvs, closures, tables>>

F == Last(frames)
P(f) == closures[f.cl].proto
I == P(F).code[F.pc]
A == F.R[I.a]

Regs == 0..MaxReg
NoRegs == [r \in {} |-> 0]
NewFrame(cl, p, args) ==
        [cl |-> cl, pc |-> 1, openuv |-> NoRegs, tbc |-> <<>>,
         loops |-> NoRegs, top |-> p.numparams,
         R |-> [r \in Regs |-> IF r < p.numparams THEN Arg(args, r + 1)
                               ELSE NilV],
         varargs |-> IF p.vararg
                     THEN SubSeq(args, p.numparams + 1, Len(args)) ELSE <<>>]

Start(i, compiled, meaning) ==
    /\ prog = [n |-> i, slips |-> compiled.slips, ends |-> meaning.ends,
               log |-> meaning.log]
    /\ uvs = <<[open |-> FALSE, frame |-> 0, idx |-> 0, val |-> <<"table", 1>>]>>
    /\ closures = <<[proto |-> compiled.proto, upvals |-> <<1>>]>>
    /\ tables = <<Globals>>
    /\ log = <<>>
    /\ status = IF compiled.err = "" THEN "run" ELSE "rejected"
    /\ frames = IF compiled.err = "" THEN <<NewFrame(1, compiled.proto, <<>>)>>
                ELSE <<>>

Init ==
    \E i \in DOMAIN Programs :
        LET body == Block(Programs[i])
        IN  Start(i, Compiled(body), Meant(body))

(***************************************************************************)
(* Steps of the running frame.                                             *)
(***************************************************************************)
OnAny(ops) == status = "run" /\ I.op \in ops
On(op) == OnAny({op})

Next1 == [F EXCEPT !.pc = @ + 1]
To(pc) == [F EXCEPT !.pc = pc]
Go(f) == frames' = Append(Front(frames), f) /\ UNCHANGED <<prog, status>>
Write(r, v) == Go([Next1 EXCEPT !.R[r] = v])
(* vals into r and up, want of them, nil beyond the last.                  *)
Spread(R, r, vals, want) ==
    [q \in Regs |-> IF q \in r..(r + want - 1) THEN Arg(vals, q - r + 1) ELSE R[q]]
Slice(R, r, count) == [i \in 1..count |-> R[r + i - 1]]

Uv(i) == closures[F.cl].upvals[i]
UvGet(i) == LET u == uvs[Uv(i)]
            IN  IF u.open THEN frames[u.frame].R[u.idx] ELSE u.val

(* close_upvals: the handlers of what is to be closed from level up, last  *)
(* first, then the upvalues.                                               *)
ToClose(f, level) == SelectSeq(f.tbc, LAMBDA r : r >= level)
CloseLog(f, level) ==
    LET regs == Reverse(ToClose(f, level))
    IN  FlattenSeq([i \in DOMAIN regs |-> CloseOutput(f.R[regs[i]])])
Closed(f, level) ==
    [f EXCEPT !.tbc = SelectSeq(@, LAMBDA r : r < level),
              !.openuv = [r \in {q \in DOMAIN @ : q < level} |-> @[r]]]
ClosedUvs(f, level) ==
    [u \in DOMAIN uvs |->
        IF \E r \in DOMAIN f.openuv : r >= level /\ f.openuv[r] = u
        THEN [open |-> FALSE, frame |-> 0, idx |-> 0, val |-> f.R[uvs[u].idx]]
        ELSE uvs[u]]

(***************************************************************************)
(* Data.                                                                   *)
(***************************************************************************)
Load ==
    /\ \/ On("MOVE") /\ Write(I.a, F.R[I.b])
       \/ On("LOADK") /\ Write(I.a, I.b)
       \/ On("LOADBOOL") /\ Write(I.a, Bln(I.b = 1))
       \/ On("LOADNIL")
          /\ Go([Next1 EXCEPT !.R = Spread(@, I.a, <<>>, I.b - I.a + 1)])
       \/ On("GETUPVAL") /\ Write(I.a, UvGet(I.b))
    /\ UNCHANGED <<heap, log>>

SetUpval ==
    LET u == uvs[Uv(I.b)]
    IN  /\ On("SETUPVAL")
        /\ uvs' = IF u.open THEN uvs ELSE [uvs EXCEPT ![Uv(I.b)].val = A]
        /\ frames' = LET moved == Append(Front(frames), Next1)
                     IN  IF u.open THEN [moved EXCEPT ![u.frame].R[u.idx] = A]
                         ELSE moved
        /\ UNCHANGED <<prog, closures, tables, log, status>>

(* Reads: the object and the key of each instruction.                      *)
Source == IF I.op = "GETTABUP" THEN UvGet(I.b) ELSE F.R[I.b]
ReadKey == IF I.op = "GETTABLE" THEN F.R[I.c] ELSE I.c
Reads == {"GETTABUP", "GETFIELD", "GETTABLE", "SELF"}
Read ==
    /\ OnAny(Reads)
    /\ IsTable(Source)
    /\ LET v == Get(tables[Source[2]], ReadKey)
       IN  Go([Next1 EXCEPT
               !.R = IF I.op = "SELF" THEN [@ EXCEPT ![I.a + 1] = Source,
                                                     ![I.a] = v]
                     ELSE [@ EXCEPT ![I.a] = v]])
    /\ UNCHANGED <<heap, log>>

Target == IF I.op = "SETTABUP" THEN UvGet(I.a) ELSE A
WrittenKey == IF I.op = "SETTABLE" THEN F.R[I.b] ELSE I.b
Writes == {"SETTABUP", "SETFIELD", "SETTABLE"}
WriteTable ==
    /\ OnAny(Writes)
    /\ IsTable(Target) /\ WrittenKey # NilV
    /\ tables' = [tables EXCEPT ![Target[2]] = Put(@, WrittenKey, F.R[I.c])]
    /\ Go(Next1)
    /\ UNCHANGED <<uvs, closures, log>>

NewTable ==
    /\ On("NEWTABLE")
    /\ tables' = Append(tables, EmptyTable)
    /\ Write(I.a, <<"table", Len(tables) + 1>>)
    /\ UNCHANGED <<uvs, closures, log>>

SetList ==
    LET count == IF I.b = 0 THEN F.top - I.a - 1 ELSE I.b
    IN  /\ On("SETLIST")
        /\ tables' = [tables EXCEPT ![A[2]] =
                          PutList(@, I.c, Slice(F.R, I.a + 1, count))]
        /\ Go(Next1)
        /\ UNCHANGED <<uvs, closures, log>>

Binaries == {"+", "-", "*", "==", "<", "<="}
Operate ==
    /\ \/ /\ OnAny(Binaries)
          /\ Binary(I.op, F.R[I.b], F.R[I.c]) # Fault
          /\ Write(I.a, Binary(I.op, F.R[I.b], F.R[I.c]))
       \/ /\ OnAny({"not", "neg"})
          /\ Unary(I.op, F.R[I.b]) # Fault
          /\ Write(I.a, Unary(I.op, F.R[I.b]))
       \/ /\ On("#")
          /\ Length(F.R[I.b], tables) # Fault
          /\ Write(I.a, Length(F.R[I.b], tables))
    /\ UNCHANGED <<heap, log>>

(* The right-to-left accumulation of CONCAT.                               *)
Joined ==
    LET acc[r \in I.b..I.c] ==
            IF r = I.c THEN F.R[r]
            ELSE IF acc[r + 1] = Fault THEN Fault
            ELSE Binary("..", F.R[r], acc[r + 1])
    IN  acc[I.b]
ConcatRegs ==
    /\ On("CONCAT") /\ Joined # Fault
    /\ Write(I.a, Joined)
    /\ UNCHANGED <<heap, log>>

(***************************************************************************)
(* Control.                                                                *)
(***************************************************************************)
Jump ==
    /\ \/ On("JMP") /\ Go(To(I.a))
       \/ On("JMPIF") /\ Go(IF Truthy(A) THEN To(I.b) ELSE Next1)
       \/ On("JMPIFNOT") /\ Go(IF Truthy(A) THEN Next1 ELSE To(I.b))
    /\ UNCHANGED <<heap, log>>

(* Results for the instruction that called: CALL wants c - 1 of them or,   *)
(* with c = 0, all; TFORCALL wants the loop's variables.                   *)
Deliver(f, res) ==
    LET i == P(f).code[f.pc]
        g == [f EXCEPT !.pc = @ + 1]
    IN  IF i.op = "TFORCALL" THEN [g EXCEPT !.R = Spread(@, i.a + 3, res, i.c)]
        ELSE IF i.c = 0 THEN [g EXCEPT !.R = Spread(@, i.a, res, Len(res)),
                                       !.top = i.a + Len(res)]
        ELSE [g EXCEPT !.R = Spread(@, i.a, res, i.c - 1)]

CallArgs ==
    IF I.op = "TFORCALL" THEN <<F.R[I.a + 1], F.R[I.a + 3]>>
    ELSE Slice(F.R, I.a + 1, IF I.b = 0 THEN F.top - I.a - 1 ELSE I.b - 1)

CallGuest ==
    /\ OnAny({"CALL", "TFORCALL"})
    /\ A[1] = "fn"
    /\ frames' = Append(frames, NewFrame(A[2], closures[A[2]].proto, CallArgs))
    /\ UNCHANGED <<prog, heap, log, status>>

CallNative ==
    /\ OnAny({"CALL", "TFORCALL"})
    /\ A[1] = "native"
    /\ log' = log \o NativeOutput(A[2], CallArgs)
    /\ Go(Deliver(F, NativeResults(A[2], CallArgs)))
    /\ UNCHANGED heap

(* A return leaves the frame, after closing all of it.                     *)
Leave(res, output) ==
    /\ log' = log \o CloseLog(F, 0) \o output
    /\ uvs' = ClosedUvs(F, 0)
    /\ IF Len(frames) = 1 THEN status' = "done" /\ frames' = <<>>
       ELSE /\ frames' = Append(Front(Front(frames)),
                                Deliver(Last(Front(frames)), res))
            /\ UNCHANGED status
    /\ UNCHANGED <<prog, closures, tables>>

ReturnFrame ==
    /\ On("RETURN")
    /\ Leave(Slice(F.R, I.a, IF I.b = 0 THEN F.top - I.a ELSE I.b - 1), <<>>)

(* A tail call closes all of the frame and runs the callee in it.          *)
TailCallGuest ==
    /\ On("TAILCALL") /\ A[1] = "fn"
    /\ log' = log \o CloseLog(F, 0)
    /\ uvs' = ClosedUvs(F, 0)
    /\ Go(NewFrame(A[2], closures[A[2]].proto, CallArgs))
    /\ UNCHANGED <<closures, tables>>

TailCallNative ==
    /\ On("TAILCALL") /\ A[1] = "native"
    /\ Leave(NativeResults(A[2], CallArgs), NativeOutput(A[2], CallArgs))

Varargs ==
    LET named == tables[F.R[I.b][2]]
        count == Get(named, Str("n"))[2]
        vals == IF I.op = "VARARG" THEN F.varargs
                ELSE [i \in 1..count |-> Get(named, Num(i))]
        b == IF I.op = "VARARG" THEN I.b ELSE I.c
    IN  /\ OnAny({"VARARG", "UNPACKVARARG"})
        /\ I.op = "UNPACKVARARG" => IsInt(Get(named, Str("n"))) /\ count >= 0
        /\ Go(IF b = 0
              THEN [Next1 EXCEPT !.R = Spread(@, I.a, vals, Len(vals)),
                                 !.top = I.a + Len(vals)]
              ELSE [Next1 EXCEPT !.R = Spread(@, I.a, vals, b - 1)])
        /\ UNCHANGED <<heap, log>>

PackVarargs ==
    /\ On("VARARGPACK")
    /\ tables' = Append(tables, Put(PutList(EmptyTable, 0, F.varargs),
                                    Str("n"), Num(Len(F.varargs))))
    /\ Write(I.a, <<"table", Len(tables) + 1>>)
    /\ UNCHANGED <<uvs, closures, log>>

(* A closure shares the box of each register it captures.                  *)
MakeClosure ==
    LET proto == P(F).protos[I.b]
        descs == proto.upvals
        new == SelectSeq(descs, LAMBDA d : /\ d.instack
                                           /\ d.index \notin DOMAIN F.openuv)
        openuv == [r \in DOMAIN F.openuv \cup {d.index : d \in ToSet(new)} |->
                      IF r \in DOMAIN F.openuv THEN F.openuv[r]
                      ELSE Len(uvs) + CHOOSE i \in DOMAIN new : new[i].index = r]
        Box(d) == IF d.instack THEN openuv[d.index] ELSE Uv(d.index)
    IN  /\ On("CLOSURE")
        /\ uvs' = uvs \o [i \in DOMAIN new |->
                             [open |-> TRUE, frame |-> Len(frames),
                              idx |-> new[i].index, val |-> NilV]]
        /\ closures' = Append(closures, [proto |-> proto,
                              upvals |-> [i \in DOMAIN descs |-> Box(descs[i])]])
        /\ Go([Next1 EXCEPT !.openuv = openuv,
                            !.R[I.a] = <<"fn", Len(closures) + 1>>])
        /\ UNCHANGED <<tables, log>>

(* The numeric loop counts its steps beforehand (see ForLoop).             *)
ForPrep ==
    LET init == A[2]
        limit == F.R[I.a + 1][2]
        step == F.R[I.a + 2][2]
        runs == IF step > 0 THEN init <= limit ELSE init >= limit
        count == IF step > 0 THEN (limit - init) \div step
                 ELSE (init - limit) \div (-step)
    IN  /\ On("FORPREP")
        /\ \A i \in 0..2 : IsInt(F.R[I.a + i])
        /\ step # 0
        /\ Go(IF runs THEN [Next1 EXCEPT !.R[I.a + 3] = Num(init),
                                         !.loops = (I.a :> count) @@ @]
              ELSE To(I.b))
        /\ UNCHANGED <<heap, log>>

ForLoop ==
    LET v == Num(A[2] + F.R[I.a + 2][2])
    IN  /\ On("FORLOOP")
        /\ Go(IF F.loops[I.a] = 0 THEN Next1
              ELSE [To(I.b) EXCEPT !.loops[I.a] = @ - 1,
                                   !.R[I.a] = v, !.R[I.a + 3] = v])
        /\ UNCHANGED <<heap, log>>

GenericPrep ==
    LET closing == F.R[I.a + 3]
    IN  /\ On("TFORPREP") /\ Closable(closing)
        /\ Go([To(I.b) EXCEPT
               !.R[I.a + 3] = F.R[I.a + 2], !.R[I.a + 2] = closing,
               !.tbc = IF Truthy(closing) THEN Append(@, I.a + 2) ELSE @])
        /\ UNCHANGED <<heap, log>>

GenericLoop ==
    /\ On("TFORLOOP")
    /\ Go(IF F.R[I.a + 3] # NilV THEN To(I.b) ELSE Next1)
    /\ UNCHANGED <<heap, log>>

Close ==
    /\ On("CLOSE")
    /\ log' = log \o CloseLog(F, I.a)
    /\ uvs' = ClosedUvs(F, I.a)
    /\ Go(Closed(Next1, I.a))
    /\ UNCHANGED <<closures, tables>>

MarkToBeClosed ==
    /\ On("TBC") /\ Closable(A)
    /\ Go([Next1 EXCEPT !.tbc = Append(@, I.a)])
    /\ UNCHANGED <<heap, log>>

ErrNotNil == On("ERRNNIL") /\ A = NilV /\ Go(Next1) /\ UNCHANGED <<heap, log>>

(* An instruction that cannot go on raises an error, which nothing catches *)
(* (CloseVariables has the unwinding).                                     *)
Faulty ==
    \/ OnAny(Reads) /\ ~IsTable(Source)
    \/ OnAny(Writes) /\ (~IsTable(Target) \/ WrittenKey = NilV)
    \/ OnAny(Binaries) /\ Binary(I.op, F.R[I.b], F.R[I.c]) = Fault
    \/ OnAny({"not", "neg"}) /\ Unary(I.op, F.R[I.b]) = Fault
    \/ On("#") /\ Length(F.R[I.b], tables) = Fault
    \/ On("CONCAT") /\ Joined = Fault
    \/ OnAny({"CALL", "TAILCALL", "TFORCALL"}) /\ ~IsFunction(A)
    \/ On("FORPREP") /\ (\E i \in 0..2 : ~IsInt(F.R[I.a + i])
                         \/ F.R[I.a + 2] = Num(0))
    \/ On("UNPACKVARARG")
       /\ LET count == Get(tables[F.R[I.b][2]], Str("n"))
          IN  ~(IsInt(count) /\ count[2] >= 0)
    \/ On("TFORPREP") /\ ~Closable(F.R[I.a + 3])
    \/ On("TBC") /\ ~Closable(A)
    \/ On("ERRNNIL") /\ A # NilV

RaiseError ==
    /\ Faulty
    /\ status' = "error"
    /\ UNCHANGED <<prog, frames, heap, log>>

Next ==
    \/ Load \/ SetUpval \/ Read \/ WriteTable \/ NewTable \/ SetList
    \/ Operate \/ ConcatRegs \/ Jump
    \/ CallGuest \/ CallNative \/ ReturnFrame \/ TailCallGuest \/ TailCallNative
    \/ Varargs \/ PackVarargs \/ MakeClosure
    \/ ForPrep \/ ForLoop \/ GenericPrep \/ GenericLoop
    \/ Close \/ MarkToBeClosed \/ ErrNotNil \/ RaiseError

Spec == Init /\ [][Next]_vars /\ WF_vars(Next)

(***************************************************************************)
(* Properties.                                                             *)
(***************************************************************************)
ValueOK(v) ==
    CASE v[1] = "table" -> v[2] \in DOMAIN tables
      [] v[1] = "fn" -> v[2] \in DOMAIN closures
      [] OTHER -> v[1] \in {"nil", "bool", "int", "str", "native", "guard"}

(* A register never holds a table or closure that was not made, and no     *)
(* jump leaves the code of its proto.                                      *)
MachineTypeOK ==
    /\ status \in {"run", "done", "error", "rejected"}
    /\ \A k \in DOMAIN frames :
          /\ frames[k].cl \in DOMAIN closures
          /\ frames[k].pc \in DOMAIN P(frames[k]).code
          /\ DOMAIN frames[k].R = Regs
          /\ \A r \in Regs : ValueOK(frames[k].R[r])
          /\ DOMAIN frames[k].openuv \subseteq Regs
          /\ ToSet(frames[k].tbc) \subseteq Regs
    /\ \A c \in DOMAIN closures :
          ToSet(closures[c].upvals) \subseteq DOMAIN uvs

(* What a program outputs, and in what order, is what its source means, at *)
(* every step and when it ends: whatever registers are shared, jumps       *)
(* patched, and upvalues and to-be-closed variables closed on the way.     *)
(* Sources on which the compiler makes one of its known mistakes (slips)   *)
(* are left out.                                                           *)
SameAsSource ==
    prog.slips = {} =>
        /\ IsPrefix(log, prog.log)
        /\ status # "run" => status = prog.ends /\ log = prog.log

(* The compiler rejects what the scope rules forbid and nothing else: a    *)
(* jump into the scope of a variable, a constant that is assigned, an      *)
(* undeclared global, a label that is missing or there twice.              *)
RejectsExactly ==
    "hidden" \notin prog.slips =>
        (status = "rejected" <=> prog.ends = "rejected")

(* The two together: the compiler accepts the right sources, and what it   *)
(* compiles means what they mean (compile_main, exec_loop).                *)
CompilesRight == SameAsSource /\ RejectsExactly

(* An open box stands for a register of a frame that still runs, and that  *)
(* frame lists it as its box of that register, so that the register has    *)
(* one box, whichever closures share it.                                   *)
NoDangling ==
    \A u \in DOMAIN uvs : uvs[u].open =>
        /\ uvs[u].frame \in DOMAIN frames
        /\ uvs[u].idx \in DOMAIN frames[uvs[u].frame].openuv
        /\ frames[uvs[u].frame].openuv[uvs[u].idx] = u

(* A register that is captured or to be closed holds a variable in scope   *)
(* at pc: no other variable or temporary takes it over before CLOSE.  The  *)
(* hidden variables of a generic for last until the CLOSE after its loop,  *)
(* two instructions after the end of their range.                          *)
HeldAt(f, r) ==
    \E lv \in ToSet(P(f).locvars) :
        /\ lv.reg = r /\ lv.startpc <= f.pc
        /\ f.pc < lv.endpc + (IF lv.name = "(for state)" THEN 3 ELSE 0)
CapturedInScope ==
    "void" \notin prog.slips =>
        \A k \in DOMAIN frames :
            \A r \in DOMAIN frames[k].openuv \cup ToSet(frames[k].tbc) :
                HeldAt(frames[k], r)

(* The two together: registers, boxes and scopes agree at every step       *)
(* (mark_capture_at, close_upvals, exec_loop).                             *)
RegistersHold == MachineTypeOK /\ NoDangling /\ CapturedInScope

(* Every program of the families ends.                                     *)
Terminates == <>(status # "run")
=============================================================================
