----------------------------- MODULE Unwinding ------------------------------
(***************************************************************************)
(* What Lua promises of to-be-closed variables: they are closed in the     *)
(* reverse order of their declarations, each once, when their scope ends   *)
(* or an error passes it; a handler gets the error that is under way; an   *)
(* error in a handler closes the handler's own variables and then takes    *)
(* the place of the one under way; and pcall delivers the last one.        *)
(***************************************************************************)
EXTENDS Naturals, Sequences, SequencesExt

CONSTANTS Vars, Errs, None

VARIABLES todo,  \* functions, variables, protected calls and closing handlers
          mode,  \* running, leaving a scope, or raising an error
          got    \* the error delivered last

Fn        == [k |-> "function"]
Protected == [k |-> "protected"]
Var(v)     == [k |-> "var", v |-> v]
Handler(m) == [k |-> "handler", m |-> m]  \* m is what goes on when it returns
Run       == [m |-> "run"]
Leave(to) == [m |-> "leave", to |-> to]  \* until todo has length to
Raise(e)  == [m |-> "raise", e |-> e]

Init == todo = <<Fn>> /\ mode = Run /\ got = None

IsCatcher(x) == x.k \in {"protected", "handler"}

(* The functions an error passes are gone at once, their variables stay;   *)
(* what lies below the innermost catcher is not passed.                    *)
Abandon(s) ==
    LET rest[n \in 0..Len(s)] ==
          IF n = 0 THEN <<>>
          ELSE CASE IsCatcher(s[n])  -> SubSeq(s, 1, n)
                 [] s[n].k = "var"   -> Append(rest[n - 1], s[n])
                 [] OTHER            -> rest[n - 1]
    IN  rest[Len(s)]

Enter == /\ mode = Run
         /\ \/ todo' = Append(todo, Fn)
            \/ todo' = todo \o <<Protected, Fn>>
            \/ \E v \in Vars : Var(v) \notin ToSet(todo) /\ todo' = Append(todo, Var(v))
         /\ UNCHANGED <<mode, got>>

(* A block or the function ends.                                           *)
Exit == /\ mode = Run
        /\ \E i \in DOMAIN todo : /\ todo[i] = Fn
                                  /\ \A j \in DOMAIN todo : j > i => todo[j].k = "var"
                                  /\ \E to \in (i - 1)..Len(todo) :
                                       to > 0 /\ mode' = Leave(to)
        /\ UNCHANGED <<todo, got>>

(* The end of a function also ends the protected call or the handler that  *)
(* it was called by.                                                       *)
Left == /\ mode.m = "leave"
        /\ \/ Len(todo) = mode.to /\ todo' = todo /\ mode' = Run
           \/ /\ Len(todo) = mode.to + 1 /\ Last(todo) = Fn
              /\ LET s == Front(todo) IN
                 CASE Last(s).k = "protected" -> todo' = Front(s) /\ mode' = Run
                   [] Last(s).k = "handler" -> todo' = Front(s) /\ mode' = Last(s).m
                   [] OTHER -> todo' = s /\ mode' = Run
        /\ UNCHANGED got

Throw == /\ mode = Run /\ Protected \in ToSet(todo)
         /\ \E e \in Errs : mode' = Raise(e)
         /\ todo' = Abandon(todo)
         /\ UNCHANGED got

Closing == \/ mode.m = "leave" /\ Len(todo) > mode.to
           \/ mode.m = "raise"

CloseVar == /\ Closing /\ Last(todo).k = "var"
            /\ todo' = Front(todo) \o <<Handler(mode), Fn>>
            /\ mode' = Run
            /\ UNCHANGED got

(* There is no handler to call: an error as if the handler had failed.     *)
CloseFails == /\ Closing /\ Last(todo).k = "var" /\ Protected \in ToSet(todo)
              /\ \E e \in Errs : mode' = Raise(e)
              /\ todo' = Abandon(Front(todo))
              /\ UNCHANGED got

Absorb == /\ mode.m = "raise" /\ Last(todo).k = "handler"
          /\ todo' = Abandon(Front(todo))
          /\ UNCHANGED <<mode, got>>

Deliver == /\ mode.m = "raise" /\ Last(todo) = Protected
           /\ todo' = Front(todo) /\ mode' = Run /\ got' = mode.e

Next == Enter \/ Exit \/ Left \/ Throw \/ CloseVar \/ CloseFails
        \/ Absorb \/ Deliver

Spec == Init /\ [][Next]_<<todo, mode, got>>
=============================================================================
