---------------------------- MODULE PythonBinding ----------------------------
(***************************************************************************)
(* The Python KeyProtector (fido-key-wrap-python/src/protector.rs and      *)
(* interaction.rs).                                                        *)
(*                                                                         *)
(* A method marks its protector busy, releases the interpreter, runs one   *)
(* operation of the core on a protector of its own and maps the outcome.   *)
(* Callbacks of the operation run Python code, which may raise and may     *)
(* call protectors again; other threads run between any two steps.         *)
(*                                                                         *)
(* Of the core the module keeps that an operation stops at its first error *)
(* and that some then clean up, asking the user again (ManagedCredential   *)
(* has the details): a cleanup that cannot be completed replaces the error *)
(* by CredentialMayRemain.                                                 *)
(***************************************************************************)
EXTENDS Naturals, Sequences, FiniteSets

CONSTANTS
    Thread,         \* Python threads
    Protector,      \* KeyProtector objects
    Cancelled,      \* exceptions of the class Cancelled
    Exception,      \* other exceptions a callback may raise
    MaxDepth,       \* bound: calls nested through callbacks
    None            \* no exception

ASSUME BoundAssumption == MaxDepth \in Nat \ {0}
ASSUME ExceptionAssumption == None \notin Cancelled \cup Exception

VARIABLES
    busy,       \* busy[k]: the flag of protector k
    stack,      \* stack[t]: the running calls of t, the innermost first
    outcome     \* outcome[t]: how the last call of t ended

vars == <<busy, stack, outcome>>

\* What a call is doing: before its first error, cleaning up, or at its end.
Stage == {"run", "cleanup", "end"}
\* Core errors: those of the Interaction, the one of a failed cleanup, others.
InteractionError == {"Cancelled", "Failed", "Unsupported"}
CoreError == InteractionError \cup {"MayRemain", "Other"}

Frame == [protector : Protector,
          interactive : BOOLEAN,        \* it was given an interaction object
          stage : Stage,
          asking : BOOLEAN,             \* a callback runs
          error : CoreError \cup {"none"},
          cause : Cancelled \cup Exception \cup {None}, \* history: raised for error
          pending : Cancelled \cup Exception \cup {None}]

\* A call that was refused, and one that has ended: the error of the core, the
\* exception that caused it, and what the caller gets.
Refused == [error |-> "Busy", cause |-> None, raised |-> "Busy"]
Outcome(f, raised) == [error |-> f.error, cause |-> f.cause, raised |-> raised]

Init ==
    /\ busy = [k \in Protector |-> FALSE]
    /\ stack = [t \in Thread |-> <<>>]
    /\ outcome = [t \in Thread |-> Refused]

-----------------------------------------------------------------------------

\* Python code of t runs: outside every call, or in a callback of the innermost.
InPython(t) == stack[t] # <<>> => Head(stack[t]).asking

Replace(t, f) == stack' = [stack EXCEPT ![t] = <<f>> \o Tail(stack[t])]

\* Mutated form: the guard is made before the flag is looked at, and its drop
\* clears the flag of the call that was running.
EnterLeaky(t, k, interactive) ==
    \/ /\ busy[k]
       /\ busy' = [busy EXCEPT ![k] = FALSE]
       /\ outcome' = [outcome EXCEPT ![t] = Refused]
       /\ UNCHANGED stack
    \/ /\ ~busy[k]
       /\ busy' = [busy EXCEPT ![k] = TRUE]
       /\ stack' = [stack EXCEPT ![t] =
            <<[protector |-> k, interactive |-> interactive, stage |-> "run",
               asking |-> FALSE, error |-> "none", cause |-> None,
               pending |-> None]>> \o @]
       /\ UNCHANGED outcome

\* BusyGuard::enter: a busy protector refuses the call.
Enter(t, k, interactive) ==
    \/ /\ busy[k]
       /\ outcome' = [outcome EXCEPT ![t] = Refused]
       /\ UNCHANGED <<busy, stack>>
    \/ /\ ~busy[k]
       /\ busy' = [busy EXCEPT ![k] = TRUE]
       /\ stack' = [stack EXCEPT ![t] =
            <<[protector |-> k, interactive |-> interactive, stage |-> "run",
               asking |-> FALSE, error |-> "none", cause |-> None,
               pending |-> None]>> \o @]
       /\ UNCHANGED outcome

\* The methods that take an interaction object.
CallInteractive(t, k) ==
    /\ InPython(t) /\ Len(stack[t]) < MaxDepth
    /\ Enter(t, k, TRUE)

\* The methods that ask nobody: removal and recovery secrets.
CallQuiet(t, k) ==
    /\ InPython(t) /\ Len(stack[t]) < MaxDepth
    /\ Enter(t, k, FALSE)

\* The core asks: the callback is looked up and called, with the interpreter
\* attached again.
Ask(t) ==
    /\ ~InPython(t)
    /\ LET f == Head(stack[t]) IN
        /\ f.interactive /\ f.stage # "end"
        /\ Replace(t, [f EXCEPT !.asking = TRUE])
    /\ UNCHANGED <<busy, outcome>>

\* The callback returns what was asked for.
Answer(t) ==
    /\ stack[t] # <<>> /\ Head(stack[t]).asking
    /\ Replace(t, [Head(stack[t]) EXCEPT !.asking = FALSE])
    /\ UNCHANGED <<busy, outcome>>

\* What an error e, raised as x, makes of the operation f: an error of the
\* cleanup ends it as CredentialMayRemain, whatever it was.
Failed(f, e, x) ==
    IF f.stage = "cleanup"
    THEN {[f EXCEPT !.stage = "end", !.error = "MayRemain", !.cause = None]}
    ELSE {[f EXCEPT !.stage = s, !.error = e, !.cause = x] : s \in {"cleanup", "end"}}

\* PythonInteraction::finish: the callback is missing, raises, or returns
\* something else; the first exception is kept.
Raise(t) ==
    /\ stack[t] # <<>> /\ Head(stack[t]).asking
    /\ LET f == [Head(stack[t]) EXCEPT !.asking = FALSE]
           kept(x) == IF f.pending = None THEN [f EXCEPT !.pending = x] ELSE f
       IN \/ \E g \in Failed(f, "Unsupported", None) : Replace(t, g)
          \/ \E x \in Cancelled : \E g \in Failed(kept(x), "Cancelled", x) : Replace(t, g)
          \/ \E x \in Exception : \E g \in Failed(kept(x), "Failed", x) : Replace(t, g)
    /\ UNCHANGED <<busy, outcome>>

\* The core fails without the user, ends its cleanup, or succeeds.
Progress(t) ==
    /\ ~InPython(t)
    /\ LET f == Head(stack[t]) IN
        /\ f.stage # "end"
        /\ \/ \E g \in Failed(f, "Other", None) : Replace(t, g)
           \/ Replace(t, [f EXCEPT !.stage = "end"])
    /\ UNCHANGED <<busy, outcome>>

\* Mutated form: an exception that was kept is raised, whatever the error.
RaisedPending(f) ==
    IF f.error # "none" /\ f.pending # None THEN f.pending ELSE f.error

\* take_pending_if_causal and map_error: what the caller gets of f.
Raised(f) ==
    IF f.error \in InteractionError /\ f.pending # None THEN f.pending ELSE f.error

\* finish, and the drop of the guard.
Return(t) ==
    /\ stack[t] # <<>>
    /\ LET f == Head(stack[t]) IN
        /\ f.stage = "end"
        /\ outcome' = [outcome EXCEPT ![t] = Outcome(f, Raised(f))]
        /\ busy' = [busy EXCEPT ![f.protector] = FALSE]
    /\ stack' = [stack EXCEPT ![t] = Tail(@)]

Next ==
    \E t \in Thread :
        \/ \E k \in Protector : CallInteractive(t, k) \/ CallQuiet(t, k)
        \/ Ask(t) \/ Answer(t) \/ Raise(t) \/ Progress(t) \/ Return(t)

Spec == Init /\ [][Next]_vars

-----------------------------------------------------------------------------
(***************************************************************************)
(* Properties.                                                             *)
(***************************************************************************)

\* The calls of k on the stack of t.
CallsOn(t, k) == {i \in DOMAIN stack[t] : stack[t][i].protector = k}

TypeOK ==
    /\ busy \in [Protector -> BOOLEAN]
    /\ stack \in [Thread -> Seq(Frame)]
    /\ outcome \in [Thread -> [error : CoreError \cup {"none", "Busy"},
                              cause : Cancelled \cup Exception \cup {None},
                              raised : CoreError \cup {"none", "Busy"}
                                        \cup Cancelled \cup Exception]]
    /\ \A t \in Thread :
        /\ Len(stack[t]) <= MaxDepth
        /\ \A i \in DOMAIN stack[t] : stack[t][i].asking =>
                stack[t][i].interactive /\ stack[t][i].stage # "end"

\* A protector is busy exactly while one call runs on it, so a reentrant or
\* overlapping call never runs beside another and never frees a protector that
\* it was refused, and no way out of a call leaves it busy for good.
BusyMeansRunning ==
    \A k \in Protector :
        /\ busy[k] <=> \E t \in Thread : CallsOn(t, k) # {}
        /\ \A t, u \in Thread : \A i \in CallsOn(t, k), j \in CallsOn(u, k) :
                t = u /\ i = j

\* The caller gets the exception that made its own operation fail, as it was
\* raised; and if something else did, or a cleanup could not be completed,
\* that error and no exception of a callback.
RaisedIsCause ==
    \A t \in Thread :
        LET o == outcome[t] IN o.raised = IF o.cause # None THEN o.cause ELSE o.error

-----------------------------------------------------------------------------
(***************************************************************************)
(* The inductive invariant behind BusyMeansRunning and RaisedIsCause.      *)
(***************************************************************************)

\* A call keeps an exception apart from its error only while the error may be
\* the one the exception caused, and before its first error it has neither.
FrameOK(f) ==
    /\ f.stage = "run" => f.error = "none" /\ f.pending = None
    /\ f.cause = IF f.error \in InteractionError THEN f.pending ELSE None

FramesOK == \A t \in Thread : \A i \in DOMAIN stack[t] : FrameOK(stack[t][i])

IInv ==
    /\ TypeOK
    /\ BusyMeansRunning
    /\ RaisedIsCause
    /\ FramesOK
=============================================================================
