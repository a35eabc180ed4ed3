------------------------- MODULE PythonBindingProofs -------------------------
(***************************************************************************)
(* Proofs about PythonBinding, for any number of threads, protectors and   *)
(* exceptions and any depth of nesting: a protector is busy exactly while  *)
(* one call runs on it, and a caller gets the exception that stopped its   *)
(* operation.  At the end, the same for SecretBuffer: a secret passed in a  *)
(* bytearray is cleared.                                                   *)
(***************************************************************************)
EXTENDS PythonBinding, SecretBuffer, TLAPS

-----------------------------------------------------------------------------
(***************************************************************************)
(* The stack of calls.                                                     *)
(***************************************************************************)

LEMMA Pushed ==
    ASSUME NEW s \in Seq(Frame), NEW f \in Frame
    PROVE  /\ <<f>> \o s \in Seq(Frame)
           /\ Len(<<f>> \o s) = Len(s) + 1
           /\ (<<f>> \o s)[1] = f
           /\ \A i \in 1 .. Len(s) : (<<f>> \o s)[i + 1] = s[i]
OBVIOUS

LEMMA Popped ==
    ASSUME NEW s \in Seq(Frame), s # <<>>
    PROVE  /\ Head(s) = s[1] /\ Head(s) \in Frame /\ 1 \in DOMAIN s
           /\ Tail(s) \in Seq(Frame)
           /\ Len(Tail(s)) = Len(s) - 1 /\ Len(s) \in Nat \ {0}
           /\ \A i \in 1 .. Len(s) - 1 : Tail(s)[i] = s[i + 1]
OBVIOUS

LEMMA HeadReplaced ==
    ASSUME NEW s \in Seq(Frame), s # <<>>, NEW f \in Frame
    PROVE  LET r == <<f>> \o Tail(s)
           IN  /\ r \in Seq(Frame) /\ Len(r) = Len(s)
               /\ r[1] = f
               /\ \A i \in 2 .. Len(s) : r[i] = s[i]
<1> DEFINE r == <<f>> \o Tail(s)
<1>1. r \in Seq(Frame) /\ Len(r) = Len(s) /\ r[1] = f
  BY Popped, Pushed
<1>2. ASSUME NEW i \in 2 .. Len(s) PROVE r[i] = s[i]
  <2>1. i - 1 \in 1 .. Len(Tail(s)) /\ i - 1 \in 1 .. Len(s) - 1 /\ (i - 1) + 1 = i
    BY Popped
  <2>2. r[i] = Tail(s)[i - 1]
    BY <2>1, Popped, Pushed
  <2> QED BY <2>1, <2>2, Popped
<1> QED BY <1>1, <1>2

-----------------------------------------------------------------------------
(***************************************************************************)
(* Steps inside a call.                                                    *)
(***************************************************************************)

\* A step that changes the innermost call of a thread, but not its protector.
LEMMA ReplaceKeeps ==
    ASSUME IInv, NEW t \in Thread, stack[t] # <<>>, NEW f \in Frame,
           f.protector = Head(stack[t]).protector,
           f.asking => f.interactive /\ f.stage # "end",
           FrameOK(f), Replace(t, f), UNCHANGED <<busy, outcome>>
    PROVE  IInv'
<1>1. TypeOK /\ BusyMeansRunning /\ RaisedIsCause /\ FramesOK
  BY DEF IInv
<1>2. /\ stack[t] \in Seq(Frame) /\ stack \in [Thread -> Seq(Frame)]
      /\ Head(stack[t]) = stack[t][1]
  BY <1>1, Popped DEF TypeOK
<1> DEFINE r == <<f>> \o Tail(stack[t])
<1>3. /\ r \in Seq(Frame) /\ Len(r) = Len(stack[t]) /\ r[1] = f
      /\ \A i \in 2 .. Len(stack[t]) : r[i] = stack[t][i]
  BY <1>2, HeadReplaced
<1>4. /\ stack' \in [Thread -> Seq(Frame)] /\ stack'[t] = r
      /\ \A u \in Thread : u # t => stack'[u] = stack[u]
  BY <1>2, <1>3 DEF Replace
<1> HIDE DEF r
<1>5. \A u \in Thread : /\ Len(stack'[u]) = Len(stack[u])
                        /\ DOMAIN stack'[u] = DOMAIN stack[u]
  BY <1>2, <1>3, <1>4
<1>6. \A i \in DOMAIN stack[t] : i = 1 \/ i \in 2 .. Len(stack[t])
  BY <1>2
<1>7. TypeOK'
  <2>1. \A u \in Thread : Len(stack'[u]) <= MaxDepth
    BY <1>1, <1>5 DEF TypeOK
  <2>2. ASSUME NEW u \in Thread, NEW i \in DOMAIN stack'[u], stack'[u][i].asking
        PROVE  stack'[u][i].interactive /\ stack'[u][i].stage # "end"
    <3>1. CASE u = t /\ i = 1
      BY <1>3, <1>4, <2>2, <3>1
    <3>2. CASE ~(u = t /\ i = 1)
      <4>1. stack'[u][i] = stack[u][i] /\ i \in DOMAIN stack[u]
        BY <1>3, <1>4, <1>5, <1>6, <3>2
      <4> QED BY <1>1, <2>2, <4>1 DEF TypeOK
    <3> QED BY <3>1, <3>2
  <2> QED BY <1>1, <1>4, <2>1, <2>2 DEF TypeOK
<1>8. \A u \in Thread, k \in Protector : CallsOn(u, k)' = CallsOn(u, k)
  <2> SUFFICES ASSUME NEW u \in Thread, NEW i \in DOMAIN stack[u]
               PROVE  stack'[u][i].protector = stack[u][i].protector
    BY <1>5 DEF CallsOn
  <2>1. CASE u = t /\ i = 1
    BY <1>2, <1>3, <1>4, <2>1
  <2>2. CASE ~(u = t /\ i = 1)
    BY <1>3, <1>4, <1>5, <1>6, <2>2
  <2> QED BY <2>1, <2>2
<1>9. BusyMeansRunning'
  BY <1>1, <1>8 DEF BusyMeansRunning
<1>10. RaisedIsCause'
  BY <1>1 DEF RaisedIsCause
<1>11. FramesOK'
  <2> SUFFICES ASSUME NEW u \in Thread, NEW i \in DOMAIN stack'[u]
               PROVE  FrameOK(stack'[u][i])
    BY DEF FramesOK, FrameOK, InteractionError
  <2>1. CASE u = t /\ i = 1
    BY <1>3, <1>4, <2>1
  <2>2. CASE ~(u = t /\ i = 1)
    <3>1. stack'[u][i] = stack[u][i] /\ i \in DOMAIN stack[u]
      BY <1>3, <1>4, <1>5, <1>6, <2>2
    <3> QED BY <1>1, <3>1 DEF FramesOK
  <2> QED BY <2>1, <2>2
<1> QED BY <1>7, <1>9, <1>10, <1>11 DEF IInv

\* What an error makes of a call.
LEMMA FailedKeeps ==
    ASSUME NEW f \in Frame, FrameOK(f), ~f.asking, f.stage # "end",
           NEW e \in {"Cancelled", "Failed", "Unsupported", "Other"},
           NEW x \in Cancelled \cup Exception \cup {None},
           NEW h \in Frame, h.protector = f.protector, h.stage = f.stage,
           h.asking = f.asking,
           f.stage = "run" => x = IF e \in InteractionError THEN h.pending ELSE None,
           NEW g \in Failed(h, e, x)
    PROVE  g \in Frame /\ g.protector = f.protector /\ ~g.asking /\ FrameOK(g)
<1>1. e \in CoreError /\ "MayRemain" \in CoreError /\ "MayRemain" \notin InteractionError
  BY DEF CoreError, InteractionError
<1>2. CASE f.stage = "cleanup"
  <2>1. g = [h EXCEPT !.stage = "end", !.error = "MayRemain", !.cause = None]
    BY <1>2 DEF Failed
  <2> QED BY <1>1, <2>1 DEF Frame, FrameOK, Stage
<1>3. CASE f.stage = "run"
  <2>1. PICK s \in {"cleanup", "end"} :
            g = [h EXCEPT !.stage = s, !.error = e, !.cause = x]
    BY <1>3 DEF Failed
  <2> QED BY <1>1, <1>3, <2>1 DEF Frame, FrameOK, Stage
<1> QED BY <1>2, <1>3 DEF Frame, Stage

\* The innermost call of a thread that is in one.
LEMMA Innermost ==
    ASSUME IInv, NEW t \in Thread, stack[t] # <<>>
    PROVE  LET f == Head(stack[t])
           IN  /\ f \in Frame /\ FrameOK(f)
               /\ f.asking => f.interactive /\ f.stage # "end"
<1>1. /\ stack[t] \in Seq(Frame) /\ FramesOK
      /\ \A i \in DOMAIN stack[t] :
            stack[t][i].asking => stack[t][i].interactive /\ stack[t][i].stage # "end"
  BY DEF IInv, TypeOK
<1>2. Head(stack[t]) = stack[t][1] /\ Head(stack[t]) \in Frame /\ 1 \in DOMAIN stack[t]
  BY <1>1, Popped
<1> QED BY <1>1, <1>2 DEF FramesOK

LEMMA AskKeeps ==
    ASSUME IInv, NEW t \in Thread, Ask(t)
    PROVE  IInv'
<1>1. stack[t] # <<>>
  BY DEF Ask, InPython
<1>2. PICK f \in Frame : f = Head(stack[t])
  BY <1>1, Innermost
<1>3. f.interactive /\ f.stage # "end" /\ FrameOK(f)
  BY <1>1, <1>2, Innermost DEF Ask
<1>4. PICK g : g = [f EXCEPT !.asking = TRUE]
  OBVIOUS
<1>5. /\ g \in Frame /\ g.protector = f.protector /\ g.interactive /\ g.stage # "end"
      /\ FrameOK(g)
  BY <1>3, <1>4 DEF Frame, FrameOK
<1>6. Replace(t, g) /\ UNCHANGED <<busy, outcome>>
  BY <1>2, <1>4 DEF Ask
<1> QED BY <1>1, <1>2, <1>5, <1>6, ReplaceKeeps

LEMMA AnswerKeeps ==
    ASSUME IInv, NEW t \in Thread, Answer(t)
    PROVE  IInv'
<1>1. stack[t] # <<>>
  BY DEF Answer
<1>2. PICK f \in Frame : f = Head(stack[t])
  BY <1>1, Innermost
<1>3. FrameOK(f)
  BY <1>1, <1>2, Innermost
<1>4. PICK g : g = [f EXCEPT !.asking = FALSE]
  OBVIOUS
<1>5. g \in Frame /\ g.protector = f.protector /\ ~g.asking /\ FrameOK(g)
  BY <1>3, <1>4 DEF Frame, FrameOK
<1>6. Replace(t, g) /\ UNCHANGED <<busy, outcome>>
  BY <1>2, <1>4 DEF Answer
<1> QED BY <1>1, <1>2, <1>5, <1>6, ReplaceKeeps

LEMMA RaiseKeeps ==
    ASSUME IInv, NEW t \in Thread, Raise(t)
    PROVE  IInv'
<1>1. stack[t] # <<>> /\ Head(stack[t]).asking
  BY DEF Raise
<1>2. PICK d \in Frame : d = Head(stack[t])
  BY <1>1, Innermost
<1>3. FrameOK(d) /\ d.stage # "end" /\ d.asking
  BY <1>1, <1>2, Innermost
<1>4. PICK f : f = [d EXCEPT !.asking = FALSE]
  OBVIOUS
<1>5. /\ f \in Frame /\ f.protector = d.protector /\ ~f.asking /\ FrameOK(f)
      /\ f.stage # "end"
  BY <1>3, <1>4 DEF Frame, FrameOK
<1> DEFINE kept(x) == IF f.pending = None THEN [f EXCEPT !.pending = x] ELSE f
<1>6. \A x \in Cancelled \cup Exception :
          /\ kept(x) \in Frame /\ kept(x).protector = f.protector
          /\ kept(x).stage = f.stage /\ kept(x).asking = f.asking
          /\ f.stage = "run" => kept(x).pending = x
  <2> SUFFICES ASSUME NEW x \in Cancelled \cup Exception,
                      NEW h, h = IF f.pending = None THEN [f EXCEPT !.pending = x] ELSE f
               PROVE  /\ h \in Frame /\ h.protector = f.protector
                      /\ h.stage = f.stage /\ h.asking = f.asking
                      /\ f.stage = "run" => h.pending = x
    OBVIOUS
  <2>1. CASE f.pending = None
    <3>1. h = [f EXCEPT !.pending = x]
      BY <2>1
    <3> QED BY <1>5, <3>1 DEF Frame
  <2>2. CASE f.pending # None
    BY <1>5, <2>2 DEF FrameOK
  <2> QED BY <2>1, <2>2
<1>7. ASSUME NEW g \in Frame, g.protector = f.protector, ~g.asking, FrameOK(g),
             Replace(t, g)
      PROVE  IInv'
  <2>1. UNCHANGED <<busy, outcome>>
    BY DEF Raise
  <2> QED BY <1>1, <1>2, <1>5, <1>7, <2>1, ReplaceKeeps
<1>8. CASE \E g \in Failed(f, "Unsupported", None) : Replace(t, g)
  <2>1. f.stage = "run" => None = f.pending
    BY <1>5 DEF FrameOK
  <2> QED BY <1>5, <1>7, <1>8, <2>1, FailedKeeps
<1>9. CASE \E x \in Cancelled : \E g \in Failed(kept(x), "Cancelled", x) : Replace(t, g)
  <2>1. PICK x \in Cancelled : \E g \in Failed(kept(x), "Cancelled", x) : Replace(t, g)
    BY <1>9
  <2> HIDE DEF kept
  <2>2. PICK h \in Frame : /\ h = kept(x) /\ h.protector = f.protector
                           /\ h.stage = f.stage /\ h.asking = f.asking
                           /\ f.stage = "run" => h.pending = x
    BY <1>6
  <2>3. PICK g \in Failed(h, "Cancelled", x) : Replace(t, g)
    BY <2>1, <2>2
  <2> QED BY <1>5, <1>7, <2>2, <2>3, FailedKeeps DEF InteractionError
<1>10. CASE \E x \in Exception : \E g \in Failed(kept(x), "Failed", x) : Replace(t, g)
  <2>1. PICK x \in Exception : \E g \in Failed(kept(x), "Failed", x) : Replace(t, g)
    BY <1>10
  <2> HIDE DEF kept
  <2>2. PICK h \in Frame : /\ h = kept(x) /\ h.protector = f.protector
                           /\ h.stage = f.stage /\ h.asking = f.asking
                           /\ f.stage = "run" => h.pending = x
    BY <1>6
  <2>3. PICK g \in Failed(h, "Failed", x) : Replace(t, g)
    BY <2>1, <2>2
  <2> QED BY <1>5, <1>7, <2>2, <2>3, FailedKeeps DEF InteractionError
<1> QED BY <1>2, <1>4, <1>8, <1>9, <1>10 DEF Raise

LEMMA ProgressKeeps ==
    ASSUME IInv, NEW t \in Thread, Progress(t)
    PROVE  IInv'
<1>1. stack[t] # <<>> /\ ~Head(stack[t]).asking
  BY DEF Progress, InPython
<1>2. PICK f \in Frame : f = Head(stack[t])
  BY <1>1, Innermost
<1>3. FrameOK(f) /\ f.stage # "end" /\ ~f.asking
  BY <1>1, <1>2, Innermost DEF Progress
<1>4. ASSUME NEW g \in Frame, g.protector = f.protector, ~g.asking, FrameOK(g),
             Replace(t, g)
      PROVE  IInv'
  <2>1. UNCHANGED <<busy, outcome>>
    BY DEF Progress
  <2> QED BY <1>1, <1>2, <1>4, <2>1, ReplaceKeeps
<1>5. CASE \E g \in Failed(f, "Other", None) : Replace(t, g)
  BY <1>3, <1>4, <1>5, FailedKeeps DEF InteractionError
<1>6. CASE Replace(t, [f EXCEPT !.stage = "end"])
  <2>1. PICK g : g = [f EXCEPT !.stage = "end"]
    OBVIOUS
  <2>2. g \in Frame /\ g.protector = f.protector /\ ~g.asking /\ FrameOK(g)
    BY <1>3, <2>1 DEF Frame, FrameOK, Stage
  <2> QED BY <1>4, <1>6, <2>1, <2>2
<1> QED BY <1>2, <1>5, <1>6 DEF Progress

-----------------------------------------------------------------------------
(***************************************************************************)
(* The begin and the end of a call.                                        *)
(***************************************************************************)

LEMMA EnterKeeps ==
    ASSUME IInv, NEW t \in Thread, NEW k \in Protector, NEW interactive \in BOOLEAN,
           Len(stack[t]) < MaxDepth, Enter(t, k, interactive)
    PROVE  IInv'
<1>1. TypeOK /\ BusyMeansRunning /\ RaisedIsCause /\ FramesOK
  BY DEF IInv
<1>2. CASE /\ outcome' = [outcome EXCEPT ![t] = Refused]
           /\ UNCHANGED <<busy, stack>>
  <2>1. /\ Refused \in [error : CoreError \cup {"none", "Busy"},
                        cause : Cancelled \cup Exception \cup {None},
                        raised : CoreError \cup {"none", "Busy"}
                                   \cup Cancelled \cup Exception]
        /\ Refused.cause = None /\ Refused.raised = Refused.error
    BY DEF Refused
  <2>2. TypeOK'
    BY <1>1, <1>2, <2>1 DEF TypeOK
  <2>3. RaisedIsCause'
    BY <1>1, <1>2, <2>1 DEF TypeOK, RaisedIsCause
  <2>4. BusyMeansRunning' /\ FramesOK'
    BY <1>1, <1>2 DEF BusyMeansRunning, CallsOn, FramesOK, FrameOK, InteractionError
  <2> QED BY <2>2, <2>3, <2>4 DEF IInv
<1>3. CASE /\ ~busy[k]
           /\ busy' = [busy EXCEPT ![k] = TRUE]
           /\ stack' = [stack EXCEPT ![t] =
                <<[protector |-> k, interactive |-> interactive, stage |-> "run",
                   asking |-> FALSE, error |-> "none", cause |-> None,
                   pending |-> None]>> \o @]
           /\ UNCHANGED outcome
  <2>1. PICK f : f = [protector |-> k, interactive |-> interactive, stage |-> "run",
                      asking |-> FALSE, error |-> "none", cause |-> None,
                      pending |-> None]
    OBVIOUS
  <2>2. /\ f \in Frame /\ f.protector = k /\ ~f.asking
        /\ FrameOK(f)
    BY <2>1 DEF Frame, FrameOK, Stage, InteractionError
  <2>3. stack[t] \in Seq(Frame) /\ stack \in [Thread -> Seq(Frame)]
    BY <1>1 DEF TypeOK
  <2> DEFINE r == <<f>> \o stack[t]
  <2>4. /\ r \in Seq(Frame) /\ Len(r) = Len(stack[t]) + 1 /\ r[1] = f
        /\ \A i \in 1 .. Len(stack[t]) : r[i + 1] = stack[t][i]
    BY <2>2, <2>3, Pushed
  <2>5. /\ stack' \in [Thread -> Seq(Frame)] /\ stack'[t] = r
        /\ \A u \in Thread : u # t => stack'[u] = stack[u]
    BY <1>3, <2>1, <2>3, <2>4
  <2> HIDE DEF r
  <2>6. \A i \in DOMAIN r : i # 1 => i - 1 \in DOMAIN stack[t] /\ r[i] = stack[t][i - 1]
    <3> SUFFICES ASSUME NEW i \in DOMAIN r, i # 1
                 PROVE  i - 1 \in DOMAIN stack[t] /\ r[i] = stack[t][i - 1]
      OBVIOUS
    <3>1. i - 1 \in 1 .. Len(stack[t]) /\ (i - 1) + 1 = i
      BY <2>3, <2>4
    <3> QED BY <2>3, <2>4, <3>1
  <2>7. \A u \in Thread : \A i \in DOMAIN stack'[u] :
            \/ u = t /\ i = 1 /\ stack'[u][i] = f
            \/ u = t /\ i - 1 \in DOMAIN stack[u] /\ stack'[u][i] = stack[u][i - 1]
            \/ u # t /\ i \in DOMAIN stack[u] /\ stack'[u][i] = stack[u][i]
    BY <2>4, <2>5, <2>6
  <2>8. TypeOK'
    <3>1. \A u \in Thread : Len(stack'[u]) <= MaxDepth
      <4> SUFFICES ASSUME NEW u \in Thread PROVE Len(stack'[u]) <= MaxDepth
        OBVIOUS
      <4>1. CASE u = t
        <5>1. Len(stack'[u]) = Len(stack[t]) + 1 /\ Len(stack[t]) \in Nat
          BY <2>3, <2>4, <2>5, <4>1
        <5> QED BY <5>1, BoundAssumption
      <4>2. CASE u # t
        BY <1>1, <2>5, <4>2 DEF TypeOK
      <4> QED BY <4>1, <4>2
    <3>2. \A u \in Thread : \A i \in DOMAIN stack'[u] : stack'[u][i].asking =>
              stack'[u][i].interactive /\ stack'[u][i].stage # "end"
      BY <1>1, <2>2, <2>7 DEF TypeOK
    <3>3. busy' \in [Protector -> BOOLEAN]
      BY <1>1, <1>3 DEF TypeOK
    <3> QED BY <1>1, <1>3, <2>5, <3>1, <3>2, <3>3 DEF TypeOK
  <2>9. FramesOK'
    <3> SUFFICES ASSUME NEW u \in Thread, NEW i \in DOMAIN stack'[u]
                 PROVE  FrameOK(stack'[u][i])
      BY DEF FramesOK, FrameOK, InteractionError
    <3> QED BY <1>1, <2>2, <2>7 DEF FramesOK
  <2>10. \A u \in Thread : CallsOn(u, k) = {}
    BY <1>1, <1>3 DEF BusyMeansRunning
  <2>11. CallsOn(t, k)' = {1} /\ \A u \in Thread : u # t => CallsOn(u, k)' = {}
    <3>1. 1 \in DOMAIN stack'[t]
      BY <2>3, <2>4, <2>5
    <3> QED BY <2>2, <2>4, <2>5, <2>7, <2>10, <3>1 DEF CallsOn
  <2>12. ASSUME NEW j \in Protector, j # k
         PROVE  /\ \A u \in Thread : u # t => CallsOn(u, j)' = CallsOn(u, j)
                /\ \A i \in CallsOn(t, j)' : i - 1 \in CallsOn(t, j) /\ i \in Nat
                /\ \A i \in CallsOn(t, j) : i + 1 \in CallsOn(t, j)'
    <3>1. \A u \in Thread : u # t => CallsOn(u, j)' = CallsOn(u, j)
      BY <2>5 DEF CallsOn
    <3>2. \A i \in CallsOn(t, j)' : i - 1 \in CallsOn(t, j) /\ i \in Nat
      <4> SUFFICES ASSUME NEW i \in DOMAIN stack'[t], stack'[t][i].protector = j
                   PROVE  i - 1 \in CallsOn(t, j) /\ i \in Nat
        BY DEF CallsOn
      <4>1. i \in Nat
        BY <2>4, <2>5
      <4>2. i - 1 \in DOMAIN stack[t] /\ stack'[t][i] = stack[t][i - 1]
        BY <2>2, <2>7, <2>12
      <4> QED BY <4>1, <4>2 DEF CallsOn
    <3>3. \A i \in CallsOn(t, j) : i + 1 \in CallsOn(t, j)'
      BY <2>3, <2>4, <2>5, SMTT(40) DEF CallsOn
    <3> QED BY <3>1, <3>2, <3>3
  <2>13. BusyMeansRunning'
    <3> SUFFICES ASSUME NEW j \in Protector
                 PROVE  /\ busy'[j] <=> \E u \in Thread : CallsOn(u, j)' # {}
                        /\ \A u, v \in Thread :
                              \A i \in CallsOn(u, j)', h \in CallsOn(v, j)' : u = v /\ i = h
      BY DEF BusyMeansRunning
    <3>1. CASE j = k
      <4>1. busy'[j] = TRUE
        BY <1>1, <1>3, <3>1 DEF TypeOK
      <4>2. CallsOn(t, j)' = {1} /\ \A u \in Thread : u # t => CallsOn(u, j)' = {}
        BY <2>11, <3>1
      <4>3. \E u \in Thread : CallsOn(u, j)' # {}
        BY <4>2
      <4>4. \A u \in Thread : \A i \in CallsOn(u, j)' : u = t /\ i = 1
        BY <4>2
      <4> QED BY <4>1, <4>3, <4>4
    <3>2. CASE j # k
      <4>1. busy'[j] = busy[j]
        BY <1>1, <1>3, <3>2 DEF TypeOK
      <4>2. \A u \in Thread : CallsOn(u, j)' # {} <=> CallsOn(u, j) # {}
        BY <2>12, <3>2
      <4>3. \A u, v \in Thread : \A i \in CallsOn(u, j), h \in CallsOn(v, j) : u = v /\ i = h
        BY <1>1 DEF BusyMeansRunning
      <4>4. busy[j] <=> \E u \in Thread : CallsOn(u, j) # {}
        BY <1>1 DEF BusyMeansRunning
      <4>5. ASSUME NEW u \in Thread, NEW v \in Thread,
                   NEW i \in CallsOn(u, j)', NEW h \in CallsOn(v, j)'
            PROVE  u = v /\ i = h
        <5>1. u = v
          BY <2>12, <3>2, <4>3
        <5>2. CASE u = t
          <6>1. i - 1 = h - 1 /\ i \in Nat /\ h \in Nat
            BY <2>12, <3>2, <4>3, <5>1, <5>2
          <6> QED BY <5>1, <6>1
        <5>3. CASE u # t
          BY <2>12, <3>2, <4>3, <5>1, <5>3
        <5> QED BY <5>2, <5>3
      <4> QED BY <4>1, <4>2, <4>4, <4>5
    <3> QED BY <3>1, <3>2
  <2>14. RaisedIsCause'
    BY <1>1, <1>3 DEF RaisedIsCause
  <2> QED BY <2>8, <2>9, <2>13, <2>14 DEF IInv
<1> QED BY <1>2, <1>3 DEF Enter

LEMMA ReturnKeeps ==
    ASSUME IInv, NEW t \in Thread, Return(t)
    PROVE  IInv'
<1>1. TypeOK /\ BusyMeansRunning /\ RaisedIsCause /\ FramesOK
  BY DEF IInv
<1>2. /\ stack[t] # <<>> /\ stack[t] \in Seq(Frame) /\ stack \in [Thread -> Seq(Frame)]
      /\ stack' = [stack EXCEPT ![t] = Tail(@)]
  BY <1>1 DEF Return, TypeOK
<1>3. PICK f \in Frame : f = Head(stack[t])
  BY <1>2, Innermost
<1>4. /\ FrameOK(f) /\ f.stage = "end"
      /\ outcome' = [outcome EXCEPT ![t] = Outcome(f, Raised(f))]
      /\ busy' = [busy EXCEPT ![f.protector] = FALSE]
  BY <1>2, <1>3, Innermost DEF Return
<1> DEFINE r == Tail(stack[t])
<1>5. /\ r \in Seq(Frame) /\ Len(r) = Len(stack[t]) - 1 /\ Len(stack[t]) \in Nat \ {0}
      /\ stack[t][1] = f /\ 1 \in DOMAIN stack[t]
      /\ \A i \in 1 .. Len(stack[t]) - 1 : r[i] = stack[t][i + 1]
  BY <1>2, <1>3, Popped
<1>6. /\ stack' \in [Thread -> Seq(Frame)] /\ stack'[t] = r
      /\ \A u \in Thread : u # t => stack'[u] = stack[u]
  BY <1>2, <1>5
<1> HIDE DEF r
<1>7. \A i \in DOMAIN r : i \in Nat /\ i + 1 \in DOMAIN stack[t] /\ r[i] = stack[t][i + 1]
  <2> SUFFICES ASSUME NEW i \in DOMAIN r
               PROVE  i \in Nat /\ i + 1 \in DOMAIN stack[t] /\ r[i] = stack[t][i + 1]
    OBVIOUS
  <2>1. i \in 1 .. Len(stack[t]) - 1 /\ i + 1 \in 1 .. Len(stack[t])
    BY <1>5
  <2> QED BY <1>2, <1>5, <2>1
<1>8. \A u \in Thread : \A i \in DOMAIN stack'[u] :
          \/ u = t /\ i + 1 \in DOMAIN stack[u] /\ stack'[u][i] = stack[u][i + 1]
          \/ u # t /\ i \in DOMAIN stack[u] /\ stack'[u][i] = stack[u][i]
  BY <1>6, <1>7
<1>9. TypeOK'
  <2>1. \A u \in Thread : Len(stack'[u]) <= MaxDepth
    <3> SUFFICES ASSUME NEW u \in Thread PROVE Len(stack'[u]) <= MaxDepth
      OBVIOUS
    <3>1. Len(stack[u]) <= MaxDepth
      BY <1>1 DEF TypeOK
    <3>2. CASE u = t
      <4>1. Len(stack'[u]) = Len(stack[t]) - 1
        BY <1>5, <1>6, <3>2
      <4> QED BY <1>5, <3>1, <3>2, <4>1, BoundAssumption
    <3>3. CASE u # t
      BY <1>6, <3>1, <3>3
    <3> QED BY <3>2, <3>3
  <2>2. \A u \in Thread : \A i \in DOMAIN stack'[u] : stack'[u][i].asking =>
            stack'[u][i].interactive /\ stack'[u][i].stage # "end"
    BY <1>1, <1>8 DEF TypeOK
  <2>3. busy' \in [Protector -> BOOLEAN]
    BY <1>1, <1>4 DEF TypeOK
  <2>4. outcome' \in [Thread -> [error : CoreError \cup {"none", "Busy"},
                                cause : Cancelled \cup Exception \cup {None},
                                raised : CoreError \cup {"none", "Busy"}
                                           \cup Cancelled \cup Exception]]
    <3>1. Outcome(f, Raised(f)) \in
              [error : CoreError \cup {"none", "Busy"},
               cause : Cancelled \cup Exception \cup {None},
               raised : CoreError \cup {"none", "Busy"} \cup Cancelled \cup Exception]
      BY DEF Outcome, Raised, Frame
    <3> QED BY <1>1, <1>4, <3>1 DEF TypeOK
  <2> QED BY <1>6, <2>1, <2>2, <2>3, <2>4 DEF TypeOK
<1>10. FramesOK'
  <2> SUFFICES ASSUME NEW u \in Thread, NEW i \in DOMAIN stack'[u]
               PROVE  FrameOK(stack'[u][i])
    BY DEF FramesOK, FrameOK, InteractionError
  <2> QED BY <1>1, <1>8 DEF FramesOK
<1>11. RaisedIsCause'
  <2>1. LET o == Outcome(f, Raised(f))
        IN  o.raised = IF o.cause # None THEN o.cause ELSE o.error
    BY <1>4 DEF Outcome, Raised, FrameOK
  <2> QED BY <1>1, <1>4, <2>1 DEF RaisedIsCause, TypeOK
<1>12. BusyMeansRunning'
  <2> SUFFICES ASSUME NEW j \in Protector
               PROVE  /\ busy'[j] <=> \E u \in Thread : CallsOn(u, j)' # {}
                      /\ \A u, v \in Thread :
                            \A i \in CallsOn(u, j)', h \in CallsOn(v, j)' : u = v /\ i = h
    BY DEF BusyMeansRunning
  <2>1. \A u, v \in Thread : \A i \in CallsOn(u, j), h \in CallsOn(v, j) : u = v /\ i = h
    BY <1>1 DEF BusyMeansRunning
  <2>2. busy[j] <=> \E u \in Thread : CallsOn(u, j) # {}
    BY <1>1 DEF BusyMeansRunning
  <2>3. \A u \in Thread : u # t => CallsOn(u, j)' = CallsOn(u, j)
    BY <1>6 DEF CallsOn
  <2>4. \A i \in CallsOn(t, j)' : i \in Nat /\ i + 1 \in CallsOn(t, j)
    BY <1>6, <1>7 DEF CallsOn
  <2>5. ASSUME NEW u \in Thread, NEW v \in Thread,
               NEW i \in CallsOn(u, j)', NEW h \in CallsOn(v, j)'
        PROVE  u = v /\ i = h
    <3>1. u = v
      BY <2>1, <2>3, <2>4
    <3>2. CASE u = t
      <4>1. i + 1 = h + 1 /\ i \in Nat /\ h \in Nat
        BY <2>1, <2>4, <3>1, <3>2
      <4> QED BY <3>1, <4>1
    <3>3. CASE u # t
      BY <2>1, <2>3, <3>1, <3>3
    <3> QED BY <3>2, <3>3
  <2>6. CASE j = f.protector
    <3>1. busy'[j] = FALSE
      BY <1>1, <1>4, <2>6 DEF TypeOK
    <3>2. 1 \in CallsOn(t, j)
      BY <1>5, <2>6 DEF CallsOn
    <3>3. CallsOn(t, j)' = {}
      <4> SUFFICES ASSUME NEW i \in CallsOn(t, j)' PROVE FALSE
        OBVIOUS
      <4>1. i \in Nat /\ i + 1 \in CallsOn(t, j) /\ i \in DOMAIN r
        BY <1>6, <2>4 DEF CallsOn
      <4>2. i + 1 = 1
        BY <2>1, <3>2, <4>1
      <4>3. i \in 1 .. Len(r)
        BY <1>5, <4>1
      <4> QED BY <4>2, <4>3
    <3>4. \A u \in Thread : u # t => CallsOn(u, j)' = {}
      BY <2>1, <2>3, <3>2
    <3> QED BY <2>5, <3>1, <3>3, <3>4
  <2>7. CASE j # f.protector
    <3>1. busy'[j] = busy[j]
      BY <1>1, <1>4, <2>7 DEF TypeOK
    <3>2. CallsOn(t, j) # {} => CallsOn(t, j)' # {}
      <4> SUFFICES ASSUME NEW i \in CallsOn(t, j) PROVE CallsOn(t, j)' # {}
        OBVIOUS
      <4>1. i \in 1 .. Len(stack[t]) /\ i # 1
        BY <1>2, <1>5, <2>7 DEF CallsOn
      <4>2. i - 1 \in 1 .. Len(stack[t]) - 1 /\ (i - 1) + 1 = i
        BY <1>5, <4>1
      <4>3. i - 1 \in DOMAIN r /\ r[i - 1] = stack[t][i]
        <5>1. DOMAIN r = 1 .. Len(stack[t]) - 1
          BY <1>5
        <5>2. r[i - 1] = stack[t][(i - 1) + 1]
          BY <1>5, <4>2
        <5> QED BY <4>2, <5>1, <5>2
      <4> QED BY <1>6, <4>3 DEF CallsOn
    <3>3. \A u \in Thread : CallsOn(u, j)' # {} <=> CallsOn(u, j) # {}
      BY <2>3, <2>4, <3>2
    <3> QED BY <2>2, <2>5, <3>1, <3>3
  <2> QED BY <2>6, <2>7
<1> QED BY <1>9, <1>10, <1>11, <1>12 DEF IInv

-----------------------------------------------------------------------------

LEMMA InitEstablishes == Init => IInv
<1> SUFFICES ASSUME Init PROVE IInv
  OBVIOUS
<1>1. \A t \in Thread : stack[t] = <<>> /\ DOMAIN stack[t] = {} /\ Len(stack[t]) = 0
  BY DEF Init
<1>2. TypeOK
  <2>1. stack \in [Thread -> Seq(Frame)] /\ busy \in [Protector -> BOOLEAN]
    BY DEF Init
  <2>2. Refused \in [error : CoreError \cup {"none", "Busy"},
                     cause : Cancelled \cup Exception \cup {None},
                     raised : CoreError \cup {"none", "Busy"}
                                \cup Cancelled \cup Exception]
    BY DEF Refused
  <2>3. \A t \in Thread : Len(stack[t]) <= MaxDepth
    BY <1>1, BoundAssumption
  <2> QED BY <1>1, <2>1, <2>2, <2>3 DEF Init, TypeOK
<1>3. BusyMeansRunning
  BY <1>1 DEF Init, BusyMeansRunning, CallsOn
<1>4. RaisedIsCause
  BY DEF Init, RaisedIsCause, Refused
<1> QED BY <1>1, <1>2, <1>3, <1>4 DEF IInv, FramesOK

LEMMA NextKeeps == IInv /\ [Next]_vars => IInv'
<1> SUFFICES ASSUME IInv, [Next]_vars PROVE IInv'
  OBVIOUS
<1>1. CASE Next
  <2>1. PICK t \in Thread :
            \/ \E k \in Protector : CallInteractive(t, k) \/ CallQuiet(t, k)
            \/ Ask(t) \/ Answer(t) \/ Raise(t) \/ Progress(t) \/ Return(t)
    BY <1>1 DEF Next
  <2>2. CASE \E k \in Protector : CallInteractive(t, k) \/ CallQuiet(t, k)
    BY <2>2, EnterKeeps DEF CallInteractive, CallQuiet
  <2> QED BY <2>1, <2>2, AskKeeps, AnswerKeeps, RaiseKeeps, ProgressKeeps, ReturnKeeps
<1>2. CASE UNCHANGED vars
  <2>1. TypeOK' /\ RaisedIsCause'
    BY <1>2 DEF vars, IInv, TypeOK, RaisedIsCause
  <2>2. BusyMeansRunning'
    BY <1>2 DEF vars, IInv, BusyMeansRunning, CallsOn
  <2>3. FramesOK'
    BY <1>2 DEF vars, IInv, FramesOK, FrameOK
  <2> QED BY <2>1, <2>2, <2>3 DEF IInv
<1> QED BY <1>1, <1>2

THEOREM InductiveInvariant == Spec => []IInv
BY InitEstablishes, NextKeeps, PTL DEF Spec

\* Every variable keeps its type, the nesting its bound, and a callback runs
\* only in a call that was given an interaction object and is not over.
THEOREM TypeCorrect == Spec => []TypeOK
<1>1. IInv => TypeOK
  BY DEF IInv
<1> QED BY <1>1, InductiveInvariant, PTL

\* Whatever threads and callbacks do, at most one call runs on a protector, and
\* its flag is set exactly while one does.
THEOREM OneCallAtATime == Spec => []BusyMeansRunning
<1>1. IInv => BusyMeansRunning
  BY DEF IInv
<1> QED BY <1>1, InductiveInvariant, PTL

\* The caller gets the exception that made its operation fail, and an error of
\* the core where none did or a failed cleanup took its place.
THEOREM CauseIsRaised == Spec => []RaisedIsCause
<1>1. IInv => RaisedIsCause
  BY DEF IInv
<1> QED BY <1>1, InductiveInvariant, PTL

-----------------------------------------------------------------------------
(***************************************************************************)
(* SecretBuffer: every bytearray passed as a secret is cleared, for every  *)
(* length of it, every limit and every length of a chunk.                  *)
(***************************************************************************)

\* Assigning n zeroes to a slice of n bytes that lies in the bytearray keeps its
\* size, clears the slice and leaves what precedes it.
LEMMA AssignClears ==
    ASSUME BufferTypeOK, NEW from \in Nat, NEW n \in Nat, from + n <= size,
           AssignZeroes(from, from + n, n)
    PROVE  /\ size' = size
           /\ byte' \in [0..(size - 1) -> {"secret", "zero"}]
           /\ \A i \in 0..(from - 1) : byte'[i] = byte[i]
           /\ \A i \in from..(from + n - 1) : byte'[i] = "zero"
<1> DEFINE end == IF from + n < size THEN from + n ELSE size
<1>1. size \in Nat /\ byte \in [0..(size - 1) -> {"secret", "zero"}]
    BY DEF BufferTypeOK
<1>2. end = from + n
    BY <1>1
<1>3. size' = size
    BY <1>1, <1>2 DEF AssignZeroes
<1>4. byte' = [i \in 0..(size - 1) |->
                 IF i < from THEN byte[i]
                 ELSE IF i < from + n THEN "zero" ELSE byte[i]]
  <2>1. size - (end - from) + n = size
      BY <1>1, <1>2
  <2>2. byte' = [i \in 0..(size - 1) |->
                   IF i < from THEN byte[i]
                   ELSE IF i < from + n THEN "zero" ELSE byte[i - n + (end - from)]]
      BY <2>1 DEF AssignZeroes
  <2>3. \A i \in 0..(size - 1) : i - n + (end - from) = i
      BY <1>1, <1>2
  <2> HIDE DEF end
  <2> QED
      BY <2>2, <2>3
<1> QED
    BY <1>1, <1>3, <1>4

\* A step keeps the invariant.
LEMMA BufferNextInvariant == BufferInv /\ [BufferNext]_bufferVars => BufferInv'
<1> SUFFICES ASSUME BufferInv, [BufferNext]_bufferVars PROVE BufferInv'
    OBVIOUS
<1> USE SizeAssumption
<1>0. /\ BufferTypeOK /\ ClearedSoFar
      /\ given \in Nat /\ start \in 0..given /\ size = given
    BY DEF BufferInv, BufferTypeOK, ClearedSoFar
<1>1. CASE Take
    BY <1>0, <1>1 DEF BufferInv, BufferTypeOK, ClearedSoFar, Take
<1>2. CASE FullChunk
  <2>1. ChunkLength \in Nat /\ start + ChunkLength <= size /\ start + ChunkLength \in 0..given
      BY <1>0, <1>2 DEF FullChunk, ChunkLength
  <2>2. AssignZeroes(start, start + ChunkLength, ChunkLength)
      BY <1>2 DEF FullChunk
  <2>3. /\ size' = size
        /\ byte' \in [0..(size - 1) -> {"secret", "zero"}]
        /\ \A i \in 0..(start - 1) : byte'[i] = byte[i]
        /\ \A i \in start..(start + ChunkLength - 1) : byte'[i] = "zero"
      BY <1>0, <2>1, <2>2, AssignClears
  <2>4. /\ pc = "wipe" /\ start' = start + ChunkLength
        /\ UNCHANGED <<kind, exact, given, pc, taken, result>>
      BY <1>2 DEF FullChunk
  <2>5. BufferTypeOK'
      BY <1>0, <2>1, <2>3, <2>4 DEF BufferTypeOK
  <2>6. \A i \in 0..(start' - 1) : byte'[i] = "zero"
    <3>1. \A i \in 0..(start - 1) : byte[i] = "zero"
        BY <1>0, <2>4 DEF ClearedSoFar
    <3>2. \A i \in 0..(start' - 1) : i \in 0..(start - 1) \/ i \in start..(start + ChunkLength - 1)
        BY <1>0, <2>1, <2>4
    <3> QED
        BY <2>3, <3>1, <3>2
  <2>7. ClearedSoFar'
      BY <1>0, <2>3, <2>4, <2>6 DEF ClearedSoFar
  <2> QED
      BY <2>5, <2>7 DEF BufferInv
<1>3. CASE Remainder
  <2>0. /\ pc = "wipe" /\ pc' = "accept"
        /\ UNCHANGED <<kind, exact, given, start, taken, result>>
        /\ exact
        /\ \A i \in 0..(start - 1) : byte[i] = "zero"
      BY <1>0, <1>3 DEF Remainder, ClearedSoFar
  <2>1. CASE start < given /\ AssignZeroes(start, given, given - start)
    <3> DEFINE n == given - start
    <3>1. n \in Nat /\ start + n = given
        BY <1>0, <2>1
    <3>2. /\ size' = size
          /\ byte' \in [0..(size - 1) -> {"secret", "zero"}]
          /\ \A i \in 0..(start - 1) : byte'[i] = byte[i]
          /\ \A i \in start..(given - 1) : byte'[i] = "zero"
      <4>1. AssignZeroes(start, start + n, n)
          BY <2>1, <3>1
      <4>2. start \in Nat /\ start + n <= size
          BY <1>0, <3>1
      <4> HIDE DEF n
      <4> QED
          BY <1>0, <3>1, <4>1, <4>2, AssignClears
    <3>3. \A i \in 0..(given - 1) : i \in 0..(start - 1) \/ i \in start..(given - 1)
        BY <1>0
    <3>4. \A i \in 0..(given - 1) : byte'[i] = "zero"
        BY <2>0, <3>2, <3>3
    <3> QED
        BY <1>0, <2>0, <3>2, <3>4 DEF BufferInv, BufferTypeOK, ClearedSoFar
  <2>2. CASE start >= given /\ UNCHANGED <<size, byte>>
    <3>1. start = given
        BY <1>0, <2>2
    <3> QED
        BY <1>0, <2>0, <2>2, <3>1 DEF BufferInv, BufferTypeOK, ClearedSoFar
  <2> QED
      BY <1>3, <2>1, <2>2 DEF Remainder
<1>4. CASE Accept
    BY <1>0, <1>4 DEF BufferInv, BufferTypeOK, ClearedSoFar, Accept
<1>5. CASE UNCHANGED bufferVars
    BY <1>5, BufferInv DEF BufferInv, BufferTypeOK, ClearedSoFar, bufferVars
<1> QED
    BY <1>1, <1>2, <1>3, <1>4, <1>5 DEF BufferNext

\* wipe_bytearray never resizes the bytearray, and what it has passed is zero.
THEOREM BufferInductiveInvariant == BufferSpec => []BufferInv
<1>1. BufferInit => BufferInv
    BY SizeAssumption DEF BufferInit, BufferInv, BufferTypeOK, ClearedSoFar
<1> QED
    BY <1>1, BufferNextInvariant, PTL DEF BufferSpec

\* Every bytearray passed as a secret is cleared over its whole length when the
\* call ends, whatever its length and whether or not its contents were accepted.
THEOREM SecretsCleared == BufferSpec => []SecretsAreCleared
<1>1. BufferInv => SecretsAreCleared
    BY DEF BufferInv, BufferTypeOK, ClearedSoFar, SecretsAreCleared
<1> QED
    BY <1>1, BufferInductiveInvariant, PTL
=============================================================================
