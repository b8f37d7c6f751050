------------------------ MODULE WorkflowEngineProofs ------------------------
(***************************************************************************)
(* The safety of runs that share a compilation, for any number of runs,    *)
(* any workflows of one name, any trees of steps and any properties.       *)
(***************************************************************************)
EXTENDS WorkflowEngine, WellFoundedInduction, TLAPS

Fields == {"pc", "of", "hash", "type", "compilation", "root", "stack", "contexts", "child", "value",
           "outcome", "above"}

Frames == [step : Steps, next : Nat \ {0}]

\* Before the steps of a run, and while it is in one of them.
Preparing == {"ready", "hash", "lookup", "compile", "remove", "bind"}
Walking == {"inherit", "predicate", "action", "return"}

\* What a run consists of.
RunInv(r) ==
  /\ DOMAIN run[r] = Fields
  /\ run[r].pc \in Preparing \cup Walking \cup {"enter", "done", "error", "thrown"}
  /\ run[r].stack \in Seq(Frames) /\ run[r].contexts \in Seq(Steps)
  /\ run[r].pc \in Walking => run[r].stack # <<>>
  /\ run[r].pc \in Preparing \cup {"done"} => run[r].stack = <<>>
  /\ run[r].root \in Nat \ {0}
  /\ DOMAIN run[r].above = Steps /\ DOMAIN run[r].outcome = Steps
  /\ run[r].pc \notin {"ready", "thrown"} => run[r].of \in Workflows
  /\ At(r, "bind") => run[r].compilation.of \in Workflows
  /\ At(r, "inherit") => run[r].child \in Steps

\* The definitions that went into a hash.
Hashed(hash) == [i \in DOMAIN hash |-> hash[i][1]]

\* Where the search for a property ends.
Stop(s, k) == OwnProperties[s][k] # None \/ Parent[s] = Root

\* A hash was once taken of the workflow: of its definitions, and of what its steps
\* had by then of the properties that they are to find.
TakenOf(hash, w) ==
  /\ Hashed(hash) = Definitions(w)
  /\ \A i \in DOMAIN PreOrder[w], k \in PropertyKeys :
       LET s == PreOrder[w][i]
       IN  /\ hash[i][2][k] \in {None, Inherited[s][k]}
           /\ Stop(s, k) => hash[i][2][k] = OwnProperties[s][k]

\* What is in the cache, and what a run looks for, was taken of its workflow.
CompileInv ==
  /\ cache # None => cache.of \in Workflows /\ TakenOf(cache.token, cache.of)
  /\ \A r \in Runs :
       run[r].pc \in {"lookup", "compile", "remove"} => TakenOf(run[r].hash, run[r].of)

\* The context of a run mirrors the calls it is in, and these are a path of the
\* tree; what got a result as a child is the step above.
PathInv(r) ==
  /\ Len(run[r].contexts) = Len(run[r].stack)
  /\ \A i \in 1..Len(run[r].stack) : run[r].contexts[i] = run[r].stack[i].step
  /\ \A i, j \in 1..Len(run[r].stack) :
       j = i + 1 => Parent[run[r].stack[j].step] = run[r].stack[i].step
  /\ At(r, "inherit") => Parent[run[r].child] = Top(r).step
  /\ \A s \in Steps : run[r].above[s] \in {None, Parent[s]}

\* What is added to a step is what it has to find, and stays; its own properties
\* are never replaced.
PropsInv ==
  /\ props \in [Steps -> [PropertyKeys -> PropertyValues \cup {None}]]
  /\ \A s \in Steps, k \in PropertyKeys :
       /\ props[s][k] \in {None, Inherited[s][k]}
       /\ OwnProperties[s][k] # None \/ Parent[s] = Root => props[s][k] = OwnProperties[s][k]

\* The steps that a run is in have all of it, down to the first that is damaged.
FoundInv(r) ==
  \A i \in 1..Len(run[r].stack) :
    (\A j \in 1..i : run[r].stack[j].step \notin clashed)
      => props[run[r].stack[i].step] = Inherited[run[r].stack[i].step]

Seen(x, s) == x.outcome[s] # "unseen"

\* A run x has left the step, or will in this call of RunStepAsync.
Closed(x, s) ==
  \/ \A i \in 1..Len(x.stack) : x.stack[i].step # s
  \/ x.pc = "return" /\ s = Last(x.stack).step

\* A child that does not end the step above it, given the steps that hold; and one
\* that the step comes to.
Passes(good, p, i) == ~Stops(Operator[Definition[p]], Kids[p][i] \in good)

Reached(good, p, i) == \A j \in 1..(i - 1) : Passes(good, p, j)

\* A step that was left holds as the schema says, and its children were processed up
\* to the one that ended it.
Settled(x, good, s) ==
  /\ s \in good <=>
       /\ x.outcome[s] = "true"
       /\ Operator[Definition[s]] = "And" => \A i \in DOMAIN Kids[s] : Kids[s][i] \in good
  /\ x.outcome[s] = "true" =>
       \A i \in DOMAIN Kids[s] : Seen(x, Kids[s][i]) <=> Reached(good, s, i)

\* A call that is among its children: the first ones, up to done, have passed, and
\* none from frame.next on was seen.
Progress(x, good, frame, done) ==
  /\ x.outcome[frame.step] = "true"
  /\ \A j \in DOMAIN Kids[frame.step] :
       /\ j <= done => Seen(x, Kids[frame.step][j]) /\ Passes(good, frame.step, j)
       /\ j >= frame.next => ~Seen(x, Kids[frame.step][j])

\* A call that is in one of its children.
Inside(x, good, frame, child) ==
  /\ frame.next - 1 \in DOMAIN Kids[frame.step] /\ child = Kids[frame.step][frame.next - 1]
  /\ Progress(x, good, frame, frame.next - 2)

\* The calls of RunStepAsync: each is in the next one, the first in a root.
CallsInv(x, good) ==
  /\ \A i, j \in 1..Len(x.stack) : x.stack[i].step = x.stack[j].step => i = j
  /\ \A i \in 1..(Len(x.stack) - 1) : Inside(x, good, x.stack[i], x.stack[i + 1].step)
  /\ x.stack # <<>> =>
       x.root - 1 \in DOMAIN Roots[x.of] /\ x.stack[1].step = Roots[x.of][x.root - 1]

\* The call on top.
TopInv(x, good) ==
  x.stack # <<>> =>
    LET top == Last(x.stack)
    IN  /\ x.pc = "inherit" => Inside(x, good, top, x.child) /\ ~Seen(x, x.child)
        /\ x.pc \in {"action", "enter"} => Progress(x, good, top, top.next - 1)
        /\ x.pc \in {"action", "predicate"} => top.next = 1
        /\ x.pc = "predicate" => ~Seen(x, top.step)
        /\ x.pc = "return" => Seen(x, top.step) /\ (x.value <=> top.step \in good)

\* What is seen is a root, of which all are seen in turn, or below a step that has
\* its children processed.
SeenInv(x) ==
  /\ \A s \in Steps :
       Seen(x, s) => \/ s \in Range(Roots[x.of])
                     \/ \E p \in Steps : x.outcome[p] = "true" /\ s \in Range(Kids[p])
  /\ \A i \in DOMAIN Roots[x.of] :
       Seen(x, Roots[x.of][i]) <=>
         i < x.root /\ ~(x.pc = "predicate" /\ Len(x.stack) = 1 /\ i = x.root - 1)

\* good are the steps that returned TRUE.
WalkInv(x, good) ==
  /\ CallsInv(x, good) /\ TopInv(x, good) /\ SeenInv(x)
  /\ \A s \in Steps : Closed(x, s) => Settled(x, good, s)

OperatorInv(x) ==
  /\ x.pc \in Preparing => x.root = 1 /\ \A s \in Steps : ~Seen(x, s)
  /\ x.pc \in Walking \cup {"enter", "done"} => \E good \in SUBSET Steps : WalkInv(x, good)
  /\ x.pc = "done" => x.root > Len(Roots[x.of])

-----------------------------------------------------------------------------
(* Sequences and the tree *)

\* What is left of a sequence without its last element.
LEMMA FrontOfSequence ==
  ASSUME NEW S, NEW s \in Seq(S)
  PROVE  /\ Front(s) \in Seq(S)
         /\ Len(Front(s)) = IF s = <<>> THEN 0 ELSE Len(s) - 1
         /\ \A i \in 1..Len(Front(s)) : i \in 1..Len(s) /\ Front(s)[i] = s[i]
BY DEF Front

\* The step above a child is the one that has it.
LEMMA ParentOfKid ==
  ASSUME NEW p \in Steps, NEW s \in Range(Kids[p])
  PROVE  s \in Steps /\ Parent[s] = p
<1>1. s \in Steps
  BY ConstantsAssumption DEF Range
<1>2. \A q \in Steps : s \in Range(Kids[q]) => q = p
  BY TreeAssumption
<1>3. QED
  BY <1>1, <1>2 DEF Parent

\* Nothing is above a step of Workflow.Steps.
LEMMA ParentOfRoot ==
  ASSUME NEW w \in Workflows, NEW s \in Range(Roots[w])
  PROVE  s \in Steps /\ Parent[s] = Root
<1>1. s \in Steps
  BY ConstantsAssumption DEF Range
<1>2. {p \in Steps : s \in Range(Kids[p])} = {}
  BY TreeAssumption
<1>3. QED
  BY <1>1, <1>2 DEF Parent

-----------------------------------------------------------------------------
(* What the steps of a run do to it *)

Keeps(r, fields) == \A f \in fields : run'[r][f] = run[r][f]

Walk == {"root", "stack", "contexts", "child", "outcome", "above"}

\* It looks for a compilation, or has got one, or throws.
Prepares(r) ==
  /\ run[r].pc \in Preparing
  /\ run'[r].pc \in Preparing \cup {"enter", "thrown"}
  /\ run'[r].pc \notin {"ready", "thrown"} => run'[r].of \in Workflows
  /\ run'[r].pc = "bind" => run'[r].compilation.of \in Workflows
  /\ Keeps(r, Walk)

EndsWorkflow(r) ==
  /\ At(r, "enter") /\ run'[r].pc = "done"
  /\ run[r].stack = <<>> /\ run[r].root > Len(Roots[run[r].of])
  /\ Keeps(r, Fields \ {"pc"})

StartsRoot(r, s) ==
  /\ At(r, "enter") /\ run'[r].pc = "predicate"
  /\ run[r].stack = <<>> /\ run[r].root <= Len(Roots[run[r].of]) /\ s = Roots[run[r].of][run[r].root]
  /\ run'[r].root = run[r].root + 1
  /\ run'[r].above = [run[r].above EXCEPT ![s] = Above(r)]
  /\ run'[r].stack = <<Frame(s)>> /\ run'[r].contexts = Append(run[r].contexts, s)
  /\ Keeps(r, {"of", "child", "outcome"})

EndsStep(r) ==
  /\ At(r, "enter") /\ run'[r].pc = "return"
  /\ run[r].stack # <<>> /\ Top(r).next > Len(Kids[Top(r).step])
  /\ run'[r].value = TRUE
  /\ Keeps(r, Fields \ {"pc", "value"})

StartsChild(r, s) ==
  /\ At(r, "enter") /\ run'[r].pc = "inherit"
  /\ run[r].stack # <<>> /\ Top(r).next <= Len(Kids[Top(r).step]) /\ s = Kids[Top(r).step][Top(r).next]
  /\ run'[r].child = s
  /\ run'[r].above = [run[r].above EXCEPT ![s] = Above(r)]
  /\ run'[r].stack = [run[r].stack EXCEPT ![Len(run[r].stack)].next = @ + 1]
  /\ Keeps(r, {"of", "root", "contexts", "outcome"})

EntersChild(r, s) ==
  /\ At(r, "inherit") /\ run'[r].pc = "predicate"
  /\ s = run[r].child
  /\ run'[r].stack = Append(run[r].stack, Frame(s)) /\ run'[r].contexts = Append(run[r].contexts, s)
  /\ Keeps(r, {"of", "root", "outcome", "above"})

GivesUp(r) ==
  /\ run[r].pc \in Walking /\ run'[r].pc = "error"
  /\ run'[r].stack = <<>> /\ run'[r].contexts = <<>>
  /\ DOMAIN run'[r].outcome = Steps
  /\ Keeps(r, {"of", "root", "above"})

\* What came of the predicate of the step on top: "true" lets it go on.
Decides(r, outcome) ==
  /\ At(r, "predicate")
  /\ \/ run'[r].pc \in {"action", "enter"} /\ outcome = "true"
     \/ run'[r].pc = "return" /\ outcome \in {"disabled", "false"} /\ run'[r].value = FALSE
  /\ run'[r].outcome = [run[r].outcome EXCEPT ![Top(r).step] = outcome]
  /\ Keeps(r, Fields \ {"pc", "value", "outcome"})

Acts(r) ==
  /\ At(r, "action") /\ run'[r].pc = "enter"
  /\ Keeps(r, Fields \ {"pc"})

StopsAbove(r) ==
  /\ Front(run[r].stack) # <<>>
  /\ Stops(Operator[Definition[Last(Front(run[r].stack)).step]], run[r].value)

Leaves(r) ==
  /\ At(r, "return") /\ run'[r].pc = IF StopsAbove(r) THEN "return" ELSE "enter"
  /\ run'[r].stack = Front(run[r].stack) /\ run'[r].contexts = Front(run[r].contexts)
  /\ Keeps(r, Fields \ {"pc", "stack", "contexts"})

Moves(r) ==
  \/ Prepares(r) \/ EndsWorkflow(r) \/ EndsStep(r) \/ GivesUp(r) \/ Acts(r) \/ Leaves(r)
  \/ \E s \in Steps : StartsRoot(r, s) \/ StartsChild(r, s) \/ EntersChild(r, s)
  \/ \E outcome \in {"true", "disabled", "false"} : Decides(r, outcome)

\* Every action of a run is one of these.
LEMMA StepsMove ==
  ASSUME DOMAIN run = Runs, NEW r \in Runs, RunInv(r),
         cache # None => cache.of \in Workflows,
         Step(r)
  PROVE  DOMAIN run'[r] = Fields /\ Moves(r)
<1> USE DEF RunInv, Fields, Preparing, Walking, Walk, At, Goes, Keeps, Moves
<1>1. ASSUME NEW w \in Workflows, NEW type \in InputTypes, RunAsync(r, w, type)
      PROVE  DOMAIN run'[r] = Fields /\ Prepares(r)
  BY <1>1 DEF RunAsync, Prepares
<1>0. ASSUME TakeHash(r) PROVE DOMAIN run'[r] = Fields /\ Prepares(r)
  <2>1. At(r, "hash")
    BY <1>0 DEF TakeHash
  <2>2. CASE run' = [run EXCEPT ![r] = [Goes(r, "lookup") EXCEPT !.hash = CalculateHash(run[r].of)]]
    <3>1. run'[r] = [Goes(r, "lookup") EXCEPT !.hash = CalculateHash(run[r].of)]
      BY <2>2
    <3>2. QED
      BY <2>1, <3>1 DEF Prepares
  <2>3. CASE Throws(r)
    <3>1. run'[r] = Goes(r, "thrown")
      BY <2>3 DEF Throws
    <3>2. QED
      BY <2>1, <3>1 DEF Prepares
  <2>4. QED
    BY <1>0, <2>2, <2>3 DEF TakeHash
<1>2. ASSUME Lookup(r) PROVE DOMAIN run'[r] = Fields /\ Prepares(r)
  BY <1>2 DEF Lookup, Prepares
<1>3. ASSUME Compile(r) PROVE DOMAIN run'[r] = Fields /\ Prepares(r)
  BY <1>3 DEF Compile, Compilation, Prepares
<1>4. ASSUME CompileFails(r) PROVE DOMAIN run'[r] = Fields /\ Prepares(r)
  BY <1>4 DEF CompileFails, Throws, Prepares
<1>14. ASSUME RemoveStale(r) PROVE DOMAIN run'[r] = Fields /\ Prepares(r)
  <2>1. At(r, "remove") /\ run'[r] = [Goes(r, "hash") EXCEPT !.hash = <<>>]
    BY <1>14 DEF RemoveStale
  <2>2. QED
    BY <2>1 DEF Prepares
<1>5. ASSUME BindArguments(r) PROVE DOMAIN run'[r] = Fields /\ Prepares(r)
  <2>1. At(r, "bind")
    BY <1>5 DEF BindArguments
  <2>2. CASE run[r].compilation.type = run[r].type
    <3>1. run'[r] = [Goes(r, "enter") EXCEPT !.of = run[r].compilation.of, !.hash = <<>>, !.type = None,
                                             !.compilation = None]
      BY <1>5, <2>2 DEF BindArguments
    <3>2. QED
      BY <2>1, <3>1 DEF Prepares
  <2>3. CASE run[r].compilation.type # run[r].type
    <3>1. run'[r] = Goes(r, "thrown")
      BY <1>5, <2>3 DEF BindArguments, Throws
    <3>2. QED
      BY <2>1, <3>1 DEF Prepares
  <2>4. QED
    BY <2>2, <2>3
<1>6. ASSUME EnterRoot(r) PROVE DOMAIN run'[r] = Fields /\ Moves(r)
  <2> DEFINE roots == Roots[run[r].of]
             s == roots[run[r].root]
  <2>1. At(r, "enter") /\ run[r].stack = <<>> /\ run[r].of \in Workflows
    BY <1>6 DEF EnterRoot
  <2>2. CASE run[r].root > Len(roots)
    <3>1. run'[r] = Goes(r, "done")
      BY <1>6, <2>2 DEF EnterRoot
    <3>2. QED
      BY <2>1, <2>2, <3>1 DEF EndsWorkflow
  <2>3. CASE ~(run[r].root > Len(roots))
    <3>1. run'[r] = [Goes(r, "predicate") EXCEPT !.root = run[r].root + 1, !.above[s] = Above(r),
                                                 !.stack = <<Frame(s)>>,
                                                 !.contexts = Append(run[r].contexts, s)]
      BY <1>6, <2>3 DEF EnterRoot
    <3>2. roots \in Seq(Steps) /\ run[r].root <= Len(roots)
      BY <2>1, <2>3, ConstantsAssumption
    <3>3. s \in Steps
      BY <3>2
    <3>4. StartsRoot(r, s)
      BY <2>1, <3>1, <3>2 DEF StartsRoot
    <3>5. QED
      BY <3>1, <3>3, <3>4
  <2>4. QED
    BY <2>2, <2>3
<1>7. ASSUME EnterChild(r) PROVE DOMAIN run'[r] = Fields /\ Moves(r)
  <2> DEFINE kids == Kids[Top(r).step]
             s == kids[Top(r).next]
             stack == run[r].stack
  <2>1. At(r, "enter") /\ stack # <<>> /\ Top(r) \in Frames
    BY <1>7 DEF EnterChild, Top, Last
  <2>2. CASE Top(r).next > Len(kids)
    <3>1. run'[r] = [Goes(r, "return") EXCEPT !.value = TRUE]
      BY <1>7, <2>2 DEF EnterChild
    <3>2. QED
      BY <2>1, <2>2, <3>1 DEF EndsStep
  <2>3. CASE ~(Top(r).next > Len(kids))
    <3>1. run'[r] = [Goes(r, "inherit") EXCEPT !.child = s, !.above[s] = Above(r),
                                               !.stack[Len(stack)].next = @ + 1]
      BY <1>7, <2>3 DEF EnterChild
    <3>2. kids \in Seq(Steps) /\ Top(r).next <= Len(kids) /\ Top(r).next \in Nat \ {0}
      BY <2>1, <2>3, ConstantsAssumption DEF Frames
    <3>3. s \in Steps
      BY <3>2
    <3>4. StartsChild(r, s)
      BY <2>1, <3>1, <3>2 DEF StartsChild
    <3>5. QED
      BY <3>1, <3>3, <3>4
  <2>4. QED
    BY <2>2, <2>3, SMTT(30)
<1>8. ASSUME Inherit(r) PROVE DOMAIN run'[r] = Fields /\ Moves(r)
  BY <1>8 DEF Inherit, EntersChild
<1>9. ASSUME InheritThrows(r) PROVE DOMAIN run'[r] = Fields /\ GivesUp(r)
  BY <1>9 DEF InheritThrows, Fails, GivesUp
<1>10. ASSUME Skip(r) PROVE DOMAIN run'[r] = Fields /\ Moves(r)
  BY <1>10 DEF Skip, Returns, Decides
<1>11. ASSUME Predicate(r) PROVE DOMAIN run'[r] = Fields /\ Moves(r)
  <2> DEFINE s == Top(r).step
  <2>1. At(r, "predicate")
    BY <1>11 DEF Predicate
  <2>2. ASSUME NEW place \in {"action", "enter"},
               run' = [run EXCEPT ![r] = [Goes(r, place) EXCEPT !.outcome[s] = "true"]]
        PROVE  DOMAIN run'[r] = Fields /\ Decides(r, "true")
    BY <2>1, <2>2 DEF Decides
  <2>3. CASE run' = [run EXCEPT ![r] = Returns(r, "false")]
    BY <2>1, <2>3 DEF Decides, Returns
  <2>4. CASE run' = [run EXCEPT ![r] = [Fails(r) EXCEPT !.outcome[s] = "failed"]]
    BY <2>1, <2>4 DEF GivesUp, Fails
  <2>5. QED
    BY <1>11, <2>2, <2>3, <2>4 DEF Predicate
<1>12. ASSUME ActionEnds(r) PROVE DOMAIN run'[r] = Fields /\ Moves(r)
  <2> DEFINE s == Top(r).step
  <2>1. At(r, "action")
    BY <1>12 DEF ActionEnds
  <2>2. CASE run' = [run EXCEPT ![r] = Goes(r, "enter")]
    BY <2>1, <2>2 DEF Acts
  <2>3. CASE run' = [run EXCEPT ![r] = [Fails(r) EXCEPT !.outcome[s] = "failed"]]
    BY <2>1, <2>3 DEF GivesUp, Fails
  <2>4. QED
    BY <1>12, <2>2, <2>3 DEF ActionEnds
<1>13. ASSUME Return(r) PROVE DOMAIN run'[r] = Fields /\ Moves(r)
  BY <1>13, Zenon DEF Return, ExitStep, Leaves, StopsAbove
<1>15. QED
  BY <1>0, <1>1, <1>2, <1>3, <1>4, <1>14, <1>5, <1>6, <1>7, <1>8, <1>9, <1>10, <1>11, <1>12, <1>13 DEF Step

\* A step of one run leaves the others where they are.
LEMMA OthersStay ==
  ASSUME DOMAIN run = Runs, NEW r \in Runs, Step(r)
  PROVE  DOMAIN run' = Runs /\ \A q \in Runs : q # r => run'[q] = run[q]
BY Zenon DEF Step, RunAsync, TakeHash, Throws, Lookup, Compile, CompileFails, RemoveStale, BindArguments, EnterRoot, EnterChild,
       Inherit, InheritThrows, Skip, Predicate, ActionEnds, Return

\* The stack after its top frame went on to the next child.
LEMMA NextOnTop ==
  ASSUME NEW stack \in Seq(Frames), stack # <<>>,
         NEW next, next = [stack EXCEPT ![Len(stack)].next = @ + 1]
  PROVE  /\ next \in Seq(Frames) /\ Len(next) = Len(stack)
         /\ \A i \in 1..Len(stack) :
              next[i].step = stack[i].step /\ (i # Len(stack) => next[i] = stack[i])
         /\ next[Len(stack)].next = stack[Len(stack)].next + 1
<1> DEFINE n == Len(stack)
           top == [stack[n] EXCEPT !.next = @ + 1]
<1>1. n \in 1..Len(stack) /\ stack[n] \in Frames
  OBVIOUS
<1>2. top \in Frames /\ top.step = stack[n].step /\ top.next = stack[n].next + 1
  BY <1>1, SMTT(30) DEF Frames
<1>3. next = [stack EXCEPT ![n] = top]
  OBVIOUS
<1> HIDE DEF top
<1>4. next \in Seq(Frames) /\ Len(next) = Len(stack)
      /\ \A i \in 1..Len(stack) : next[i] = IF i = n THEN top ELSE stack[i]
  BY <1>1, <1>2, <1>3
<1>5. QED
  BY <1>1, <1>2, <1>4

\* A run stays what it consists of.
LEMMA RunStep ==
  ASSUME NEW r \in Runs, RunInv(r), DOMAIN run'[r] = Fields, Moves(r)
  PROVE  RunInv(r)'
<1> USE DEF RunInv, Fields, Walk, At, Keeps, Preparing, Walking
<1>1. CASE Prepares(r)
  BY <1>1 DEF Prepares
<1>2. CASE EndsWorkflow(r)
  BY <1>2 DEF EndsWorkflow
<1>3. CASE EndsStep(r)
  BY <1>3 DEF EndsStep
<1>4. CASE GivesUp(r)
  BY <1>4 DEF GivesUp
<1>5. CASE Acts(r)
  BY <1>5 DEF Acts
<1>6. CASE Leaves(r)
  <2>1. /\ run'[r].stack \in Seq(Frames) /\ run'[r].contexts \in Seq(Steps)
        /\ StopsAbove(r) => run'[r].stack # <<>>
    BY <1>6, FrontOfSequence DEF Leaves, StopsAbove
  <2>2. QED
    BY <1>6, <2>1 DEF Leaves
<1>7. ASSUME NEW s \in Steps, StartsRoot(r, s) PROVE RunInv(r)'
  <2>1. Frame(s) \in Frames
    BY DEF Frame, Frames
  <2>2. run'[r].stack \in Seq(Frames) /\ run'[r].stack # <<>> /\ run'[r].contexts \in Seq(Steps)
    BY <1>7, <2>1 DEF StartsRoot
  <2>3. QED
    BY <1>7, <2>2 DEF StartsRoot
<1>8. ASSUME NEW s \in Steps, StartsChild(r, s) PROVE RunInv(r)'
  <2>1. run'[r].stack \in Seq(Frames) /\ run'[r].stack # <<>>
    <3>1. /\ run'[r].stack = [run[r].stack EXCEPT ![Len(run[r].stack)].next = @ + 1]
          /\ run[r].stack # <<>> /\ run[r].stack \in Seq(Frames)
      BY <1>8 DEF StartsChild
    <3>2. run'[r].stack \in Seq(Frames) /\ Len(run'[r].stack) = Len(run[r].stack)
      BY <3>1, NextOnTop
    <3>3. QED
      BY <3>1, <3>2
  <2>2. QED
    BY <1>8, <2>1 DEF StartsChild
<1>9. ASSUME NEW s \in Steps, EntersChild(r, s) PROVE RunInv(r)'
  <2>1. Frame(s) \in Frames
    BY DEF Frame, Frames
  <2>2. run'[r].stack \in Seq(Frames) /\ run'[r].stack # <<>> /\ run'[r].contexts \in Seq(Steps)
    BY <1>9, <2>1, SMTT(30) DEF EntersChild
  <2>3. QED
    BY <1>9, <2>2 DEF EntersChild
<1>10. ASSUME NEW outcome \in {"true", "disabled", "false"}, Decides(r, outcome) PROVE RunInv(r)'
  BY <1>10 DEF Decides
<1>11. QED
  BY <1>1, <1>2, <1>3, <1>4, <1>5, <1>6, <1>7, <1>8, <1>9, <1>10 DEF Moves

\* The walk stays on a path of the tree, down to a child and up again.
LEMMA PathStep ==
  ASSUME NEW r \in Runs, RunInv(r), PathInv(r), DOMAIN run'[r] = Fields, Moves(r)
  PROVE  PathInv(r)'
<1> DEFINE x == run[r]
           n == Len(x.stack)
<1>1. x.stack \in Seq(Frames) /\ x.contexts \in Seq(Steps) /\ n \in Nat
  BY DEF RunInv
<1>2. ASSUME NEW i \in 1..n PROVE x.stack[i].step \in Steps /\ x.stack[i].next \in Nat \ {0}
  <2>1. x.stack[i] \in Frames
    BY <1>1
  <2>2. QED
    BY <2>1 DEF Frames
<1>3. Top(r) = x.stack[n] /\ (x.stack # <<>> => n \in 1..n)
  BY <1>1 DEF Top, Last
<1>4. ASSUME Keeps(r, {"stack", "contexts", "above"}), run'[r].pc # "inherit" PROVE PathInv(r)'
  BY <1>4, SMTT(30) DEF PathInv, Keeps, At
<1> USE DEF Fields, Walk, At, Keeps, Preparing, Walking
<1>5. CASE Prepares(r)
  BY <1>4, <1>5 DEF Prepares
<1>6. CASE EndsWorkflow(r) \/ EndsStep(r) \/ Acts(r)
  BY <1>4, <1>6 DEF EndsWorkflow, EndsStep, Acts
<1>7. CASE GivesUp(r)
  BY <1>7 DEF GivesUp, PathInv
<1>8. CASE Leaves(r)
  <2>1. /\ Len(Front(x.contexts)) = Len(Front(x.stack))
        /\ \A i \in 1..Len(Front(x.stack)) :
             /\ i \in 1..n
             /\ Front(x.stack)[i] = x.stack[i] /\ Front(x.contexts)[i] = x.contexts[i]
    <3>1. Len(x.contexts) = n
      BY DEF PathInv
    <3>2. x.contexts = <<>> <=> x.stack = <<>>
      BY <1>1, <3>1
    <3>3. Len(Front(x.contexts)) = Len(Front(x.stack))
      BY <1>1, <3>1, <3>2, FrontOfSequence
    <3>4. QED
      BY <1>1, <3>3, FrontOfSequence
  <2>2. /\ run'[r].stack = Front(x.stack) /\ run'[r].contexts = Front(x.contexts)
        /\ run'[r].above = x.above /\ run'[r].pc # "inherit"
    BY <1>8 DEF Leaves
  <2>3. Len(Front(x.stack)) \in Nat
    BY <1>1, FrontOfSequence
  <2> DEFINE m == Len(Front(x.stack))
  <2>4. \A i \in 1..m : Front(x.contexts)[i] = Front(x.stack)[i].step
    BY <2>1 DEF PathInv
  <2>5. \A i, j \in 1..m : j = i + 1 => Parent[Front(x.stack)[j].step] = Front(x.stack)[i].step
    BY <2>1, SMTT(30) DEF PathInv
  <2>6. QED
    BY <2>1, <2>2, <2>4, <2>5 DEF PathInv
<1>9. ASSUME NEW s \in Steps, StartsRoot(r, s) PROVE PathInv(r)'
  <2>1. x.contexts = <<>> /\ Above(r) = Root
    BY <1>1, <1>9 DEF StartsRoot, Above, PathInv
  <2>2. s \in Range(Roots[x.of]) /\ x.of \in Workflows
    BY <1>9, ConstantsAssumption DEF StartsRoot, RunInv, Range
  <2>3. Parent[s] = Root
    BY <2>2, ParentOfRoot
  <2>4. run'[r].stack = <<Frame(s)>> /\ run'[r].contexts = <<s>> /\ Frame(s).step = s
    BY <1>9, <2>1 DEF StartsRoot, Frame
  <2>5. \A q \in Steps : run'[r].above[q] \in {None, Parent[q]}
    BY <1>9, <2>1, <2>3 DEF StartsRoot, RunInv, PathInv
  <2>6. Len(run'[r].stack) = 1 /\ Len(run'[r].contexts) = 1
    BY <2>4
  <2>7. /\ \A i \in 1..1 : run'[r].contexts[i] = run'[r].stack[i].step
        /\ \A i, j \in 1..1 : j # i + 1
    BY <2>4
  <2>8. run'[r].pc # "inherit"
    BY <1>9 DEF StartsRoot
  <2>9. QED
    BY <2>5, <2>6, <2>7, <2>8 DEF PathInv
<1>10. ASSUME NEW s \in Steps, StartsChild(r, s) PROVE PathInv(r)'
  <2>1. n \in 1..n /\ Top(r) = x.stack[n]
    BY <1>3, <1>10, Zenon DEF StartsChild
  <2>2. s \in Range(Kids[Top(r).step])
    <3>1. Top(r).next \in Nat \ {0} /\ Kids[Top(r).step] \in Seq(Steps)
      BY <1>2, <2>1, ConstantsAssumption
    <3>2. Top(r).next \in DOMAIN Kids[Top(r).step]
      BY <1>10, <3>1 DEF StartsChild
    <3>3. QED
      BY <1>10, <3>2 DEF StartsChild, Range
  <2>3. Parent[s] = Top(r).step
    BY <1>2, <2>1, <2>2, ParentOfKid
  <2>4. Above(r) = Top(r).step
    BY <1>1, <2>1 DEF Above, PathInv, Last
  <2>5. \A q \in Steps : run'[r].above[q] \in {None, Parent[q]}
    BY <1>10, <2>3, <2>4 DEF StartsChild, RunInv, PathInv
  <2>6. /\ run'[r].stack \in Seq(Frames) /\ Len(run'[r].stack) = n
        /\ \A i \in 1..n : run'[r].stack[i].step = x.stack[i].step
    <3>1. run'[r].stack = [x.stack EXCEPT ![n].next = @ + 1] /\ x.stack # <<>>
      BY <1>10 DEF StartsChild
    <3> HIDE DEF x
    <3>2. QED
      BY <1>1, <3>1, NextOnTop
  <2>7. Parent[s] = run'[r].stack[n].step
    BY <2>1, <2>3, <2>6
  <2>8. run'[r].child = s /\ run'[r].contexts = x.contexts
    BY <1>10 DEF StartsChild
  <2>9. Parent[run'[r].child] = Last(run'[r].stack).step
    BY <2>6, <2>7, <2>8 DEF Last
  <2>10. /\ Len(x.contexts) = n /\ \A i \in 1..n : x.contexts[i] = x.stack[i].step
         /\ \A i, j \in 1..n : j = i + 1 => Parent[x.stack[j].step] = x.stack[i].step
    BY DEF PathInv
  <2> HIDE DEF x, n
  <2>11. /\ Len(run'[r].contexts) = Len(run'[r].stack)
         /\ \A i \in 1..Len(run'[r].stack) : run'[r].contexts[i] = run'[r].stack[i].step
         /\ \A i, j \in 1..Len(run'[r].stack) :
              j = i + 1 => Parent[run'[r].stack[j].step] = run'[r].stack[i].step
    BY <2>6, <2>8, <2>10, ZenonT(30)
  <2>12. QED
    BY <2>5, <2>9, <2>11 DEF PathInv, Top
<1>11. ASSUME NEW s \in Steps, EntersChild(r, s) PROVE PathInv(r)'
  <2>1. n \in 1..n /\ Parent[s] = x.stack[n].step
    BY <1>3, <1>11 DEF EntersChild, RunInv, PathInv
  <2>2. Frame(s) \in Frames /\ Frame(s).step = s
    BY DEF Frame, Frames
  <2> HIDE DEF x
  <2>3. /\ run'[r].stack = Append(x.stack, Frame(s)) /\ run'[r].contexts = Append(x.contexts, s)
        /\ run'[r].above = x.above /\ run'[r].pc = "predicate"
    BY <1>11 DEF EntersChild, x
  <2>4. /\ Len(run'[r].stack) = n + 1 /\ Len(run'[r].contexts) = n + 1
        /\ \A i \in 1..n : run'[r].stack[i] = x.stack[i] /\ run'[r].contexts[i] = x.contexts[i]
        /\ run'[r].stack[n + 1] = Frame(s) /\ run'[r].contexts[n + 1] = s
    <3>1. Len(x.contexts) = n
      BY DEF x, PathInv
    <3>2. QED
      BY <1>1, <2>2, <2>3, <3>1
  <2>5. \A i \in 1..(n + 1) : i \in 1..n \/ i = n + 1
    BY <1>1
  <2>6. \A i \in 1..(n + 1) : run'[r].contexts[i] = run'[r].stack[i].step
    BY <2>2, <2>4, <2>5 DEF x, PathInv
  <2>7. \A i, j \in 1..(n + 1) : j = i + 1 => Parent[run'[r].stack[j].step] = run'[r].stack[i].step
    <3> SUFFICES ASSUME NEW i \in 1..(n + 1), NEW j \in 1..(n + 1), j = i + 1
                 PROVE  Parent[run'[r].stack[j].step] = run'[r].stack[i].step
      OBVIOUS
    <3>1. i \in 1..n
      BY <1>1
    <3>2. CASE j \in 1..n
      <4>1. Parent[x.stack[j].step] = x.stack[i].step
        BY <3>1, <3>2 DEF x, PathInv
      <4>2. QED
        BY <2>4, <3>1, <3>2, <4>1
    <3>3. CASE j = n + 1
      <4>1. i = n
        BY <1>1, <3>3
      <4>2. QED
        BY <2>1, <2>2, <2>4, <3>1, <3>3, <4>1
    <3>4. QED
      BY <2>5, <3>2, <3>3
  <2>8. QED
    BY <2>3, <2>4, <2>6, <2>7 DEF x, PathInv
<1>12. ASSUME NEW outcome \in {"true", "disabled", "false"}, Decides(r, outcome) PROVE PathInv(r)'
  BY <1>4, <1>12 DEF Decides
<1>13. QED
  BY <1>5, <1>6, <1>7, <1>8, <1>9, <1>10, <1>11, <1>12 DEF Moves

-----------------------------------------------------------------------------
(* Properties *)

InheritedFrom(f) ==
  [s \in Steps |->
     [k \in PropertyKeys |->
        IF OwnProperties[s][k] # None \/ Parent[s] = Root THEN OwnProperties[s][k] ELSE f[Parent[s]][k]]]

\* Where the search for a property ends when it starts at s and goes up, in any number of steps.
Sources(s, k) ==
  {q \in Steps : \E n \in Nat : \E c \in [0..n -> Steps] :
     /\ c[0] = s /\ c[n] = q
     /\ \A i \in 0..(n - 1) : ~Stop(c[i], k) /\ c[i + 1] = Parent[c[i]]
     /\ Stop(q, k)}

\* A step is below its parent, if it has one.
LEMMA ParentIsStep == \A s \in Steps : Parent[s] \in Steps \cup {Root}
BY DEF Parent

\* The search from a step goes on from the step above, unless it ends there.
LEMMA SourcesAbove ==
  ASSUME NEW s \in Steps, NEW k \in PropertyKeys, ~Stop(s, k)
  PROVE  Sources(s, k) = Sources(Parent[s], k)
<1>1. Parent[s] \in Steps
  BY ParentIsStep DEF Stop
<1>2. ASSUME NEW q \in Sources(s, k) PROVE q \in Sources(Parent[s], k)
  <2> DEFINE Up(n, c) == /\ c[0] = s /\ c[n] = q
                         /\ \A i \in 0..(n - 1) : ~Stop(c[i], k) /\ c[i + 1] = Parent[c[i]]
                         /\ Stop(q, k)
  <2>1. PICK n \in Nat : \E c \in [0..n -> Steps] : Up(n, c)
    BY <1>2 DEF Sources
  <2>2. PICK c \in [0..n -> Steps] : Up(n, c)
    BY <2>1
  <2>3. n # 0
    BY <2>2
  <2> DEFINE m == n - 1
             d == [i \in 0..m |-> c[i + 1]]
  <2>4. m \in Nat /\ d \in [0..m -> Steps]
    BY <2>3
  <2>5. d[0] = Parent[s] /\ d[m] = q
    BY <2>2, <2>3
  <2>6. \A i \in 0..(m - 1) : ~Stop(d[i], k) /\ d[i + 1] = Parent[d[i]]
    <3> SUFFICES ASSUME NEW i \in 0..(m - 1) PROVE ~Stop(d[i], k) /\ d[i + 1] = Parent[d[i]]
      OBVIOUS
    <3>1. i + 1 \in 0..(n - 1) /\ i \in 0..m /\ i + 1 \in 0..m
      BY <2>3
    <3>2. d[i] = c[i + 1] /\ d[i + 1] = c[(i + 1) + 1]
      BY <3>1
    <3> HIDE DEF d
    <3>3. QED
      BY <2>2, <3>1, <3>2
  <2> HIDE DEF d, m
  <2>7. q \in Steps
    BY <1>2 DEF Sources
  <2>8. QED
    BY <2>2, <2>4, <2>5, <2>6, <2>7 DEF Sources
<1>3. ASSUME NEW q \in Sources(Parent[s], k) PROVE q \in Sources(s, k)
  <2> DEFINE Up(n, c) == /\ c[0] = Parent[s] /\ c[n] = q
                         /\ \A i \in 0..(n - 1) : ~Stop(c[i], k) /\ c[i + 1] = Parent[c[i]]
                         /\ Stop(q, k)
  <2>1. PICK n \in Nat : \E c \in [0..n -> Steps] : Up(n, c)
    BY <1>3 DEF Sources
  <2>2. PICK c \in [0..n -> Steps] : Up(n, c)
    BY <2>1
  <2> DEFINE m == n + 1
             d == [i \in 0..m |-> IF i = 0 THEN s ELSE c[i - 1]]
  <2>3. m \in Nat /\ d \in [0..m -> Steps]
    OBVIOUS
  <2>4. d[0] = s /\ d[m] = q
    BY <2>2
  <2>5. \A i \in 0..(m - 1) : ~Stop(d[i], k) /\ d[i + 1] = Parent[d[i]]
    <3> SUFFICES ASSUME NEW i \in 0..(m - 1) PROVE ~Stop(d[i], k) /\ d[i + 1] = Parent[d[i]]
      OBVIOUS
    <3>1. d[i + 1] = c[i] /\ d[i] = IF i = 0 THEN s ELSE c[i - 1]
      OBVIOUS
    <3> HIDE DEF d
    <3>2. CASE i = 0
      BY <2>2, <3>1, <3>2
    <3>3. CASE i # 0
      <4>1. i - 1 \in 0..(n - 1) /\ (i - 1) + 1 = i
        BY <3>3
      <4>2. QED
        BY <2>2, <3>1, <3>3, <4>1
    <3>4. QED
      BY <3>2, <3>3
  <2> HIDE DEF d, m
  <2>6. q \in Steps
    BY <1>3 DEF Sources
  <2>7. QED
    BY <2>2, <2>3, <2>4, <2>5, <2>6 DEF Sources
<1>4. QED
  BY <1>2, <1>3

\* The search that ends at once.
LEMMA SourcesHere ==
  ASSUME NEW s \in Steps, NEW k \in PropertyKeys, Stop(s, k)
  PROVE  Sources(s, k) = {s}
<1>1. s \in Sources(s, k)
  <2> DEFINE c == [i \in 0..0 |-> s]
  <2>1. c \in [0..0 -> Steps] /\ c[0] = s
    OBVIOUS
  <2> HIDE DEF c
  <2>2. \A i \in 0..(0 - 1) : ~Stop(c[i], k) /\ c[i + 1] = Parent[c[i]]
    OBVIOUS
  <2>3. \E n \in Nat : \E d \in [0..n -> Steps] :
          /\ d[0] = s /\ d[n] = s
          /\ \A i \in 0..(n - 1) : ~Stop(d[i], k) /\ d[i + 1] = Parent[d[i]]
          /\ Stop(s, k)
    BY <2>1, <2>2, Zenon
  <2>4. QED
    BY <2>3 DEF Sources
<1>2. ASSUME NEW q \in Sources(s, k) PROVE q = s
  <2>1. PICK n \in Nat : \E c \in [0..n -> Steps] :
          /\ c[0] = s /\ c[n] = q
          /\ \A i \in 0..(n - 1) : ~Stop(c[i], k)
    BY <1>2 DEF Sources
  <2>2. n = 0
    BY <2>1
  <2>3. QED
    BY <2>1, <2>2
<1>3. QED
  BY <1>1, <1>2

\* The properties a step has to find are well defined, whatever the tree is.
LEMMA InheritedDef == Inherited = InheritedFrom(Inherited)
<1> DEFINE Found(s, k) == IF Sources(s, k) = {} THEN None
                          ELSE OwnProperties[CHOOSE q \in Sources(s, k) : TRUE][k]
           f == [s \in Steps |-> [k \in PropertyKeys |-> Found(s, k)]]
<1>1. ASSUME NEW s \in Steps, NEW k \in PropertyKeys
      PROVE  Found(s, k) = IF Stop(s, k) THEN OwnProperties[s][k] ELSE f[Parent[s]][k]
  <2>1. CASE Stop(s, k)
    BY <2>1, SourcesHere
  <2>2. CASE ~Stop(s, k)
    <3>1. Parent[s] \in Steps
      BY <2>2, ParentIsStep DEF Stop
    <3>2. Found(s, k) = Found(Parent[s], k)
      <4>1. Sources(s, k) = Sources(Parent[s], k)
        BY <2>2, SourcesAbove
      <4>2. QED
        BY <4>1
    <3>3. QED
      BY <2>2, <3>1, <3>2
  <2>3. QED
    BY <2>1, <2>2
<1> HIDE DEF Found
<1>2. f = InheritedFrom(f)
  BY <1>1 DEF InheritedFrom, Stop
<1> HIDE DEF f
<1>3. QED
  BY <1>2, Zenon DEF Inherited, InheritedFrom

\* What a step has to find, key by key.
LEMMA InheritedValue ==
  ASSUME NEW s \in Steps
  PROVE  /\ Inherited[s] = [k \in PropertyKeys |-> Inherited[s][k]]
         /\ \A k \in PropertyKeys :
              Inherited[s][k] = IF OwnProperties[s][k] # None \/ Parent[s] = Root THEN OwnProperties[s][k]
                                ELSE Inherited[Parent[s]][k]
<1> DEFINE value(t) == [k \in PropertyKeys |->
                          IF OwnProperties[t][k] # None \/ Parent[t] = Root THEN OwnProperties[t][k]
                          ELSE Inherited[Parent[t]][k]]
<1>1. Inherited = [t \in Steps |-> value(t)]
  BY InheritedDef DEF InheritedFrom
<1>2. Inherited[s] = value(s)
  BY <1>1
<1>3. QED
  BY <1>2

\* The end of EnterStep adds what belongs to the child, and nothing else changes
\* properties.
LEMMA PropsStep ==
  ASSUME PropsInv, \A r \in Runs : RunInv(r) /\ PathInv(r), [Next]_vars
  PROVE  /\ PropsInv'
         /\ \A s \in Steps, k \in PropertyKeys : props[s][k] # None => props'[s][k] = props[s][k]
         /\ clashed \subseteq clashed'
<1>1. CASE UNCHANGED <<props, clashed>>
  BY <1>1 DEF PropsInv
<1>2. ASSUME NEW r \in Runs, Inherit(r)
      PROVE  /\ PropsInv'
             /\ \A s \in Steps, k \in PropertyKeys : props[s][k] # None => props'[s][k] = props[s][k]
             /\ clashed \subseteq clashed'
  <2> DEFINE s == run[r].child
             p == Last(run[r].contexts)
  <2>1. s \in Steps /\ p \in Steps /\ Parent[s] = p
    <3>1. At(r, "inherit") /\ run[r].stack # <<>>
      BY <1>2 DEF Inherit, RunInv, At, Walking
    <3>2. Parent[s] = Top(r).step
      BY <3>1 DEF PathInv
    <3>3. run[r].contexts \in Seq(Steps) /\ run[r].stack \in Seq(Frames)
      BY DEF RunInv
    <3>4. Len(run[r].stack) \in 1..Len(run[r].stack) /\ Len(run[r].contexts) = Len(run[r].stack)
      BY <3>1, <3>3 DEF PathInv
    <3>5. p = run[r].contexts[Len(run[r].stack)] /\ p \in Steps
      BY <3>3, <3>4 DEF Last
    <3>6. p = Top(r).step
      BY <3>4, <3>5 DEF PathInv, Top, Last
    <3>7. QED
      BY <3>1, <3>2, <3>5, <3>6 DEF RunInv
  <2>2. PICK keys \in SUBSET Missing(r) : props' = [props EXCEPT ![s] = Inheriting(r, keys)]
    BY <1>2 DEF Inherit
  <2>3. keys \subseteq PropertyKeys /\ \A k \in keys : props[s][k] = None /\ props[p][k] # None
    BY <2>2 DEF Missing
  <2>4. \A t \in Steps, k \in PropertyKeys :
          props'[t][k] = IF t = s /\ k \in keys THEN props[p][k] ELSE props[t][k]
    BY <2>1, <2>2 DEF PropsInv, Inheriting
  <2>5. ASSUME NEW k \in keys
        PROVE  /\ OwnProperties[s][k] = None /\ Parent[s] # Root
               /\ props[p][k] = Inherited[s][k]
    <3>1. Parent[s] # Root
      BY <2>1, ConstantsAssumption
    <3>2. OwnProperties[s][k] = None
      BY <2>1, <2>3 DEF PropsInv
    <3>3. props[p][k] = Inherited[p][k]
      BY <2>1, <2>3 DEF PropsInv
    <3>4. Inherited[s][k] = IF OwnProperties[s][k] # None \/ Parent[s] = Root THEN OwnProperties[s][k]
                            ELSE Inherited[Parent[s]][k]
      BY <2>1, <2>3, InheritedValue
    <3> HIDE DEF s, p
    <3>5. QED
      BY <2>1, <3>1, <3>2, <3>3, <3>4
  <2>6. props' \in [Steps -> [PropertyKeys -> PropertyValues \cup {None}]]
    <3>1. Inheriting(r, keys) \in [PropertyKeys -> PropertyValues \cup {None}]
      BY <2>1 DEF Inheriting, PropsInv
    <3>2. QED
      BY <2>1, <2>2, <3>1 DEF PropsInv
  <2>7. PropsInv'
    BY <2>1, <2>3, <2>4, <2>5, <2>6 DEF PropsInv
  <2>8. clashed \subseteq clashed'
    <3>1. clashed' = clashed \/ clashed' = clashed \cup {s}
      BY <1>2, Zenon DEF Inherit
    <3>2. QED
      BY <3>1
  <2>9. QED
    BY <2>3, <2>4, <2>7, <2>8
<1>3. ASSUME NEW r \in Runs, Step(r), ~Inherit(r) PROVE UNCHANGED <<props, clashed>>
  BY <1>3, Zenon DEF Step, RunAsync, TakeHash, Lookup, Compile, CompileFails, RemoveStale, BindArguments, EnterRoot, EnterChild,
              InheritThrows, Skip, Predicate, ActionEnds, Return
<1>4. QED
  BY <1>1, <1>2, <1>3 DEF Next, vars

\* A step that has everything keeps it, whatever other runs add.
LEMMA FoundStays ==
  ASSUME PropsInv, PropsInv', NEW s \in Steps, props[s] = Inherited[s],
         \A k \in PropertyKeys : props[s][k] # None => props'[s][k] = props[s][k]
  PROVE  props'[s] = Inherited[s]
<1>1. ASSUME NEW k \in PropertyKeys PROVE props'[s][k] = Inherited[s][k]
  <2>1. props'[s][k] \in {None, Inherited[s][k]}
    BY DEF PropsInv
  <2>2. QED
    BY <2>1
<1>2. props'[s] = [k \in PropertyKeys |-> props'[s][k]]
  BY DEF PropsInv
<1>3. QED
  BY <1>1, <1>2, InheritedValue

\* A run that goes down adds what is missing, all of it unless another run is adding
\* to the same step.
LEMMA FoundStep ==
  ASSUME DOMAIN run = Runs, CompileInv, PropsInv, \A r \in Runs : RunInv(r) /\ PathInv(r),
         \A r \in Runs : FoundInv(r),
         [Next]_vars
  PROVE  \A r \in Runs : FoundInv(r)'
<1> SUFFICES ASSUME NEW r \in Runs PROVE FoundInv(r)'
  OBVIOUS
<1>1. PropsInv' /\ clashed \subseteq clashed'
  BY PropsStep
<1>2. ASSUME NEW s \in Steps, props[s] = Inherited[s] PROVE props'[s] = Inherited[s]
  <2>1. \A k \in PropertyKeys : props[s][k] # None => props'[s][k] = props[s][k]
    BY PropsStep
  <2>2. QED
    BY <1>1, <1>2, <2>1, FoundStays
<1> DEFINE stack == run[r].stack
           n == Len(stack)
<1>3. stack \in Seq(Frames) /\ n \in Nat
  BY DEF RunInv
<1>4. ASSUME NEW i \in 1..n PROVE stack[i].step \in Steps
  <2>1. stack[i] \in Frames
    BY <1>3
  <2>2. QED
    BY <2>1 DEF Frames
\* Of a stack that got no longer.
<1>5. ASSUME run'[r].stack \in Seq(Frames), Len(run'[r].stack) <= n,
             \A i \in 1..Len(run'[r].stack) : run'[r].stack[i].step = stack[i].step
      PROVE FoundInv(r)'
  <2> SUFFICES ASSUME NEW i \in 1..Len(run'[r].stack),
                      \A j \in 1..i : run'[r].stack[j].step \notin clashed'
               PROVE  props'[run'[r].stack[i].step] = Inherited[run'[r].stack[i].step]
    BY DEF FoundInv
  <2>1. Len(run'[r].stack) \in Nat
    BY <1>5
  <2>2. i \in 1..n /\ \A j \in 1..i : j \in 1..Len(run'[r].stack)
    BY <1>3, <1>5, <2>1
  <2>3. \A j \in 1..i : stack[j].step \notin clashed
    BY <1>1, <1>5, <2>2
  <2>4. props[stack[i].step] = Inherited[stack[i].step]
    BY <2>2, <2>3 DEF FoundInv
  <2>5. QED
    BY <1>2, <1>4, <1>5, <2>2, <2>4
<1>6. CASE run'[r] = run[r]
  BY <1>3, <1>5, <1>6
<1>7. ASSUME Step(r) PROVE FoundInv(r)'
  <2> USE DEF Keeps, Fields, Walk
  <2>1. DOMAIN run'[r] = Fields /\ Moves(r)
    BY <1>7, StepsMove DEF CompileInv
  <2>2. CASE \/ Prepares(r) \/ EndsWorkflow(r) \/ EndsStep(r) \/ Acts(r)
             \/ \E outcome \in {"true", "disabled", "false"} : Decides(r, outcome)
    <3>1. run'[r].stack = stack
      BY <2>2 DEF Prepares, EndsWorkflow, EndsStep, Acts, Decides
    <3>2. QED
      BY <1>3, <1>5, <3>1
  <2>3. CASE GivesUp(r)
    <3>1. run'[r].stack = <<>>
      BY <2>3 DEF GivesUp
    <3>2. QED
      BY <3>1 DEF FoundInv
  <2>4. CASE Leaves(r)
    <3>1. run'[r].stack = Front(stack)
      BY <2>4 DEF Leaves
    <3>2. QED
      BY <1>3, <1>5, <3>1, FrontOfSequence
  <2>5. ASSUME NEW s \in Steps, StartsRoot(r, s) PROVE FoundInv(r)'
    <3>1. s \in Range(Roots[run[r].of]) /\ run[r].of \in Workflows
      <4>1. run[r].of \in Workflows /\ run[r].root \in Nat \ {0}
        BY <2>5 DEF StartsRoot, RunInv, At
      <4>2. run[r].root \in DOMAIN Roots[run[r].of]
        BY <2>5, <4>1, ConstantsAssumption DEF StartsRoot
      <4>3. QED
        BY <2>5, <4>1, <4>2 DEF StartsRoot, Range
    <3>2. Parent[s] = Root
      BY <3>1, ParentOfRoot
    <3>3. \A k \in PropertyKeys : props[s][k] = Inherited[s][k]
      <4>1. \A k \in PropertyKeys : Inherited[s][k] = OwnProperties[s][k]
        BY <3>2, InheritedValue
      <4>2. QED
        BY <3>2, <4>1 DEF PropsInv
    <3>4. props[s] = [k \in PropertyKeys |-> props[s][k]]
      BY DEF PropsInv
    <3>5. props[s] = Inherited[s]
      BY <3>3, <3>4, InheritedValue
    <3>6. run'[r].stack = <<Frame(s)>> /\ Frame(s).step = s
      BY <2>5 DEF StartsRoot, Frame
    <3>7. Len(run'[r].stack) = 1 /\ run'[r].stack[1].step = s
      BY <3>6
    <3>8. QED
      BY <1>2, <3>5, <3>7 DEF FoundInv
  <2>6. ASSUME NEW s \in Steps, StartsChild(r, s) PROVE FoundInv(r)'
    <3>1. run'[r].stack = [stack EXCEPT ![n].next = @ + 1] /\ stack # <<>>
      BY <2>6 DEF StartsChild
    <3> HIDE DEF stack
    <3>2. /\ run'[r].stack \in Seq(Frames) /\ Len(run'[r].stack) = n
          /\ \A i \in 1..n : run'[r].stack[i].step = stack[i].step
      BY <1>3, <3>1, NextOnTop
    <3>3. QED
      BY <1>3, <1>5, <3>2
  <2>7. ASSUME NEW s \in Steps, EntersChild(r, s) PROVE FoundInv(r)'
    <3>1. Inherit(r) /\ s = run[r].child
      <4>1. run[r].pc = "inherit" /\ run'[r].pc = "predicate" /\ s = run[r].child
        BY <2>7 DEF EntersChild, At
      <4>2. Inherit(r) \/ InheritThrows(r)
        BY <1>7, <4>1 DEF At, Step, RunAsync, TakeHash, Lookup, Compile, CompileFails, RemoveStale, BindArguments,
                EnterRoot, EnterChild, Skip, Predicate, ActionEnds, Return
      <4>3. InheritThrows(r) => run'[r].pc = "error"
        BY DEF InheritThrows, Fails, Goes, RunInv
      <4>4. QED
        BY <4>1, <4>2, <4>3
    <3>2. n \in 1..n /\ Parent[s] = stack[n].step /\ Len(run[r].contexts) = n /\ run[r].contexts \in Seq(Steps)
          /\ run[r].contexts[n] = stack[n].step
      <4>1. At(r, "inherit") /\ stack # <<>>
        BY <2>7 DEF EntersChild, RunInv, At, Walking
      <4>2. n \in 1..n
        BY <1>3, <4>1
      <4>3. QED
        BY <3>1, <4>1, <4>2 DEF RunInv, PathInv, Top, Last
    <3> DEFINE p == stack[n].step
    <3>3. run'[r].stack = Append(stack, Frame(s)) /\ Frame(s).step = s /\ Frame(s) \in Frames
      BY <2>7 DEF EntersChild, Frame, Frames
    <3>4. Len(run'[r].stack) = n + 1 /\ run'[r].stack[n + 1].step = s
          /\ \A i \in 1..n : run'[r].stack[i].step = stack[i].step
      BY <1>3, <3>3
    <3>5. ASSUME s \notin clashed', props[p] = Inherited[p] PROVE props'[s] = Inherited[s]
      <4>1. props' = [props EXCEPT ![s] = Inheriting(r, Missing(r))]
        BY <3>1, <3>5 DEF Inherit
      <4>2. Last(run[r].contexts) = p
        BY <3>2 DEF Last
      <4>3. ASSUME NEW k \in PropertyKeys PROVE props'[s][k] = Inherited[s][k]
        <5>1. props'[s][k] = IF props[s][k] = None /\ props[p][k] # None THEN props[p][k] ELSE props[s][k]
          BY <3>1, <4>1, <4>2 DEF Inheriting, Missing, PropsInv
        <5>2. Parent[s] = p /\ p # Root /\ p \in Steps
          BY <1>4, <3>2, ConstantsAssumption
        <5>3. Inherited[s][k] = IF OwnProperties[s][k] # None THEN OwnProperties[s][k] ELSE Inherited[p][k]
          <6>1. Inherited[s][k] = IF OwnProperties[s][k] # None \/ Parent[s] = Root THEN OwnProperties[s][k]
                                  ELSE Inherited[Parent[s]][k]
            BY InheritedValue
          <6> HIDE DEF p
          <6>2. QED
            BY <5>2, <6>1
        <5>4. /\ props[s][k] \in {None, Inherited[s][k]}
              /\ OwnProperties[s][k] # None => props[s][k] = OwnProperties[s][k]
              /\ props[p][k] = Inherited[p][k]
          BY <3>5 DEF PropsInv
        <5> HIDE DEF p
        <5>5. QED
          BY <5>1, <5>3, <5>4
      <4>4. props'[s] = [k \in PropertyKeys |-> props'[s][k]]
        BY <1>1 DEF PropsInv
      <4>5. QED
        BY <4>3, <4>4, InheritedValue
    <3> SUFFICES ASSUME NEW i \in 1..(n + 1), \A j \in 1..i : run'[r].stack[j].step \notin clashed'
                 PROVE  props'[run'[r].stack[i].step] = Inherited[run'[r].stack[i].step]
      BY <3>4 DEF FoundInv
    <3>6. ASSUME NEW m \in 1..n, m <= i PROVE props[stack[m].step] = Inherited[stack[m].step]
      <4>1. \A j \in 1..m : j \in 1..i /\ j \in 1..n
        BY <1>3, <3>6
      <4>2. \A j \in 1..m : stack[j].step \notin clashed
        BY <1>1, <3>4, <4>1
      <4>3. QED
        BY <4>2 DEF FoundInv
    <3>7. CASE i \in 1..n
      <4>1. i <= i /\ stack[i].step \in Steps
        BY <1>3, <1>4, <3>7
      <4>2. props[stack[i].step] = Inherited[stack[i].step]
        BY <3>6, <3>7, <4>1
      <4>3. run'[r].stack[i].step = stack[i].step
        BY <3>4, <3>7
      <4> HIDE DEF stack
      <4>4. QED
        BY <1>2, <4>1, <4>2, <4>3, Zenon
    <3>8. CASE i = n + 1
      <4>1. n <= i /\ i \in 1..i
        BY <1>3, <3>8
      <4>2. s \notin clashed'
        BY <3>4, <3>8, <4>1
      <4>3. QED
        BY <3>2, <3>4, <3>5, <3>6, <3>8, <4>1, <4>2
    <3>9. QED
      BY <1>3, <3>7, <3>8
  <2>8. QED
    BY <2>1, <2>2, <2>3, <2>4, <2>5, <2>6, <2>7 DEF Moves
<1>8. ASSUME NEW q \in Runs, Step(q), q # r PROVE run'[r] = run[r]
  BY <1>8, OthersStay
<1>9. QED
  BY <1>6, <1>7, <1>8 DEF Next, vars

-----------------------------------------------------------------------------
(* The compilation *)

\* A set of numbers that is not empty has a least one.
LEMMA LeastNumber ==
  ASSUME NEW T \in SUBSET Nat, T # {}
  PROVE  \E n \in T : \A m \in T : ~(m < n)
<1>1. PICK n \in T : \A m \in T : ~(<<m, n>> \in OpToRel(<, Nat))
  BY NatLessThanWellFounded, WFMin, Zenon
<1>2. ASSUME NEW m \in T PROVE ~(m < n)
  <2>1. <<m, n>> \in Nat \X Nat
    OBVIOUS
  <2>2. QED
    BY <1>1, <2>1 DEF OpToRel
<1>3. QED
  BY <1>2

\* What CalculateHash returns, whatever was added to the steps before.
LEMMA HashIsTaken ==
  ASSUME PropsInv, NEW w \in Workflows
  PROVE  TakenOf(CalculateHash(w), w)
<1>1. Hashed(CalculateHash(w)) = Definitions(w)
  BY DEF Hashed, CalculateHash, Definitions
<1>2. ASSUME NEW i \in DOMAIN PreOrder[w], NEW k \in PropertyKeys
      PROVE  /\ CalculateHash(w)[i][2][k] \in {None, Inherited[PreOrder[w][i]][k]}
             /\ Stop(PreOrder[w][i], k) =>
                  CalculateHash(w)[i][2][k] = OwnProperties[PreOrder[w][i]][k]
  <2>1. PreOrder[w][i] \in Steps
    BY PreOrderAssumption
  <2>2. CalculateHash(w)[i][2] = props[PreOrder[w][i]]
    BY DEF CalculateHash
  <2>3. QED
    BY <2>1, <2>2 DEF PropsInv, Stop
<1>3. QED
  BY <1>1, <1>2 DEF TakenOf

\* Workflows of one hash that are nested alike give their steps the same properties,
\* even those that had not been added when the hash was taken.
LEMMA OneHashSameProperties ==
  ASSUME NEW v \in Workflows, NEW w \in Workflows, NEW hash,
         TakenOf(hash, v), TakenOf(hash, w), SameNesting(v, w)
  PROVE  SameProperties(v, w)
<1> DEFINE x == PreOrder[v]
           y == PreOrder[w]
<1>1. x \in Seq(Steps) /\ y \in Seq(Steps) /\ DOMAIN x = DOMAIN y
  <2>1. x \in Seq(Steps) /\ y \in Seq(Steps)
    BY PreOrderAssumption
  <2>2. Definitions(v) = Definitions(w)
    BY DEF TakenOf
  <2>3. DOMAIN Definitions(v) = DOMAIN x /\ DOMAIN Definitions(w) = DOMAIN y
    BY DEF Definitions
  <2>4. QED
    BY <2>1, <2>2, <2>3
<1>2. ASSUME NEW i \in DOMAIN y, NEW k \in PropertyKeys
      PROVE  /\ hash[i][2][k] \in {None, Inherited[x[i]][k]}
             /\ hash[i][2][k] \in {None, Inherited[y[i]][k]}
             /\ Stop(x[i], k) => hash[i][2][k] = OwnProperties[x[i]][k]
             /\ Stop(y[i], k) => hash[i][2][k] = OwnProperties[y[i]][k]
  BY <1>1 DEF TakenOf
<1>3. ASSUME NEW i \in DOMAIN y
      PROVE  \/ Parent[x[i]] = Root /\ Parent[y[i]] = Root
             \/ \E j \in 1..(i - 1) : Parent[x[i]] = x[j] /\ Parent[y[i]] = y[j]
  BY DEF SameNesting
<1> HIDE DEF x, y
<1>4. ASSUME NEW k \in PropertyKeys, NEW i \in DOMAIN y,
             \A j \in DOMAIN y : j < i => Inherited[x[j]][k] = Inherited[y[j]][k]
      PROVE  Inherited[x[i]][k] = Inherited[y[i]][k]
  <2>1. x[i] \in Steps /\ y[i] \in Steps
    BY <1>1
  <2>2. /\ Inherited[x[i]][k] = IF Stop(x[i], k) THEN OwnProperties[x[i]][k] ELSE Inherited[Parent[x[i]]][k]
        /\ Inherited[y[i]][k] = IF Stop(y[i], k) THEN OwnProperties[y[i]][k] ELSE Inherited[Parent[y[i]]][k]
    BY <2>1, InheritedValue DEF Stop
  <2>3. CASE hash[i][2][k] # None
    BY <1>2, <2>3
  <2>4. CASE hash[i][2][k] = None /\ Parent[x[i]] = Root /\ Parent[y[i]] = Root
    BY <1>2, <2>2, <2>4 DEF Stop
  <2>5. ASSUME hash[i][2][k] = None,
               NEW j \in 1..(i - 1), Parent[x[i]] = x[j], Parent[y[i]] = y[j]
        PROVE  Inherited[x[i]][k] = Inherited[y[i]][k]
    <3>1. j \in DOMAIN y /\ j < i
      BY <1>1
    <3>2. x[j] \in Steps /\ y[j] \in Steps
      BY <1>1, <3>1
    <3>3. ~Stop(x[i], k) /\ ~Stop(y[i], k)
      BY <1>2, <2>5, <3>2, ConstantsAssumption DEF Stop
    <3>4. QED
      BY <1>4, <2>2, <2>5, <3>1, <3>3
  <2>6. QED
    BY <1>3, <2>3, <2>4, <2>5
<1>5. ASSUME NEW k \in PropertyKeys, NEW i \in DOMAIN y PROVE Inherited[x[i]][k] = Inherited[y[i]][k]
  <2> DEFINE T == {j \in DOMAIN y : Inherited[x[j]][k] # Inherited[y[j]][k]}
  <2>1. SUFFICES ASSUME T # {} PROVE FALSE
    BY <1>5
  <2>2. T \in SUBSET Nat
    BY <1>1
  <2>3. PICK n \in T : \A m \in T : ~(m < n)
    BY <2>1, <2>2, LeastNumber
  <2>4. \A j \in DOMAIN y : j < n => Inherited[x[j]][k] = Inherited[y[j]][k]
    BY <2>3
  <2>5. QED
    BY <1>4, <2>3, <2>4
<1>6. ASSUME NEW i \in DOMAIN y PROVE Inherited[x[i]] = Inherited[y[i]]
  <2>1. x[i] \in Steps /\ y[i] \in Steps
    BY <1>1
  <2>2. /\ Inherited[x[i]] = [k \in PropertyKeys |-> Inherited[x[i]][k]]
        /\ Inherited[y[i]] = [k \in PropertyKeys |-> Inherited[y[i]][k]]
    BY <2>1, InheritedValue
  <2>3. [k \in PropertyKeys |-> Inherited[x[i]][k]] = [k \in PropertyKeys |-> Inherited[y[i]][k]]
    BY <1>5
  <2>4. QED
    BY <2>2, <2>3
<1>7. QED
  BY <1>6 DEF SameProperties, x, y

\* What a compilation of v gives to a run of w.
Serves(v, w) ==
  /\ Definitions(v) = Definitions(w)
  /\ SameNesting(v, w) => SameProperties(v, w)

\* A compilation that is used or stored is of the definitions that were hashed.
LEMMA CompileStep ==
  ASSUME DOMAIN run = Runs, \A r \in Runs : RunInv(r),
         CompileInv, PropsInv, CompiledFromItsDefinition, [Next]_vars
  PROVE  CompileInv' /\ CompiledFromItsDefinition'
<1>0. \A r \in Runs :
        DOMAIN run[r] = Fields /\ (run[r].pc \notin {"ready", "thrown"} => run[r].of \in Workflows)
  BY DEF RunInv
<1>a. CompiledFromItsDefinition =
         (\A r \in Runs : run[r].pc = "bind" => Serves(run[r].compilation.of, run[r].of))
  BY DEF CompiledFromItsDefinition, Serves, At
<1>b. CompiledFromItsDefinition' =
         (\A r \in Runs : run'[r].pc = "bind" => Serves(run'[r].compilation.of, run'[r].of))
  BY DEF CompiledFromItsDefinition, Serves, At
<1> USE <1>0, <1>a, <1>b DEF CompileInv, Fields, At, Goes
<1>1. ASSUME NEW r \in Runs, Step(r), cache' = cache,
             run'[r].pc \in {"lookup", "compile", "remove"} => TakenOf(run'[r].hash, run'[r].of),
             run'[r].pc = "bind" => Serves(run'[r].compilation.of, run'[r].of)
      PROVE CompileInv' /\ CompiledFromItsDefinition'
  BY <1>1, OthersStay
<1>2. ASSUME NEW r \in Runs, NEW w \in Workflows, NEW type \in InputTypes, RunAsync(r, w, type), Step(r)
      PROVE CompileInv' /\ CompiledFromItsDefinition'
  <2>1. run'[r].pc = "hash" /\ cache' = cache
    BY <1>2 DEF RunAsync
  <2>2. QED
    BY <1>1, <1>2, <2>1
<1>9. ASSUME NEW r \in Runs, TakeHash(r), Step(r) PROVE CompileInv' /\ CompiledFromItsDefinition'
  <2>0. At(r, "hash") /\ cache' = cache /\ run[r].of \in Workflows
    BY <1>9 DEF TakeHash
  <2>1. CASE run' = [run EXCEPT ![r] = [Goes(r, "lookup") EXCEPT !.hash = CalculateHash(run[r].of)]]
    <3>1. run'[r].pc = "lookup" /\ run'[r].of = run[r].of /\ run'[r].hash = CalculateHash(run[r].of)
      BY <2>1
    <3>2. TakenOf(CalculateHash(run[r].of), run[r].of)
      BY <2>0, HashIsTaken
    <3>3. QED
      BY <1>1, <1>9, <2>0, <3>1, <3>2
  <2>2. CASE Throws(r)
    <3>1. run'[r].pc = "thrown"
      BY <2>2 DEF Throws
    <3>2. QED
      BY <1>1, <1>9, <2>0, <3>1
  <2>3. QED
    BY <1>9, <2>1, <2>2 DEF TakeHash
<1>3. ASSUME NEW r \in Runs, Lookup(r), Step(r) PROVE CompileInv' /\ CompiledFromItsDefinition'
  <2>1. At(r, "lookup") /\ cache' = cache /\ TakenOf(run[r].hash, run[r].of)
    BY <1>3 DEF Lookup
  <2>2. CASE cache # None /\ IsCurrent(r, cache)
    <3>1. run'[r].pc = "bind" /\ run'[r].compilation = cache /\ run'[r].of = run[r].of
      BY <1>3, <2>2 DEF Lookup
    <3>2. Serves(cache.of, run[r].of)
      <4>1. TakenOf(run[r].hash, cache.of) /\ cache.of \in Workflows /\ run[r].of \in Workflows
        BY <2>1, <2>2, Zenon DEF IsCurrent
      <4>2. Definitions(cache.of) = Definitions(run[r].of)
        BY <2>1, <4>1, Zenon DEF TakenOf
      <4>3. QED
        BY <2>1, <4>1, <4>2, OneHashSameProperties DEF Serves
    <3>3. QED
      BY <1>1, <1>3, <2>1, <3>1, <3>2
  <2>3. CASE ~(cache # None /\ IsCurrent(r, cache))
    <3>1. run'[r].pc \in {"compile", "remove"} /\ run'[r].hash = run[r].hash /\ run'[r].of = run[r].of
      BY <1>3, <2>3 DEF Lookup
    <3>2. QED
      BY <1>1, <1>3, <2>1, <3>1
  <2>4. QED
    BY <2>2, <2>3
<1>4. ASSUME NEW r \in Runs, Compile(r), Step(r) PROVE CompileInv' /\ CompiledFromItsDefinition'
  <2> DEFINE compilation == Compilation(run[r].of, run[r].hash, run[r].type)
  <2>1. At(r, "compile") /\ TakenOf(run[r].hash, run[r].of) /\ run[r].of \in Workflows
    BY <1>4 DEF Compile
  <2>2. compilation.of = run[r].of /\ compilation.token = run[r].hash
    BY DEF Compilation
  <2>3. cache' = compilation /\ run' = [run EXCEPT ![r] = [Goes(r, "bind") EXCEPT !.compilation = compilation]]
    BY <1>4 DEF Compile
  <2> HIDE DEF compilation
  <2>4. run'[r].pc = "bind" /\ run'[r].compilation = compilation /\ run'[r].of = run[r].of
    BY <2>3, SMTT(30)
  <2>5. Serves(run[r].of, run[r].of)
    BY Zenon DEF Serves, SameProperties
  <2>6. QED
    BY <1>4, <2>1, <2>2, <2>3, <2>4, <2>5, OthersStay
<1>5. ASSUME NEW r \in Runs, CompileFails(r), Step(r) PROVE CompileInv' /\ CompiledFromItsDefinition'
  <2>1. run'[r].pc = "thrown" /\ cache' = cache
    BY <1>5 DEF CompileFails, Throws
  <2>2. QED
    BY <1>1, <1>5, <2>1
<1>6. ASSUME NEW r \in Runs, RemoveStale(r), Step(r) PROVE CompileInv' /\ CompiledFromItsDefinition'
  <2>1. run'[r].pc = "hash" /\ cache' = None
    BY <1>6 DEF RemoveStale, RemovedEntry
  <2>2. QED
    BY <1>6, <2>1, OthersStay
<1>7. ASSUME NEW r \in Runs, BindArguments(r), Step(r) PROVE CompileInv' /\ CompiledFromItsDefinition'
  <2>1. run'[r].pc \in {"enter", "thrown"} /\ cache' = cache
    <3>1. CASE run[r].compilation.type = run[r].type
      BY <1>7, <3>1, ZenonT(30) DEF BindArguments
    <3>2. CASE run[r].compilation.type # run[r].type
      BY <1>7, <3>2 DEF BindArguments, Throws
    <3>3. QED
      BY <3>1, <3>2
  <2>2. QED
    BY <1>1, <1>7, <2>1
<1>8. ASSUME NEW r \in Runs, Step(r),
             \/ EnterRoot(r) \/ EnterChild(r) \/ Inherit(r) \/ InheritThrows(r) \/ Skip(r) \/ Predicate(r)
             \/ ActionEnds(r) \/ Return(r)
      PROVE CompileInv' /\ CompiledFromItsDefinition'
  <2>1. cache' = cache
    BY <1>8 DEF EnterRoot, EnterChild, Inherit, InheritThrows, Skip, Predicate, ActionEnds, Return
  <2>2. run[r].pc \in Walking \cup {"enter"}
    BY <1>8 DEF EnterRoot, EnterChild, Inherit, InheritThrows, Skip, Predicate, ActionEnds, Return, Walking
  <2>3. Moves(r)
    BY <1>8, StepsMove, SMTT(30)
  <2>4. run'[r].pc \notin {"lookup", "compile", "remove", "bind"}
    BY <2>2, <2>3, Zenon DEF Moves, Walking, Preparing, Prepares, EndsWorkflow, StartsRoot, EndsStep,
                             StartsChild, EntersChild, GivesUp, Decides, Acts, Leaves
  <2>5. QED
    BY <1>1, <1>8, <2>1, <2>4
<1>10. CASE UNCHANGED vars
  BY <1>10 DEF vars
<1>11. QED
  BY <1>2, <1>3, <1>4, <1>5, <1>6, <1>7, <1>8, <1>9, <1>10 DEF Next, Step

-----------------------------------------------------------------------------
(* Operators *)

\* No step is its own child.
LEMMA NotItsOwnKid ==
  ASSUME NEW s \in Steps
  PROVE  s \notin Range(Kids[s])
<1>1. {s} \in SUBSET Steps /\ {s} # {}
  OBVIOUS
<1>2. \E t \in {s} : Range(Kids[t]) \cap {s} = {}
  BY <1>1, TreeAssumption
<1>3. QED
  BY <1>2

\* A step that a run is in is a child of the step of the call before alone, which
\* is at it.
LEMMA OnlyTheCallAbove ==
  ASSUME NEW x, x.stack \in Seq(Frames), x.of \in Workflows, NEW good, CallsInv(x, good),
         NEW m \in 1..Len(x.stack), NEW t \in Steps, NEW j \in DOMAIN Kids[t],
         Kids[t][j] = x.stack[m].step
  PROVE  /\ m - 1 \in 1..(Len(x.stack) - 1)
         /\ t = x.stack[m - 1].step /\ j = x.stack[m - 1].next - 1
<1>1. Len(x.stack) \in Nat /\ m \in Nat
  OBVIOUS
<1>2. x.stack[m].step \in Range(Kids[t])
  BY DEF Range
<1>3. m # 1
  <2>1. SUFFICES ASSUME m = 1 PROVE FALSE
    OBVIOUS
  <2>2. x.stack # <<>>
    BY <1>1
  <2>3. x.stack[m].step \in Range(Roots[x.of])
    BY <2>1, <2>2 DEF CallsInv, Range
  <2>4. Range(Roots[x.of]) \cap Range(Kids[t]) = {}
    BY TreeAssumption
  <2>5. QED
    BY <1>2, <2>3, <2>4
<1>4. m - 1 \in 1..(Len(x.stack) - 1) /\ (m - 1) + 1 = m
  BY <1>1, <1>3
<1> DEFINE above == x.stack[m - 1]
<1>5. above.step \in Steps
  <2>1. above \in Frames
    BY <1>4
  <2>2. QED
    BY <2>1 DEF Frames
<1>6. above.next - 1 \in DOMAIN Kids[above.step] /\ x.stack[m].step = Kids[above.step][above.next - 1]
  <2>1. Inside(x, good, above, x.stack[(m - 1) + 1].step)
    BY <1>4 DEF CallsInv
  <2>2. QED
    BY <1>4, <2>1 DEF Inside
<1> HIDE DEF above
<1>7. x.stack[m].step \in Range(Kids[above.step])
  BY <1>6 DEF Range
<1>8. t = above.step
  BY <1>2, <1>5, <1>7, TreeAssumption
<1>9. j = above.next - 1
  <2>1. IsInjective(Kids[t])
    BY TreeAssumption
  <2>2. QED
    BY <1>6, <1>8, <2>1 DEF IsInjective
<1>10. QED
  BY <1>4, <1>8, <1>9 DEF above

\* What a call comes to does not disturb the calls before it, nor the steps that
\* were left.
LEMMA Undisturbed ==
  ASSUME NEW x, NEW y, x.stack \in Seq(Frames), x.of \in Workflows,
         NEW good, NEW better, CallsInv(x, good), NEW m \in 1..Len(x.stack),
         \A s \in Steps : s # x.stack[m].step =>
           y.outcome[s] = x.outcome[s] /\ (s \in better <=> s \in good),
         Seen(x, x.stack[m].step) => Seen(y, x.stack[m].step)
  PROVE  /\ \A i \in 1..(m - 1) : Inside(y, better, x.stack[i], x.stack[i + 1].step)
         /\ \A s \in Steps :
              (\A i \in 1..m : x.stack[i].step # s) /\ Settled(x, good, s) => Settled(y, better, s)
<1>1. Len(x.stack) \in Nat /\ m \in Nat
  OBVIOUS
<1>2. ASSUME NEW i \in 1..Len(x.stack) PROVE x.stack[i].step \in Steps /\ x.stack[i].next \in Nat \ {0}
  <2>1. x.stack[i] \in Frames
    BY <1>2
  <2>2. QED
    BY <2>1, SMTT(30) DEF Frames
<1>3. ASSUME NEW p \in Steps, NEW j \in DOMAIN Kids[p] PROVE Kids[p][j] \in Steps
  BY <1>3, ConstantsAssumption
<1> DEFINE q == x.stack[m].step
<1>4. ASSUME NEW i \in 1..(m - 1) PROVE Inside(y, better, x.stack[i], x.stack[i + 1].step)
  <2> DEFINE f == x.stack[i]
             child == x.stack[i + 1].step
  <2>1. i \in 1..(Len(x.stack) - 1) /\ i \in 1..Len(x.stack)
    BY <1>1
  <2>2. Inside(x, good, f, child)
    BY <2>1 DEF CallsInv
  <2>3. f.step \in Steps /\ f.next \in Nat \ {0} /\ f.step # q
    BY <1>1, <1>2, <2>1 DEF CallsInv
  <2> HIDE DEF f, child
  <2>4. y.outcome[f.step] = x.outcome[f.step]
    BY <2>3
  <2>5. ASSUME NEW j \in DOMAIN Kids[f.step], j <= f.next - 2 \/ j >= f.next
        PROVE  /\ Seen(y, Kids[f.step][j]) <=> Seen(x, Kids[f.step][j])
               /\ Passes(better, f.step, j) <=> Passes(good, f.step, j)
    <3>1. Kids[f.step][j] \in Steps
      BY <1>3, <2>3
    <3>2. Kids[f.step][j] # q
      <4>1. SUFFICES ASSUME Kids[f.step][j] = q PROVE FALSE
        OBVIOUS
      <4>2. f.step = x.stack[m - 1].step /\ j = x.stack[m - 1].next - 1 /\ m - 1 \in 1..Len(x.stack)
        BY <1>1, <2>3, <4>1, OnlyTheCallAbove
      <4>3. i = m - 1
        BY <2>1, <4>2 DEF CallsInv, f
      <4>4. j = f.next - 1 /\ j \in Nat
        BY <2>3, <4>2, <4>3 DEF f
      <4>5. QED
        BY <2>3, <2>5, <4>4
    <3>3. QED
      BY <3>1, <3>2 DEF Seen, Passes
  <2>6. Kids[f.step] \in Seq(Steps)
    BY <2>3, ConstantsAssumption
  <2>7. QED
    BY <2>2, <2>4, <2>5 DEF Inside, Progress, f, child
<1>5. ASSUME NEW s \in Steps, \A i \in 1..m : x.stack[i].step # s, Settled(x, good, s)
      PROVE  Settled(y, better, s)
  <2>1. s # q
    BY <1>1, <1>5
  <2>2. y.outcome[s] = x.outcome[s] /\ (s \in better <=> s \in good)
    BY <2>1
  <2>3. ASSUME NEW j \in DOMAIN Kids[s]
        PROVE  /\ Kids[s][j] \in better <=> Kids[s][j] \in good
               /\ Seen(y, Kids[s][j]) <=> Seen(x, Kids[s][j])
               /\ Passes(better, s, j) <=> Passes(good, s, j)
    <3>1. Kids[s][j] \in Steps
      BY <1>3
    <3>2. Kids[s][j] # q
      <4>1. SUFFICES ASSUME Kids[s][j] = q PROVE FALSE
        OBVIOUS
      <4>2. s = x.stack[m - 1].step /\ m - 1 \in 1..(Len(x.stack) - 1)
        BY <4>1, OnlyTheCallAbove
      <4>3. m - 1 \in 1..m
        BY <1>1, <4>2
      <4>4. QED
        BY <1>5, <4>2, <4>3
    <3>3. QED
      BY <3>1, <3>2 DEF Seen, Passes
  <2>4. ASSUME NEW j \in DOMAIN Kids[s] PROVE Reached(better, s, j) <=> Reached(good, s, j)
    <3>1. Kids[s] \in Seq(Steps)
      BY ConstantsAssumption
    <3>2. \A k \in 1..(j - 1) : k \in DOMAIN Kids[s]
      BY <3>1
    <3>3. QED
      BY <2>3, <3>2 DEF Reached
  <2>5. QED
    BY <1>5, <2>2, <2>3, <2>4 DEF Settled
<1>6. QED
  BY <1>4, <1>5

\* The stack of a run that is under way.
LEMMA StackOfRun ==
  ASSUME NEW r \in Runs, RunInv(r), run[r].pc \in Walking \cup {"enter"}
  PROVE  /\ run[r].of \in Workflows /\ run[r].root \in Nat \ {0}
         /\ run[r].stack \in Seq(Frames) /\ Len(run[r].stack) \in Nat
         /\ run[r].stack # <<>> =>
              Len(run[r].stack) \in 1..Len(run[r].stack) /\ Last(run[r].stack) = run[r].stack[Len(run[r].stack)]
         /\ \A i \in 1..Len(run[r].stack) :
              run[r].stack[i].step \in Steps /\ run[r].stack[i].next \in Nat \ {0}
<1>1. run[r].of \in Workflows /\ run[r].root \in Nat \ {0} /\ run[r].stack \in Seq(Frames)
  BY DEF RunInv, Walking
<1>2. ASSUME NEW i \in 1..Len(run[r].stack)
      PROVE  run[r].stack[i].step \in Steps /\ run[r].stack[i].next \in Nat \ {0}
  <2>1. run[r].stack[i] \in Frames
    BY <1>1
  <2>2. QED
    BY <2>1 DEF Frames
<1>3. QED
  BY <1>1, <1>2 DEF Last

\* Nothing is disturbed by a step of a run that decides nothing.
LEMMA SameOutcomes ==
  ASSUME NEW x, NEW y, y.outcome = x.outcome, NEW good
  PROVE  /\ \A s \in Steps : Settled(x, good, s) => Settled(y, good, s)
         /\ \A f, done : Progress(x, good, f, done) => Progress(y, good, f, done)
         /\ \A f, s : Inside(x, good, f, s) => Inside(y, good, f, s)
BY DEF Settled, Progress, Inside, Seen

\* A run goes into the next root: it was not seen.
LEMMA RootStarts ==
  ASSUME NEW r \in Runs, RunInv(r), NEW s \in Steps, StartsRoot(r, s),
         NEW good, WalkInv(run[r], good)
  PROVE  WalkInv(run'[r], good)
<1> DEFINE x == run[r]
           y == run'[r]
<1>1. /\ x.pc = "enter" /\ y.pc = "predicate" /\ x.stack = <<>>
      /\ x.root <= Len(Roots[x.of]) /\ s = Roots[x.of][x.root]
      /\ y.root = x.root + 1 /\ y.stack = <<Frame(s)>> /\ y.of = x.of /\ y.outcome = x.outcome
  BY DEF StartsRoot, Keeps, At
<1>2. x.of \in Workflows /\ x.root \in Nat \ {0} /\ Roots[x.of] \in Seq(Steps)
  BY <1>1, StackOfRun, ConstantsAssumption
<1>3. WalkInv(x, good)
  OBVIOUS
<1> HIDE DEF x, y
<1>4. Len(y.stack) = 1 /\ y.stack[1] = Frame(s) /\ Last(y.stack) = Frame(s)
      /\ Frame(s).step = s /\ Frame(s).next = 1
  BY <1>1 DEF Last, Frame
<1>5. x.root \in DOMAIN Roots[x.of] /\ y.root - 1 = x.root
  BY <1>1, <1>2
<1>6. CallsInv(y, good)
  BY <1>1, <1>4, <1>5 DEF CallsInv
<1>7. ~Seen(x, s)
  BY <1>1, <1>2, <1>3, <1>5 DEF WalkInv, SeenInv
<1>8. TopInv(y, good)
  BY <1>1, <1>4, <1>7 DEF TopInv, Seen
<1>9. SeenInv(y)
  <2>1. \A t \in Steps : Seen(y, t) <=> Seen(x, t)
    BY <1>1 DEF Seen
  <2>2. ASSUME NEW i \in DOMAIN Roots[x.of]
        PROVE  Seen(y, Roots[x.of][i]) <=> i < y.root /\ i # y.root - 1
    <3>1. i \in Nat /\ Roots[x.of][i] \in Steps
      BY <1>2
    <3>2. Seen(x, Roots[x.of][i]) <=> i < x.root
      BY <1>1, <1>3 DEF WalkInv, SeenInv
    <3>3. i < x.root <=> i < y.root /\ i # y.root - 1
      BY <1>1, <1>2, <3>1
    <3>4. QED
      BY <2>1, <3>1, <3>2, <3>3
  <2>3. QED
    BY <1>1, <1>3, <1>4, <2>1, <2>2 DEF WalkInv, SeenInv
<1>10. ASSUME NEW t \in Steps, Closed(y, t) PROVE Settled(y, good, t)
  <2>1. Closed(x, t)
    BY <1>1 DEF Closed
  <2>2. QED
    BY <1>1, <1>3, <2>1, SameOutcomes DEF WalkInv
<1>11. QED
  BY <1>6, <1>8, <1>9, <1>10 DEF WalkInv, y

\* The calls are what they were, when the stack is.
LEMMA SameCalls ==
  ASSUME NEW x, NEW y, y.stack = x.stack, y.of = x.of, y.root = x.root,
         NEW good, CallsInv(x, good), NEW better,
         \A i \in 1..(Len(x.stack) - 1) : Inside(y, better, x.stack[i], x.stack[i + 1].step)
  PROVE  CallsInv(y, better)
<1>1. \A i \in 1..(Len(y.stack) - 1) : Inside(y, better, y.stack[i], y.stack[i + 1].step)
  OBVIOUS
<1>2. QED
  BY <1>1 DEF CallsInv

\* What roots there are is seen as before, while no root begins or is decided on.
LEMMA SeenAsBefore ==
  ASSUME NEW x, NEW y, SeenInv(x), x.pc # "predicate",
         y.of = x.of, y.root = x.root, y.outcome = x.outcome,
         y.pc = "predicate" => Len(y.stack) # 1
  PROVE  SeenInv(y)
BY DEF SeenInv, Seen

\* A step goes on to its next child: it was not seen.
LEMMA ChildStarts ==
  ASSUME NEW r \in Runs, RunInv(r), NEW s \in Steps, StartsChild(r, s),
         NEW good, WalkInv(run[r], good)
  PROVE  WalkInv(run'[r], good)
<1> DEFINE x == run[r]
           y == run'[r]
           n == Len(x.stack)
           top == x.stack[n]
<1>1. /\ x.pc = "enter" /\ y.pc = "inherit" /\ x.stack # <<>> /\ y.child = s
      /\ Top(r).next <= Len(Kids[Top(r).step]) /\ s = Kids[Top(r).step][Top(r).next]
      /\ y.of = x.of /\ y.root = x.root /\ y.outcome = x.outcome
  BY SMTT(30) DEF StartsChild, Keeps, At
<1>2. /\ x.stack \in Seq(Frames) /\ n \in Nat /\ n \in 1..n
      /\ Top(r) = top /\ Last(x.stack) = top
      /\ top.step \in Steps /\ top.next \in Nat \ {0}
  <2>1. /\ x.stack \in Seq(Frames) /\ n \in Nat
        /\ x.stack # <<>> => n \in 1..n /\ Last(x.stack) = top
        /\ \A i \in 1..n : x.stack[i].step \in Steps /\ x.stack[i].next \in Nat \ {0}
    BY <1>1, StackOfRun
  <2>2. Top(r) = Last(x.stack)
    BY DEF Top
  <2> HIDE DEF x, n
  <2>3. x.stack # <<>>
    BY <1>1
  <2>4. n \in 1..n /\ Last(x.stack) = top
    BY <2>1, <2>3
  <2>5. QED
    BY <2>1, <2>2, <2>4, Zenon
<1>3. /\ y.stack \in Seq(Frames) /\ Len(y.stack) = n
      /\ \A i \in 1..n : y.stack[i].step = x.stack[i].step /\ (i # n => y.stack[i] = x.stack[i])
      /\ y.stack[n].next = top.next + 1
  <2>1. y.stack = [x.stack EXCEPT ![n].next = @ + 1]
    BY DEF StartsChild
  <2>2. x.stack # <<>>
    BY <1>1
  <2> HIDE DEF x, y
  <2>3. QED
    BY <1>2, <2>1, <2>2, NextOnTop
<1>4. CallsInv(x, good) /\ TopInv(x, good) /\ SeenInv(x)
      /\ \A t \in Steps : Closed(x, t) => Settled(x, good, t)
  BY DEF WalkInv
<1> HIDE DEF x, y
<1>5. CallsInv(y, good)
  <2>1. ASSUME NEW i \in 1..(n - 1) PROVE Inside(y, good, y.stack[i], y.stack[i + 1].step)
    <3>1. i \in 1..n /\ i # n /\ i + 1 \in 1..n
      BY <1>2
    <3>2. Inside(x, good, x.stack[i], x.stack[i + 1].step)
      BY <1>4, <2>1 DEF CallsInv
    <3>3. y.stack[i] = x.stack[i] /\ y.stack[i + 1].step = x.stack[i + 1].step
      BY <1>3, <3>1
    <3>4. QED
      BY <1>1, <3>2, <3>3, SameOutcomes
  <2>2. 1 \in 1..n
    BY <1>2
  <2>3. \A i, j \in 1..n : y.stack[i].step = y.stack[j].step => i = j
    BY <1>3, <1>4 DEF CallsInv
  <2>4. y.root - 1 \in DOMAIN Roots[y.of] /\ y.stack[1].step = Roots[y.of][y.root - 1]
    BY <1>1, <1>3, <1>4, <2>2, SMTT(30) DEF CallsInv
  <2>5. QED
    BY <1>3, <2>1, <2>3, <2>4 DEF CallsInv
<1>6. Progress(x, good, top, top.next - 1)
  BY <1>1, <1>2, <1>4 DEF TopInv
<1>7. Kids[top.step] \in Seq(Steps) /\ top.next \in DOMAIN Kids[top.step] /\ s = Kids[top.step][top.next]
  <2>1. Kids[top.step] \in Seq(Steps)
    BY <1>2, ConstantsAssumption, SMTT(30)
  <2>2. top.next <= Len(Kids[top.step]) /\ s = Kids[top.step][top.next]
    BY <1>1, <1>2
  <2> HIDE DEF top
  <2>3. QED
    BY <1>2, <2>1, <2>2
<1>8. y.stack[n].step = top.step /\ y.stack[n].next = top.next + 1
  BY <1>2, <1>3
<1> HIDE DEF top
<1>9. ~Seen(y, s)
  <2>1. ~Seen(x, Kids[top.step][top.next])
    BY <1>2, <1>6, <1>7 DEF Progress
  <2>2. QED
    BY <1>1, <1>7, <2>1 DEF Seen
<1>10. Inside(y, good, y.stack[n], s)
  <2>1. ASSUME NEW j \in DOMAIN Kids[top.step]
        PROVE  /\ j <= top.next - 1 => Seen(y, Kids[top.step][j]) /\ Passes(good, top.step, j)
               /\ j >= top.next + 1 => ~Seen(y, Kids[top.step][j])
    <3>1. j \in Nat
      BY <1>7
    <3>2. j >= top.next + 1 => j >= top.next
      BY <1>2, <3>1
    <3>3. QED
      BY <1>1, <1>6, <3>2 DEF Progress, Seen
  <2>2. y.outcome[top.step] = "true"
    BY <1>1, <1>6 DEF Progress
  <2>3. (top.next + 1) - 1 = top.next /\ (top.next + 1) - 2 = top.next - 1
    BY <1>2
  <2>4. Progress(y, good, y.stack[n], top.next - 1)
    BY <1>8, <2>1, <2>2 DEF Progress
  <2>5. QED
    BY <1>7, <1>8, <2>3, <2>4 DEF Inside
<1>11. TopInv(y, good)
  <2>1. Last(y.stack) = y.stack[n]
    BY <1>3 DEF Last
  <2>2. QED
    BY <1>1, <1>9, <1>10, <2>1 DEF TopInv
<1>12. SeenInv(y)
  BY <1>1, <1>4, SeenAsBefore
<1>13. ASSUME NEW t \in Steps, Closed(y, t) PROVE Settled(y, good, t)
  <2>1. Closed(x, t)
    BY <1>1, <1>3, <1>13 DEF Closed
  <2>2. QED
    BY <1>1, <1>4, <2>1, SameOutcomes
<1>14. QED
  BY <1>5, <1>11, <1>12, <1>13 DEF WalkInv, y

\* EnterStep ends: the child is on no call, since none of these is unseen.
LEMMA ChildIsEntered ==
  ASSUME NEW r \in Runs, RunInv(r), NEW s \in Steps, EntersChild(r, s),
         NEW good, WalkInv(run[r], good)
  PROVE  WalkInv(run'[r], good)
<1> DEFINE x == run[r]
           y == run'[r]
           n == Len(x.stack)
<1>1. /\ x.pc = "inherit" /\ y.pc = "predicate" /\ s = x.child
      /\ y.stack = Append(x.stack, Frame(s))
      /\ y.of = x.of /\ y.root = x.root /\ y.outcome = x.outcome
  BY DEF EntersChild, Keeps, At
<1>2. /\ x.of \in Workflows /\ x.stack \in Seq(Frames) /\ n \in Nat /\ x.stack # <<>> /\ n \in 1..n
      /\ Last(x.stack) = x.stack[n]
  BY <1>1, StackOfRun DEF RunInv, Walking
<1>3. WalkInv(x, good)
  OBVIOUS
<1> HIDE DEF x, y
<1>4. /\ Frame(s) \in Frames /\ Frame(s).step = s /\ Frame(s).next = 1
  BY DEF Frame, Frames
<1>5. /\ Len(y.stack) = n + 1 /\ y.stack # <<>>
      /\ \A i \in 1..n : y.stack[i] = x.stack[i]
      /\ y.stack[n + 1] = Frame(s) /\ Last(y.stack) = Frame(s)
  BY <1>1, <1>2, <1>4 DEF Last
<1>6. Inside(x, good, x.stack[n], s) /\ ~Seen(x, s)
  BY <1>1, <1>2, <1>3 DEF WalkInv, TopInv
<1>7. ASSUME NEW i \in 1..n PROVE x.stack[i].step # s
  <2>1. Progress(x, good, x.stack[n], x.stack[n].next - 2) /\ CallsInv(x, good)
    BY <1>3, <1>6 DEF Inside, WalkInv
  <2>2. CASE i = n
    BY <1>6, <2>1, <2>2, Zenon DEF Progress, Seen
  <2>3. CASE i # n
    <3>1. i \in 1..(Len(x.stack) - 1)
      BY <1>2, <2>3
    <3>2. Progress(x, good, x.stack[i], x.stack[i].next - 2)
      BY <2>1, <3>1 DEF CallsInv, Inside
    <3>3. QED
      BY <1>6, <3>2, Zenon DEF Progress, Seen
  <2>4. QED
    BY <2>2, <2>3, ZenonT(30)
<1>8. CallsInv(y, good)
  <2>1. \A i \in 1..(n + 1) : i \in 1..n \/ i = n + 1
    BY <1>2
  <2>2. ASSUME NEW i \in 1..(n + 1), NEW j \in 1..(n + 1), y.stack[i].step = y.stack[j].step PROVE i = j
    <3>1. i \in 1..n /\ j \in 1..n => i = j
      BY <1>3, <1>5, <2>2 DEF WalkInv, CallsInv, n
    <3>2. \A k \in 1..n : y.stack[k].step # s
      BY <1>5, <1>7
    <3>3. y.stack[n + 1].step = s
      BY <1>4, <1>5
    <3>4. QED
      BY <2>1, <2>2, <3>1, <3>2, <3>3
  <2>3. ASSUME NEW i \in 1..n PROVE Inside(y, good, y.stack[i], y.stack[i + 1].step)
    <3>1. CASE i = n
      BY <1>1, <1>4, <1>5, <1>6, <3>1, SameOutcomes
    <3>2. CASE i # n
      <4>1. i \in 1..(n - 1) /\ i + 1 \in 1..n
        BY <1>2, <3>2
      <4>2. Inside(x, good, x.stack[i], x.stack[i + 1].step)
        BY <1>3, <4>1 DEF WalkInv, CallsInv, n
      <4>3. QED
        BY <1>1, <1>5, <4>1, <4>2, SameOutcomes
    <3>3. QED
      BY <3>1, <3>2
  <2>4. 1 \in 1..n /\ (n + 1) - 1 = n
    BY <1>2
  <2>5. y.root - 1 \in DOMAIN Roots[y.of] /\ y.stack[1].step = Roots[y.of][y.root - 1]
    BY <1>1, <1>2, <1>3, <1>5, <2>4 DEF WalkInv, CallsInv
  <2>6. QED
    BY <1>5, <2>2, <2>3, <2>4, <2>5 DEF CallsInv
<1>9. TopInv(y, good)
  BY <1>1, <1>4, <1>5, <1>6 DEF TopInv, Seen
<1>10. SeenInv(y)
  <2>1. Len(y.stack) # 1
    BY <1>2, <1>5
  <2>2. QED
    BY <1>1, <1>3, <2>1, SeenAsBefore DEF WalkInv
<1>11. ASSUME NEW t \in Steps, Closed(y, t) PROVE Settled(y, good, t)
  <2>1. ASSUME NEW i \in 1..n PROVE x.stack[i].step # t
    <3>1. i \in 1..(n + 1)
      BY <1>2
    <3>2. QED
      BY <1>1, <1>5, <1>11, <3>1 DEF Closed
  <2>2. Closed(x, t)
    BY <2>1 DEF Closed, n
  <2>3. QED
    BY <1>1, <1>3, <2>2, SameOutcomes DEF WalkInv
<1>12. QED
  BY <1>8, <1>9, <1>10, <1>11 DEF WalkInv, y

\* A step below which nothing was processed has no child that was seen.
LEMMA NothingBelow ==
  ASSUME NEW x, x.of \in Workflows, SeenInv(x), NEW q \in Steps, x.outcome[q] # "true",
         NEW j \in DOMAIN Kids[q]
  PROVE  ~Seen(x, Kids[q][j])
<1>1. Kids[q][j] \in Steps /\ Kids[q][j] \in Range(Kids[q])
  BY ConstantsAssumption DEF Range
<1>2. Kids[q][j] \notin Range(Roots[x.of])
  BY <1>1, TreeAssumption
<1>3. ASSUME NEW p \in Steps, x.outcome[p] = "true" PROVE Kids[q][j] \notin Range(Kids[p])
  BY <1>1, <1>3, TreeAssumption
<1>4. QED
  BY <1>1, <1>2, <1>3 DEF SeenInv

\* What came of a predicate is seen of no other step; a step that is not processed
\* returns FALSE.
LEMMA StepIsDecided ==
  ASSUME NEW r \in Runs, RunInv(r), NEW outcome \in {"true", "disabled", "false"}, Decides(r, outcome),
         NEW good \in SUBSET Steps, WalkInv(run[r], good)
  PROVE  \E better \in SUBSET Steps : WalkInv(run'[r], better)
<1> DEFINE x == run[r]
           y == run'[r]
           n == Len(x.stack)
           q == x.stack[n].step
           better == good \ {q}
<1>1. /\ x.pc = "predicate"
      /\ \/ y.pc \in {"action", "enter"} /\ outcome = "true"
         \/ y.pc = "return" /\ outcome # "true" /\ y.value = FALSE
      /\ y.outcome = [x.outcome EXCEPT ![Top(r).step] = outcome] /\ DOMAIN x.outcome = Steps
      /\ y.stack = x.stack /\ y.of = x.of /\ y.root = x.root
  BY DEF Decides, Keeps, At, Fields, RunInv
<1>2. /\ x.of \in Workflows /\ x.root \in Nat \ {0} /\ x.stack \in Seq(Frames)
      /\ n \in Nat /\ x.stack # <<>> /\ n \in 1..n
      /\ Top(r) = x.stack[n] /\ Last(x.stack) = x.stack[n] /\ q \in Steps
  BY <1>1, StackOfRun DEF RunInv, Walking, Top
<1>3. CallsInv(x, good) /\ TopInv(x, good) /\ SeenInv(x)
      /\ \A s \in Steps : Closed(x, s) => Settled(x, good, s)
  BY DEF WalkInv
<1> HIDE DEF x, y
<1>4. ~Seen(x, q) /\ x.stack[n].next = 1
  BY <1>1, <1>2, <1>3 DEF TopInv
<1>5. \A s \in Steps : y.outcome[s] = IF s = q THEN outcome ELSE x.outcome[s]
  BY <1>1, <1>2
<1>6. Seen(y, q) /\ \A s \in Steps : s # q => (Seen(y, s) <=> Seen(x, s))
  BY <1>2, <1>5 DEF Seen
<1>7. /\ \A i \in 1..(n - 1) : Inside(y, better, x.stack[i], x.stack[i + 1].step)
      /\ \A s \in Steps :
           (\A i \in 1..n : x.stack[i].step # s) /\ Settled(x, good, s) => Settled(y, better, s)
  <2>1. \A s \in Steps : s # q => y.outcome[s] = x.outcome[s] /\ (s \in better <=> s \in good)
    BY <1>5
  <2> HIDE DEF better
  <2>2. QED
    BY <1>2, <1>3, <1>4, <2>1, Undisturbed
<1>8. CallsInv(y, better)
  BY <1>1, <1>3, <1>7, SameCalls
\* Where the step is.
<1>9. \/ n = 1 /\ x.root - 1 \in DOMAIN Roots[x.of] /\ q = Roots[x.of][x.root - 1]
      \/ n # 1 /\ \E p \in Steps : x.outcome[p] = "true" /\ q \in Range(Kids[p])
  <2>1. CASE n = 1
    BY <1>2, <1>3, <2>1 DEF CallsInv
  <2>2. CASE n # 1
    <3> DEFINE f == x.stack[n - 1]
    <3>1. n - 1 \in 1..(n - 1) /\ (n - 1) + 1 = n /\ n - 1 \in 1..n
      <4>1. n \in Nat /\ n >= 1 /\ n # 1
        BY <1>2, <2>2
      <4> HIDE DEF n
      <4>2. QED
        BY <4>1
    <3>2. Inside(x, good, f, x.stack[(n - 1) + 1].step)
      BY <1>3, <3>1 DEF CallsInv
    <3>3. f \in Frames
      BY <1>2, <3>1
    <3>4. f.step \in Steps
      BY <3>3 DEF Frames
    <3> HIDE DEF f
    <3>5. x.outcome[f.step] = "true" /\ q \in Range(Kids[f.step])
      BY <3>1, <3>2 DEF Inside, Progress, Range
    <3>6. QED
      BY <2>2, <3>4, <3>5
  <2>3. QED
    BY <2>1, <2>2
<1>10. TopInv(y, better)
  <2>1. ASSUME outcome = "true" PROVE Progress(y, better, x.stack[n], 0)
    <3>1. ASSUME NEW j \in DOMAIN Kids[q] PROVE ~Seen(y, Kids[q][j]) /\ ~(j <= 0)
      <4>1. ~Seen(x, Kids[q][j])
        BY <1>2, <1>3, <1>4, NothingBelow DEF Seen
      <4>2. Kids[q] \in Seq(Steps) /\ Kids[q][j] \in Steps
        BY <1>2, ConstantsAssumption
      <4>3. Kids[q][j] # q
        BY <1>2, NotItsOwnKid DEF Range
      <4>4. QED
        BY <1>6, <4>1, <4>2, <4>3
    <3>2. y.outcome[q] = "true"
      BY <1>2, <1>5, <2>1
    <3>3. QED
      BY <3>1, <3>2 DEF Progress
  <2>2. x.stack[n].next - 1 = 0
    BY <1>4
  <2>3. q \notin better
    OBVIOUS
  <2> HIDE DEF better
  <2>4. QED
    BY <1>1, <1>2, <1>4, <1>6, <2>1, <2>2, <2>3 DEF TopInv
<1>11. SeenInv(y)
  <2>1. ASSUME NEW t \in Steps, Seen(y, t)
        PROVE  \/ t \in Range(Roots[y.of])
               \/ \E p \in Steps : y.outcome[p] = "true" /\ t \in Range(Kids[p])
    <3>1. \/ t \in Range(Roots[x.of])
          \/ \E p \in Steps : x.outcome[p] = "true" /\ t \in Range(Kids[p])
      BY <1>3, <1>6, <1>9, <2>1 DEF SeenInv, Range
    <3>2. \A p \in Steps : x.outcome[p] = "true" => y.outcome[p] = "true"
      BY <1>4, <1>5 DEF Seen
    <3>3. QED
      BY <1>1, <3>1, <3>2
  <2>2. ASSUME NEW i \in DOMAIN Roots[x.of] PROVE Seen(y, Roots[x.of][i]) <=> i < x.root
    <3> DEFINE root == Roots[x.of][i]
    <3>1. root \in Steps /\ root \in Range(Roots[x.of]) /\ i \in Nat
      BY <1>2, ConstantsAssumption DEF Range
    <3>2. Seen(x, root) <=> i < x.root /\ ~(n = 1 /\ i = x.root - 1)
      BY <1>1, <1>3 DEF SeenInv
    <3>3. root = q <=> n = 1 /\ i = x.root - 1
      <4>1. CASE n = 1
        <5>1. IsInjective(Roots[x.of])
          BY <1>2, TreeAssumption
        <5>2. QED
          BY <1>9, <4>1, <5>1 DEF IsInjective
      <4>2. CASE n # 1
        BY <1>2, <1>9, <3>1, <4>2, TreeAssumption
      <4>3. QED
        BY <4>1, <4>2
    <3> HIDE DEF root
    <3>4. CASE root = q
      <4>1. i < x.root
        BY <1>2, <3>1, <3>3, <3>4
      <4>2. QED
        BY <1>6, <3>4, <4>1 DEF root
    <3>5. CASE root # q
      BY <1>6, <3>1, <3>2, <3>3, <3>5 DEF root
    <3>6. QED
      BY <3>4, <3>5
  <2>3. QED
    BY <1>1, <2>1, <2>2 DEF SeenInv
<1>12. ASSUME NEW t \in Steps, Closed(y, t) PROVE Settled(y, better, t)
  <2>1. CASE t = q
    <3>1. y.pc = "return"
      BY <1>1, <1>2, <1>12, <2>1 DEF Closed
    <3>2. y.outcome[q] # "true"
      BY <1>1, <1>5, <1>2, <3>1
    <3>3. QED
      BY <2>1, <3>2 DEF Settled
  <2>2. CASE t # q
    <3>1. \A i \in 1..n : x.stack[i].step # t
      BY <1>1, <1>2, <1>12, <2>2 DEF Closed
    <3>2. Settled(x, good, t)
      BY <1>3, <3>1 DEF Closed
    <3>3. QED
      BY <1>7, <3>1, <3>2
  <2>3. QED
    BY <2>1, <2>2
<1>13. WalkInv(y, better) /\ better \in SUBSET Steps
  BY <1>8, <1>10, <1>11, <1>12 DEF WalkInv
<1>14. QED
  BY <1>13 DEF y

\* A step whose children have all passed holds.
LEMMA StepHasEnded ==
  ASSUME NEW r \in Runs, RunInv(r), EndsStep(r),
         NEW good \in SUBSET Steps, WalkInv(run[r], good)
  PROVE  \E better \in SUBSET Steps : WalkInv(run'[r], better)
<1> DEFINE x == run[r]
           y == run'[r]
           n == Len(x.stack)
           q == x.stack[n].step
           better == good \cup {q}
<1>1. /\ x.pc = "enter" /\ y.pc = "return" /\ x.stack # <<>> /\ y.value = TRUE
      /\ Top(r).next > Len(Kids[Top(r).step])
      /\ y.stack = x.stack /\ y.of = x.of /\ y.root = x.root /\ y.outcome = x.outcome
  BY DEF EndsStep, Keeps, At, Fields
<1>2. /\ x.of \in Workflows /\ x.stack \in Seq(Frames) /\ n \in Nat /\ n \in 1..n
      /\ Top(r) = x.stack[n] /\ Last(x.stack) = x.stack[n]
      /\ q \in Steps /\ x.stack[n].next \in Nat \ {0}
  BY <1>1, StackOfRun DEF Top
<1>3. CallsInv(x, good) /\ TopInv(x, good) /\ SeenInv(x)
      /\ \A s \in Steps : Closed(x, s) => Settled(x, good, s)
  BY DEF WalkInv
<1> HIDE DEF x, y
<1>4. \A s \in Steps : Seen(y, s) <=> Seen(x, s)
  BY <1>1 DEF Seen
<1>5. q \in better /\ \A s \in Steps : s # q => (s \in better <=> s \in good)
  OBVIOUS
<1>6. /\ \A i \in 1..(n - 1) : Inside(y, better, x.stack[i], x.stack[i + 1].step)
      /\ \A s \in Steps :
           (\A i \in 1..n : x.stack[i].step # s) /\ Settled(x, good, s) => Settled(y, better, s)
  <2>1. \A s \in Steps : s # q => y.outcome[s] = x.outcome[s] /\ (s \in better <=> s \in good)
    BY <1>1, <1>5
  <2>2. Seen(x, q) => Seen(y, q)
    BY <1>2, <1>4
  <2> HIDE DEF better
  <2>3. QED
    BY <1>2, <1>3, <2>1, <2>2, Undisturbed
<1>7. CallsInv(y, better)
  BY <1>1, <1>3, <1>6, SameCalls
<1>8. Progress(x, good, x.stack[n], x.stack[n].next - 1)
  BY <1>1, <1>2, <1>3 DEF TopInv
<1>9. x.outcome[q] = "true"
  BY <1>8 DEF Progress
<1>10. TopInv(y, better)
  BY <1>1, <1>2, <1>5, <1>9 DEF TopInv, Seen
<1>11. SeenInv(y)
  BY <1>1, <1>3, SeenAsBefore
<1>12. Settled(y, better, q)
  <2>1. ASSUME NEW j \in DOMAIN Kids[q] PROVE Seen(y, Kids[q][j]) /\ Passes(better, q, j)
    <3>1. Kids[q] \in Seq(Steps) /\ Kids[q][j] \in Steps
      BY <1>2, ConstantsAssumption
    <3>2. j <= x.stack[n].next - 1
      BY <1>1, <1>2, <3>1
    <3>3. Seen(x, Kids[q][j]) /\ Passes(good, q, j)
      BY <1>8, <3>2 DEF Progress
    <3>4. Kids[q][j] # q
      BY <1>2, NotItsOwnKid DEF Range
    <3>5. QED
      BY <1>4, <1>5, <3>1, <3>3, <3>4 DEF Passes
  <2>2. ASSUME NEW j \in DOMAIN Kids[q] PROVE Reached(better, q, j)
    <3>1. Kids[q] \in Seq(Steps)
      BY <1>2, ConstantsAssumption
    <3>2. \A k \in 1..(j - 1) : k \in DOMAIN Kids[q]
      BY <3>1
    <3>3. QED
      BY <2>1, <3>2 DEF Reached
  <2>3. Operator[Definition[q]] = "And" => \A j \in DOMAIN Kids[q] : Kids[q][j] \in better
    BY <2>1 DEF Passes, Stops
  <2>4. y.outcome[q] = "true"
    BY <1>1, <1>9
  <2>5. QED
    BY <1>5, <2>1, <2>2, <2>3, <2>4 DEF Settled
<1>13. ASSUME NEW t \in Steps, t # q, Closed(y, t) PROVE Settled(y, better, t)
  <2>1. \A i \in 1..n : x.stack[i].step # t
    BY <1>1, <1>2, <1>13 DEF Closed
  <2>2. Settled(x, good, t)
    BY <1>3, <2>1 DEF Closed
  <2>3. QED
    BY <1>6, <2>1, <2>2
<1>14. WalkInv(y, better) /\ better \in SUBSET Steps
  <2>1. better \in SUBSET Steps
    BY <1>2
  <2>2. QED
    BY <1>7, <1>10, <1>11, <1>12, <1>13, <2>1 DEF WalkInv
<1>15. QED
  BY <1>14 DEF y

\* A run leaves a step whose value does not end the step above it, or a root.
LEMMA StepIsLeft ==
  ASSUME NEW r \in Runs, RunInv(r), Leaves(r), ~StopsAbove(r),
         NEW good, WalkInv(run[r], good)
  PROVE  WalkInv(run'[r], good)
<1> DEFINE x == run[r]
           y == run'[r]
           n == Len(x.stack)
           q == x.stack[n].step
           f == x.stack[n - 1]
<1>1. /\ x.pc = "return" /\ y.pc = "enter"
      /\ y.stack = Front(x.stack) /\ y.of = x.of /\ y.root = x.root /\ y.outcome = x.outcome
  BY DEF Leaves, Keeps, At, Fields
<1>2. /\ x.of \in Workflows /\ x.stack \in Seq(Frames) /\ n \in Nat /\ x.stack # <<>> /\ n \in 1..n
      /\ Last(x.stack) = x.stack[n] /\ q \in Steps
      /\ \A i \in 1..n : x.stack[i].step \in Steps /\ x.stack[i].next \in Nat \ {0}
  BY <1>1, StackOfRun DEF RunInv, Walking
<1>3. CallsInv(x, good) /\ TopInv(x, good) /\ SeenInv(x)
      /\ \A s \in Steps : Closed(x, s) => Settled(x, good, s)
  BY DEF WalkInv
<1>4. ASSUME Front(x.stack) # <<>> PROVE ~Stops(Operator[Definition[Last(Front(x.stack)).step]], x.value)
  BY <1>4 DEF StopsAbove
<1> HIDE DEF x, y
<1>5. /\ y.stack \in Seq(Frames) /\ Len(y.stack) = n - 1
      /\ \A i \in 1..(n - 1) : i \in 1..n /\ y.stack[i] = x.stack[i]
  BY <1>1, <1>2, FrontOfSequence
<1>6. CallsInv(y, good)
  <2>1. ASSUME NEW i \in 1..((n - 1) - 1) PROVE Inside(y, good, y.stack[i], y.stack[i + 1].step)
    <3>1. i \in 1..(n - 1) /\ i + 1 \in 1..(n - 1)
      BY <1>2
    <3>2. Inside(x, good, x.stack[i], x.stack[i + 1].step)
      BY <1>3, <3>1 DEF CallsInv
    <3>3. QED
      BY <1>1, <1>5, <3>1, <3>2, SameOutcomes
  <2>2. y.stack # <<>> => 1 \in 1..(n - 1)
    BY <1>2, <1>5
  <2>3. \A i, j \in 1..(n - 1) : y.stack[i].step = y.stack[j].step => i = j
    BY <1>3, <1>5 DEF CallsInv
  <2>4. y.stack # <<>> =>
          y.root - 1 \in DOMAIN Roots[y.of] /\ y.stack[1].step = Roots[y.of][y.root - 1]
    BY <1>1, <1>2, <1>3, <1>5, <2>2 DEF CallsInv
  <2>5. QED
    BY <1>5, <2>1, <2>3, <2>4 DEF CallsInv
<1>7. TopInv(y, good)
  <2>1. SUFFICES ASSUME y.stack # <<>> PROVE Progress(y, good, f, f.next - 1)
    <3>1. y.stack # <<>> => Last(y.stack) = f
      <4>1. y.stack # <<>> => n - 1 \in 1..(n - 1)
        BY <1>2, <1>5
      <4>2. QED
        BY <1>5, <4>1 DEF Last
    <3>2. QED
      BY <1>1, <3>1 DEF TopInv
  <2>2. n - 1 \in 1..(n - 1) /\ (n - 1) + 1 = n
    BY <1>2, <1>5, <2>1
  <2>3. Inside(x, good, f, x.stack[(n - 1) + 1].step)
    BY <1>3, <2>2 DEF CallsInv
  <2>4. Last(Front(x.stack)) = f
    BY <1>1, <1>5, <2>1, <2>2 DEF Last
  <2>5. ~Stops(Operator[Definition[f.step]], x.value)
    BY <1>1, <1>4, <2>1, <2>4
  <2>6. Seen(x, q) /\ (x.value <=> q \in good)
    BY <1>1, <1>2, <1>3 DEF TopInv
  <2>7. f.next \in Nat \ {0} /\ f.step \in Steps
    BY <1>2, <1>5, <2>2
  <2> HIDE DEF f
  <2>8. f.next - 1 \in DOMAIN Kids[f.step] /\ q = Kids[f.step][f.next - 1]
        /\ Progress(x, good, f, f.next - 2)
    BY <2>2, <2>3 DEF Inside
  <2>9. Passes(good, f.step, f.next - 1)
    BY <2>5, <2>6, <2>8 DEF Passes, Stops
  <2>10. ASSUME NEW j \in DOMAIN Kids[f.step], j <= f.next - 1
         PROVE  Seen(x, Kids[f.step][j]) /\ Passes(good, f.step, j)
    <3>1. Kids[f.step] \in Seq(Steps)
      BY <2>7, ConstantsAssumption
    <3>2. j <= f.next - 2 \/ j = f.next - 1
      BY <2>7, <2>10, <3>1
    <3>3. QED
      BY <2>6, <2>8, <2>9, <3>2 DEF Progress
  <2>11. QED
    BY <1>1, <2>8, <2>10 DEF Progress, Seen
<1>8. SeenInv(y)
  BY <1>1, <1>3, SeenAsBefore
<1>9. ASSUME NEW t \in Steps, Closed(y, t) PROVE Settled(y, good, t)
  <2>1. \A i \in 1..(n - 1) : x.stack[i].step # t
    BY <1>1, <1>5, <1>9 DEF Closed
  <2>2. Closed(x, t)
    <3>1. CASE t = q
      BY <1>1, <1>2, <3>1 DEF Closed
    <3>2. CASE t # q
      <4>1. ASSUME NEW i \in 1..n PROVE x.stack[i].step # t
        <5>1. i \in 1..(n - 1) \/ i = n
          BY <1>2
        <5>2. QED
          BY <2>1, <3>2, <5>1
      <4>2. QED
        BY <4>1 DEF Closed
    <3>3. QED
      BY <3>1, <3>2
  <2>3. QED
    BY <1>1, <1>3, <2>2, SameOutcomes
<1>10. QED
  BY <1>6, <1>7, <1>8, <1>9 DEF WalkInv, y

\* A run leaves a step whose value ends the step above it, which returns the same:
\* And does not hold, since a child does not; Or does.
LEMMA StepIsStopped ==
  ASSUME NEW r \in Runs, RunInv(r), Leaves(r), StopsAbove(r),
         NEW good \in SUBSET Steps, WalkInv(run[r], good)
  PROVE  \E better \in SUBSET Steps : WalkInv(run'[r], better)
<1> DEFINE x == run[r]
           y == run'[r]
           n == Len(x.stack)
           q == x.stack[n].step
           f == x.stack[n - 1]
           p == f.step
           better == IF x.value THEN good \cup {p} ELSE good \ {p}
<1>1. /\ x.pc = "return" /\ y.pc = "return" /\ y.value = x.value
      /\ y.stack = Front(x.stack) /\ y.of = x.of /\ y.root = x.root /\ y.outcome = x.outcome
  BY DEF Leaves, Keeps, At, Fields
<1>2. /\ x.of \in Workflows /\ x.stack \in Seq(Frames) /\ n \in Nat /\ x.stack # <<>> /\ n \in 1..n
      /\ Last(x.stack) = x.stack[n] /\ q \in Steps
      /\ \A i \in 1..n : x.stack[i].step \in Steps /\ x.stack[i].next \in Nat \ {0}
  BY <1>1, StackOfRun DEF RunInv, Walking
<1>3. CallsInv(x, good) /\ TopInv(x, good) /\ SeenInv(x)
      /\ \A s \in Steps : Closed(x, s) => Settled(x, good, s)
  BY DEF WalkInv
<1>4. Front(x.stack) # <<>> /\ Stops(Operator[Definition[Last(Front(x.stack)).step]], x.value)
  BY DEF StopsAbove
<1> HIDE DEF x, y
<1>5. /\ y.stack \in Seq(Frames) /\ Len(y.stack) = n - 1
      /\ \A i \in 1..(n - 1) : i \in 1..n /\ y.stack[i] = x.stack[i]
  BY <1>1, <1>2, FrontOfSequence
<1>6. y.stack # <<>> /\ n - 1 \in 1..(n - 1) /\ (n - 1) + 1 = n /\ n - 1 \in 1..n
  BY <1>1, <1>2, <1>4, <1>5
<1>7. Last(y.stack) = f /\ y.stack[n - 1] = f /\ f.next \in Nat \ {0} /\ p \in Steps
  BY <1>2, <1>5, <1>6 DEF Last
<1>8. Inside(x, good, f, x.stack[(n - 1) + 1].step)
  BY <1>3, <1>6 DEF CallsInv
<1>9. Stops(Operator[Definition[p]], x.value)
  BY <1>1, <1>4, <1>7
<1>10. Seen(x, q) /\ (x.value <=> q \in good)
  BY <1>1, <1>2, <1>3 DEF TopInv
<1>11. (p \in better <=> x.value) /\ better \in SUBSET Steps
       /\ \A s \in Steps : s # p => (s \in better <=> s \in good)
  BY <1>7
<1> DEFINE c == f.next - 1
<1>12. c \in DOMAIN Kids[p] /\ q = Kids[p][c] /\ Progress(x, good, f, f.next - 2)
  BY <1>6, <1>8 DEF Inside
<1> HIDE DEF f, better
<1>13. /\ \A i \in 1..((n - 1) - 1) : Inside(y, better, x.stack[i], x.stack[i + 1].step)
       /\ \A s \in Steps :
            (\A i \in 1..(n - 1) : x.stack[i].step # s) /\ Settled(x, good, s) => Settled(y, better, s)
  <2>1. \A s \in Steps : s # x.stack[n - 1].step =>
          y.outcome[s] = x.outcome[s] /\ (s \in better <=> s \in good)
    BY <1>1, <1>11 DEF f
  <2>2. \A s \in Steps : Seen(x, s) => Seen(y, s)
    BY <1>1 DEF Seen
  <2>3. x.stack[n - 1].step \in Steps
    BY <1>7 DEF f
  <2> HIDE DEF p
  <2>4. ASSUME NEW m \in 1..n, m = n - 1
        PROVE  /\ \A i \in 1..(m - 1) : Inside(y, better, x.stack[i], x.stack[i + 1].step)
               /\ \A s \in Steps :
                    (\A i \in 1..m : x.stack[i].step # s) /\ Settled(x, good, s) => Settled(y, better, s)
    <3>1. \A s \in Steps : s # x.stack[m].step =>
            y.outcome[s] = x.outcome[s] /\ (s \in better <=> s \in good)
      BY <2>1, <2>4
    <3>2. Seen(x, x.stack[m].step) => Seen(y, x.stack[m].step)
      BY <2>2, <2>3, <2>4
    <3>3. QED
      BY <1>2, <1>3, <3>1, <3>2, Undisturbed
  <2>5. QED
    BY <1>6, <2>4
<1>14. CallsInv(y, better)
  <2>1. ASSUME NEW i \in 1..((n - 1) - 1) PROVE Inside(y, better, y.stack[i], y.stack[i + 1].step)
    <3>1. i \in 1..(n - 1) /\ i + 1 \in 1..(n - 1)
      BY <1>2
    <3>2. QED
      BY <1>5, <1>13, <3>1
  <2>2. 1 \in 1..(n - 1)
    BY <1>2, <1>6
  <2>3. \A i, j \in 1..(n - 1) : y.stack[i].step = y.stack[j].step => i = j
    BY <1>3, <1>5 DEF CallsInv
  <2>4. y.root - 1 \in DOMAIN Roots[y.of] /\ y.stack[1].step = Roots[y.of][y.root - 1]
    BY <1>1, <1>2, <1>3, <1>5, <2>2 DEF CallsInv
  <2>5. QED
    BY <1>5, <2>1, <2>3, <2>4 DEF CallsInv
<1>15. x.outcome[p] = "true"
  BY <1>12 DEF Progress
<1>16. TopInv(y, better)
  BY <1>1, <1>7, <1>11, <1>15 DEF TopInv, Seen
<1>17. SeenInv(y)
  BY <1>1, <1>3, SeenAsBefore
<1>18. Settled(y, better, p)
  <2>1. Kids[p] \in Seq(Steps) /\ c \in Nat \ {0}
    <3>1. Kids[p] \in Seq(Steps)
      BY <1>7, ConstantsAssumption
    <3>2. QED
      BY <1>12, <3>1
  <2>2. ASSUME NEW j \in DOMAIN Kids[p]
        PROVE  /\ Kids[p][j] \in better <=> Kids[p][j] \in good
               /\ Passes(better, p, j) <=> Passes(good, p, j)
               /\ Seen(y, Kids[p][j]) <=> Seen(x, Kids[p][j])
    <3>1. Kids[p][j] \in Steps
      BY <2>1
    <3>2. Kids[p][j] # p
      BY <1>7, NotItsOwnKid DEF Range
    <3>3. QED
      BY <1>1, <1>11, <3>1, <3>2 DEF Passes, Seen
  <2>3. ~Passes(better, p, c) /\ (q \in better <=> x.value)
    BY <1>9, <1>10, <1>12, <2>2 DEF Passes, Stops
  <2>4. p \in better <=> (Operator[Definition[p]] = "And" => \A j \in DOMAIN Kids[p] : Kids[p][j] \in better)
    <3>1. CASE x.value
      <4>1. Operator[Definition[p]] # "And"
        BY <1>9, <3>1 DEF Stops
      <4>2. QED
        BY <1>11, <3>1, <4>1
    <3>2. CASE ~x.value
      <4>1. Operator[Definition[p]] = "And"
        BY <1>9, <3>2 DEF Stops
      <4>2. Kids[p][c] \notin better
        BY <1>12, <2>3, <3>2
      <4>3. QED
        BY <1>11, <1>12, <3>2, <4>1, <4>2
    <3>3. QED
      BY <3>1, <3>2
  <2>5. ASSUME NEW j \in DOMAIN Kids[p] PROVE Seen(y, Kids[p][j]) <=> Reached(better, p, j)
    <3>1. j \in Nat \ {0} /\ \A k \in 1..(j - 1) : k \in DOMAIN Kids[p]
      BY <2>1
    <3>2. CASE j < c
      <4>1. \A k \in 1..j : k <= f.next - 2 /\ k \in DOMAIN Kids[p]
        BY <1>7, <2>1, <3>1, <3>2
      <4>2. \A k \in 1..j : Seen(x, Kids[p][k]) /\ Passes(good, p, k)
        BY <1>12, <4>1 DEF Progress
      <4>3. j \in 1..j /\ \A k \in 1..(j - 1) : k \in 1..j
        BY <3>1
      <4>4. QED
        BY <2>2, <3>1, <4>2, <4>3 DEF Reached
    <3>3. CASE j = c
      <4>1. \A k \in 1..(j - 1) : k <= f.next - 2
        BY <1>7, <3>3
      <4>2. \A k \in 1..(j - 1) : Passes(good, p, k)
        BY <1>12, <3>1, <4>1 DEF Progress
      <4>3. Seen(y, Kids[p][j])
        BY <1>10, <1>12, <2>2, <3>3
      <4>4. QED
        BY <2>2, <3>1, <4>2, <4>3 DEF Reached
    <3>4. CASE j > c
      <4>1. j >= f.next /\ c \in 1..(j - 1)
        BY <1>7, <2>1, <3>1, <3>4
      <4>2. ~Seen(x, Kids[p][j])
        BY <1>12, <4>1 DEF Progress
      <4>3. ~Reached(better, p, j)
        BY <2>3, <4>1 DEF Reached
      <4>4. QED
        BY <2>2, <4>2, <4>3
    <3>5. QED
      BY <2>1, <3>1, <3>2, <3>3, <3>4
  <2>6. y.outcome[p] = "true"
    BY <1>1, <1>15
  <2>7. QED
    BY <2>4, <2>5, <2>6 DEF Settled
<1>19. ASSUME NEW t \in Steps, t # p, Closed(y, t) PROVE Settled(y, better, t)
  <2>1. \A i \in 1..(n - 1) : x.stack[i].step # t
    BY <1>1, <1>5, <1>7, <1>19 DEF Closed
  <2>2. Closed(x, t)
    <3>1. CASE t = q
      BY <1>1, <1>2, <3>1 DEF Closed
    <3>2. CASE t # q
      <4>1. ASSUME NEW i \in 1..n PROVE x.stack[i].step # t
        <5>1. i \in 1..(n - 1) \/ i = n
          BY <1>2
        <5>2. QED
          BY <2>1, <3>2, <5>1
      <4>2. QED
        BY <4>1 DEF Closed
    <3>3. QED
      BY <3>1, <3>2
  <2>3. QED
    BY <1>3, <1>13, <2>1, <2>2
<1>20. WalkInv(y, better)
  BY <1>14, <1>16, <1>17, <1>18, <1>19 DEF WalkInv
<1>21. QED
  BY <1>11, <1>20 DEF y

\* The steps a run has left, and those it is in, agree with the operators of its
\* tree as far as it has come.
LEMMA OperatorStep ==
  ASSUME NEW r \in Runs, RunInv(r), OperatorInv(run[r]), DOMAIN run'[r] = Fields, Moves(r)
  PROVE  OperatorInv(run'[r])
<1> USE DEF At, Keeps, Walk, Fields, Preparing, Walking
<1>1. ASSUME run[r].pc \in Walking \cup {"enter"},
             \A good \in SUBSET Steps : WalkInv(run[r], good) =>
               \E better \in SUBSET Steps : WalkInv(run'[r], better),
             run'[r].pc \in Walking \cup {"enter"}
      PROVE  OperatorInv(run'[r])
  BY <1>1 DEF OperatorInv
<1>2. CASE Prepares(r)
  <2>1. /\ run[r].pc \in Preparing /\ run[r].root = 1 /\ \A s \in Steps : ~Seen(run[r], s)
        /\ run[r].stack = <<>>
    BY <1>2 DEF Prepares, OperatorInv, RunInv
  <2>2. /\ run'[r].root = 1 /\ \A s \in Steps : ~Seen(run'[r], s)
        /\ run'[r].stack = <<>>
    BY <1>2, <2>1 DEF Prepares, Seen
  <2>3. CASE run'[r].pc \in Preparing \cup {"thrown"}
    BY <2>2, <2>3 DEF OperatorInv
  <2>4. CASE run'[r].pc = "enter"
    <3>1. run'[r].of \in Workflows
      BY <1>2, <2>4 DEF Prepares
    <3>2. CallsInv(run'[r], {}) /\ TopInv(run'[r], {})
      BY <2>2 DEF CallsInv, TopInv
    <3>3. SeenInv(run'[r])
      <4>1. \A i \in DOMAIN Roots[run'[r].of] : ~(i < 1) /\ Roots[run'[r].of][i] \in Steps
        BY <3>1, ConstantsAssumption
      <4>2. QED
        BY <2>2, <4>1 DEF SeenInv
    <3>4. \A s \in Steps : Settled(run'[r], {}, s)
      BY <2>2 DEF Settled, Seen
    <3>5. {} \in SUBSET Steps /\ WalkInv(run'[r], {})
      BY <3>2, <3>3, <3>4 DEF WalkInv
    <3>6. QED
      BY <2>4, <3>5 DEF OperatorInv
  <2>5. QED
    BY <1>2, <2>3, <2>4 DEF Prepares
<1>3. CASE EndsWorkflow(r)
  <2>1. /\ run[r].pc = "enter" /\ run'[r].pc = "done" /\ run[r].stack = <<>> /\ run'[r].stack = <<>>
        /\ run[r].root > Len(Roots[run[r].of])
        /\ run'[r].of = run[r].of /\ run'[r].root = run[r].root /\ run'[r].outcome = run[r].outcome
    BY <1>3 DEF EndsWorkflow
  <2>2. PICK good \in SUBSET Steps : WalkInv(run[r], good)
    BY <2>1 DEF OperatorInv
  <2>3. CallsInv(run'[r], good) /\ TopInv(run'[r], good)
    BY <2>1 DEF CallsInv, TopInv
  <2>4. SeenInv(run'[r])
    BY <2>1, <2>2, SeenAsBefore DEF WalkInv
  <2>5. \A s \in Steps : Settled(run'[r], good, s)
    <3>1. \A s \in Steps : Settled(run[r], good, s)
      BY <2>1, <2>2 DEF WalkInv, Closed
    <3>2. QED
      BY <2>1, <3>1, SameOutcomes
  <2>6. WalkInv(run'[r], good)
    BY <2>3, <2>4, <2>5 DEF WalkInv
  <2>7. QED
    BY <2>1, <2>6 DEF OperatorInv
<1>4. CASE GivesUp(r)
  BY <1>4 DEF GivesUp, OperatorInv
<1>5. CASE Acts(r)
  <2>1. /\ run[r].pc = "action" /\ run'[r].pc = "enter" /\ run'[r].stack = run[r].stack
        /\ run'[r].of = run[r].of /\ run'[r].root = run[r].root /\ run'[r].outcome = run[r].outcome
    BY <1>5 DEF Acts
  <2>2. ASSUME NEW good, WalkInv(run[r], good) PROVE WalkInv(run'[r], good)
    <3>1. CallsInv(run'[r], good)
      BY <2>1, <2>2, SameOutcomes DEF WalkInv, CallsInv
    <3>2. TopInv(run'[r], good)
      BY <2>1, <2>2, SameOutcomes DEF WalkInv, TopInv
    <3>3. SeenInv(run'[r])
      BY <2>1, <2>2, SeenAsBefore DEF WalkInv
    <3>4. \A s \in Steps : Closed(run'[r], s) => Settled(run'[r], good, s)
      BY <2>1, <2>2, SameOutcomes DEF WalkInv, Closed
    <3>5. QED
      BY <3>1, <3>2, <3>3, <3>4 DEF WalkInv
  <2>3. QED
    BY <1>1, <2>1, <2>2
<1>6. ASSUME NEW s \in Steps, StartsRoot(r, s) PROVE OperatorInv(run'[r])
  <2>1. run[r].pc = "enter" /\ run'[r].pc = "predicate"
    BY <1>6 DEF StartsRoot
  <2>2. QED
    BY <1>1, <1>6, <2>1, RootStarts
<1>7. ASSUME NEW s \in Steps, StartsChild(r, s) PROVE OperatorInv(run'[r])
  <2>1. run[r].pc = "enter" /\ run'[r].pc = "inherit"
    BY <1>7 DEF StartsChild
  <2>2. QED
    BY <1>1, <1>7, <2>1, ChildStarts
<1>8. ASSUME NEW s \in Steps, EntersChild(r, s) PROVE OperatorInv(run'[r])
  <2>1. run[r].pc = "inherit" /\ run'[r].pc = "predicate"
    BY <1>8 DEF EntersChild
  <2>2. QED
    BY <1>1, <1>8, <2>1, ChildIsEntered
<1>9. ASSUME NEW outcome \in {"true", "disabled", "false"}, Decides(r, outcome) PROVE OperatorInv(run'[r])
  <2>1. run[r].pc = "predicate" /\ run'[r].pc \in {"action", "enter", "return"}
    BY <1>9 DEF Decides
  <2>2. QED
    BY <1>1, <1>9, <2>1, StepIsDecided
<1>10. CASE EndsStep(r)
  <2>1. run[r].pc = "enter" /\ run'[r].pc = "return"
    BY <1>10 DEF EndsStep
  <2>2. QED
    BY <1>1, <1>10, <2>1, StepHasEnded
<1>11. CASE Leaves(r)
  <2>1. run[r].pc = "return" /\ run'[r].pc \in {"enter", "return"}
    BY <1>11 DEF Leaves
  <2>2. \A good \in SUBSET Steps : WalkInv(run[r], good) =>
          \E better \in SUBSET Steps : WalkInv(run'[r], better)
    BY <1>11, StepIsLeft, StepIsStopped
  <2>3. QED
    BY <1>1, <2>1, <2>2
<1>12. QED
  BY <1>2, <1>3, <1>4, <1>5, <1>6, <1>7, <1>8, <1>9, <1>10, <1>11 DEF Moves

\* What the schema says of a definition, given what it says of the children.
HoldsFrom(r, f) ==
  [s \in Steps |->
     /\ run[r].outcome[s] = "true"
     /\ Operator[Definition[s]] = "And" => \A i \in DOMAIN Kids[s] : f[Kids[s][i]]]

\* The steps that returned TRUE are those that the schema says hold: no tree lets two
\* sets of steps do that.
LEMMA GoodStepsHold ==
  ASSUME NEW r \in Runs, NEW good \in SUBSET Steps, \A s \in Steps : Settled(run[r], good, s)
  PROVE  \A s \in Steps : Holds(r)[s] <=> s \in good
<1> DEFINE g == [s \in Steps |-> s \in good]
<1>1. g = HoldsFrom(r, g)
  <2>1. ASSUME NEW s \in Steps
        PROVE  s \in good <=>
                 /\ run[r].outcome[s] = "true"
                 /\ Operator[Definition[s]] = "And" => \A i \in DOMAIN Kids[s] : g[Kids[s][i]]
    <3>1. \A i \in DOMAIN Kids[s] : Kids[s][i] \in Steps
      BY ConstantsAssumption
    <3>2. \A i \in DOMAIN Kids[s] : g[Kids[s][i]] <=> Kids[s][i] \in good
      BY <3>1
    <3> HIDE DEF g
    <3>3. QED
      BY <3>2 DEF Settled
  <2> DEFINE B(s) == /\ run[r].outcome[s] = "true"
                     /\ Operator[Definition[s]] = "And" => \A i \in DOMAIN Kids[s] : g[Kids[s][i]]
  <2>2. \A s \in Steps : (s \in good) = B(s)
    <3> HIDE DEF g
    <3> SUFFICES ASSUME NEW s \in Steps PROVE (s \in good) = B(s)
      OBVIOUS
    <3>1. CASE s \in good
      <4>1. B(s)
        BY <2>1, <3>1
      <4>2. QED
        BY <3>1, <4>1, Zenon
    <3>2. CASE s \notin good
      <4>1. ~B(s)
        BY <2>1, <3>2
      <4>2. (s \in good) = FALSE
        BY <3>2
      <4>3. B(s) = FALSE
        BY <4>1
      <4>4. QED
        BY <4>2, <4>3, Zenon
    <3>3. QED
      BY <3>1, <3>2, Zenon
  <2>3. HoldsFrom(r, g) = [s \in Steps |-> B(s)]
    BY Zenon DEF HoldsFrom
  <2> HIDE DEF B
  <2>4. g = [s \in Steps |-> B(s)]
    BY <2>2, Zenon
  <2>5. QED
    BY <2>3, <2>4
<1> HIDE DEF g
<1>2. Holds(r) = HoldsFrom(r, Holds(r))
  <2> DEFINE F(f) == HoldsFrom(r, f)
  <2>1. Holds(r) = CHOOSE f : f = F(f)
    BY Zenon DEF Holds, HoldsFrom
  <2>2. g = F(g)
    BY <1>1
  <2> HIDE DEF F
  <2>3. Holds(r) = F(Holds(r))
    BY <2>1, <2>2
  <2>4. QED
    BY <2>3 DEF F
<1> DEFINE h == Holds(r)
<1>3. ASSUME NEW s \in Steps
      PROVE  h[s] <=> /\ run[r].outcome[s] = "true"
                      /\ Operator[Definition[s]] = "And" => \A i \in DOMAIN Kids[s] : h[Kids[s][i]]
  BY <1>2 DEF HoldsFrom
<1> HIDE DEF h
<1> DEFINE wrong == {s \in Steps : ~(h[s] <=> s \in good)}
<1>4. SUFFICES ASSUME wrong # {} PROVE FALSE
  BY DEF h
<1>5. PICK s \in wrong : Range(Kids[s]) \cap wrong = {}
  <2>1. wrong \in SUBSET Steps
    OBVIOUS
  <2> HIDE DEF wrong
  <2>2. QED
    BY <1>4, <2>1, TreeAssumption
<1>6. ASSUME NEW i \in DOMAIN Kids[s] PROVE h[Kids[s][i]] <=> Kids[s][i] \in good
  <2>1. Kids[s][i] \in Steps /\ Kids[s][i] \in Range(Kids[s])
    BY ConstantsAssumption DEF Range
  <2>2. QED
    BY <1>5, <2>1
<1>7. QED
  BY <1>3, <1>5, <1>6 DEF Settled

\* At its end a run has left all steps, so that what it processed is what its
\* operators call for.
LEMMA OperatorsAtTheEnd ==
  ASSUME NEW r \in Runs, RunInv(r), OperatorInv(run[r]), At(r, "done")
  PROVE  {s \in Steps : run[r].outcome[s] # "unseen"} = ToBeProcessed(r)
<1> DEFINE x == run[r]
<1>1. /\ x.pc = "done" /\ x.stack = <<>> /\ x.of \in Workflows /\ x.root \in Nat \ {0}
      /\ x.root > Len(Roots[x.of])
  BY DEF RunInv, OperatorInv, At
<1>2. PICK good \in SUBSET Steps : WalkInv(x, good)
  BY <1>1 DEF OperatorInv
<1>3. SeenInv(x) /\ \A s \in Steps : Settled(x, good, s)
  BY <1>1, <1>2 DEF WalkInv, Closed
<1>4. \A s \in Steps : Holds(r)[s] <=> s \in good
  BY <1>3, GoodStepsHold
<1> DEFINE go(p, i) ==
             \A j \in 1..(i - 1) : CASE Operator[Definition[p]] = "And" -> Holds(r)[Kids[p][j]]
                                     [] Operator[Definition[p]] = "Or" -> ~Holds(r)[Kids[p][j]]
                                     [] OTHER -> TRUE
<1>5. ASSUME NEW p \in Steps, NEW i \in DOMAIN Kids[p]
      PROVE  go(p, i) <=> Reached(good, p, i)
  <2>1. \A j \in 1..(i - 1) : Kids[p][j] \in Steps
    BY ConstantsAssumption
  <2>2. ASSUME NEW j \in 1..(i - 1)
        PROVE  (CASE Operator[Definition[p]] = "And" -> Holds(r)[Kids[p][j]]
                  [] Operator[Definition[p]] = "Or" -> ~Holds(r)[Kids[p][j]]
                  [] OTHER -> TRUE) <=> Passes(good, p, j)
    BY <1>4, <2>1 DEF Passes, Stops
  <2>3. QED
    BY <2>2 DEF Reached
<1>6. ToBeProcessed(r) =
        Range(Roots[x.of]) \cup
          UNION {{Kids[p][i] : i \in {i \in DOMAIN Kids[p] : go(p, i)}} :
                 p \in {p \in Steps : x.outcome[p] = "true"}}
  BY DEF ToBeProcessed
<1> HIDE DEF go, x
<1>7. ASSUME NEW s \in Steps, Seen(x, s) PROVE s \in ToBeProcessed(r)
  <2>1. CASE s \in Range(Roots[x.of])
    BY <1>6, <2>1
  <2>2. ASSUME NEW p \in Steps, x.outcome[p] = "true", s \in Range(Kids[p]) PROVE s \in ToBeProcessed(r)
    <3>1. PICK i \in DOMAIN Kids[p] : s = Kids[p][i]
      BY <2>2 DEF Range
    <3>2. go(p, i)
      BY <1>3, <1>5, <1>7, <2>2, <3>1 DEF Settled
    <3>3. QED
      BY <1>6, <2>2, <3>1, <3>2
  <2>3. QED
    BY <1>3, <1>7, <2>1, <2>2 DEF SeenInv
<1>8. ASSUME NEW s \in ToBeProcessed(r) PROVE s \in Steps /\ Seen(x, s)
  <2>1. CASE s \in Range(Roots[x.of])
    <3>1. PICK i \in DOMAIN Roots[x.of] : s = Roots[x.of][i]
      BY <2>1 DEF Range
    <3>2. Roots[x.of] \in Seq(Steps)
      BY <1>1, ConstantsAssumption
    <3>3. s \in Steps /\ i < x.root
      BY <1>1, <3>1, <3>2
    <3>4. QED
      BY <1>1, <1>3, <3>1, <3>3 DEF SeenInv
  <2>2. ASSUME NEW p \in Steps, x.outcome[p] = "true", NEW i \in DOMAIN Kids[p], go(p, i), s = Kids[p][i]
        PROVE  s \in Steps /\ Seen(x, s)
    <3>1. s \in Steps
      BY <2>2, ConstantsAssumption
    <3>2. QED
      BY <1>3, <1>5, <2>2, <3>1 DEF Settled
  <2>3. QED
    BY <1>6, <1>8, <2>1, <2>2
<1>9. {s \in Steps : x.outcome[s] # "unseen"} = {s \in Steps : Seen(x, s)}
  BY DEF Seen
<1>10. QED
  BY <1>7, <1>8, <1>9 DEF x

-----------------------------------------------------------------------------
(* The specification *)

\* The inductive invariant.
IInv ==
  /\ DOMAIN run = Runs
  /\ CompileInv /\ CompiledFromItsDefinition /\ PropsInv
  /\ \A r \in Runs : RunInv(r) /\ PathInv(r) /\ FoundInv(r) /\ OperatorInv(run[r])

\* It holds before any run has begun.
LEMMA InitialState == Init => IInv
<1> SUFFICES ASSUME Init PROVE IInv
  OBVIOUS
<1>1. ASSUME NEW r \in Runs PROVE RunInv(r) /\ PathInv(r) /\ FoundInv(r) /\ OperatorInv(run[r])
  <2>1. run[r] = NewRun
    BY DEF Init
  <2>2. RunInv(r)
    BY <2>1 DEF RunInv, NewRun, Fields, Preparing, Walking, At
  <2>3. PathInv(r)
    BY <2>1 DEF PathInv, NewRun, At
  <2>4. FoundInv(r)
    BY <2>1 DEF FoundInv, NewRun
  <2>5. OperatorInv(run[r])
    BY <2>1 DEF OperatorInv, NewRun, Seen, Walking
  <2>6. QED
    BY <2>2, <2>3, <2>4, <2>5
<1>2. CompileInv /\ CompiledFromItsDefinition
  BY DEF Init, NewRun, CompileInv, CompiledFromItsDefinition, At
<1>3. PropsInv
  <2>1. props = OwnProperties
    BY DEF Init
  <2>2. ASSUME NEW s \in Steps, NEW k \in PropertyKeys PROVE OwnProperties[s][k] \in {None, Inherited[s][k]}
    BY InheritedValue
  <2>3. QED
    BY <2>1, <2>2, ConstantsAssumption DEF PropsInv
<1>4. DOMAIN run = Runs
  BY DEF Init
<1>5. QED
  BY <1>1, <1>2, <1>3, <1>4 DEF IInv

\* Every step keeps it.
LEMMA InductiveStep == IInv /\ [Next]_vars => IInv'
<1> SUFFICES ASSUME IInv, [Next]_vars PROVE IInv'
  OBVIOUS
<1>1. CompileInv' /\ CompiledFromItsDefinition'
  BY CompileStep DEF IInv
<1>2. PropsInv'
  BY PropsStep DEF IInv
<1>3. \A r \in Runs : FoundInv(r)'
  BY FoundStep DEF IInv
<1>4. DOMAIN run' = Runs
  BY OthersStay DEF IInv, Next, vars
<1>5. ASSUME NEW r \in Runs PROVE RunInv(r)' /\ PathInv(r)' /\ OperatorInv(run[r])'
  <2>1. RunInv(r) /\ PathInv(r) /\ OperatorInv(run[r]) /\ DOMAIN run = Runs
    BY DEF IInv
  <2>2. CASE run'[r] = run[r]
    BY <2>1, <2>2 DEF RunInv, PathInv, At, Top
  <2>3. CASE Step(r)
    <3>1. DOMAIN run'[r] = Fields /\ Moves(r)
      BY <2>1, <2>3, StepsMove DEF IInv, CompileInv
    <3>2. QED
      BY <2>1, <3>1, RunStep, PathStep, OperatorStep
  <2>4. ASSUME NEW q \in Runs, Step(q), q # r PROVE run'[r] = run[r]
    BY <2>1, <2>4, OthersStay
  <2>5. QED
    BY <2>2, <2>3, <2>4 DEF Next, vars
<1>6. QED
  BY <1>1, <1>2, <1>3, <1>4, <1>5 DEF IInv

\* Whatever runs there are, they share compilations and steps in good order.
THEOREM Invariant == Spec => []IInv
BY InitialState, InductiveStep, PTL DEF Spec

\* The steps that a run gets have in their order the definitions of its own
\* workflow's and, when they are nested alike, are to find the same properties,
\* whatever compilations CompileWorkflowAsync finds, removes and stores meanwhile.
THEOREM RunsItsOwnDefinition == Spec => []CompiledFromItsDefinition
<1>1. IInv => CompiledFromItsDefinition
  BY DEF IInv
<1>2. QED
  BY Invariant, <1>1, PTL

\* RunStepAsync processes what the operators and predicates of the tree call for, and
\* nothing else, in a run that ends without an error.
THEOREM OperatorsAreFollowed == Spec => []StepsFollowTheOperators
<1>1. IInv => StepsFollowTheOperators
  BY OperatorsAtTheEnd DEF IInv, StepsFollowTheOperators
<1>2. QED
  BY Invariant, <1>1, PTL

\* RunStepAsync attaches every result to the result of the step above, however the
\* steps before it were left.
THEOREM ResultsAreTheTree == Spec => []ResultsFollowTheSteps
<1>1. IInv => ResultsFollowTheSteps
  BY DEF IInv, PathInv, ResultsFollowTheSteps
<1>2. QED
  BY Invariant, <1>1, PTL

\* EnterStep gives a step what it has to find, unless two runs damaged a dictionary
\* on its path.
THEOREM StepsFindProperties == Spec => []PropertiesAreInherited
<1>1. IInv => PropertiesAreInherited
  <2> SUFFICES ASSUME IInv, NEW r \in Runs, NEW i \in DOMAIN run[r].stack,
                      {run[r].stack[j].step : j \in DOMAIN run[r].stack} \cap clashed = {}
               PROVE  props[run[r].stack[i].step] = Inherited[run[r].stack[i].step]
    BY DEF PropertiesAreInherited
  <2>1. run[r].stack \in Seq(Frames) /\ FoundInv(r)
    BY DEF IInv, RunInv
  <2>2. i \in 1..Len(run[r].stack) /\ \A j \in 1..i : j \in DOMAIN run[r].stack
    BY <2>1
  <2>3. \A j \in 1..i : run[r].stack[j].step \notin clashed
    BY <2>2
  <2>4. QED
    BY <2>1, <2>2, <2>3 DEF FoundInv
<1>2. QED
  BY Invariant, <1>1, PTL
=============================================================================
