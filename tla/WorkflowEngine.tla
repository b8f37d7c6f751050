--------------------------- MODULE WorkflowEngine ---------------------------
(***************************************************************************)
(* WorkflowEngine: runs of workflows that have one name, and so share one  *)
(* entry of the compilation cache and, through it, the step objects of the *)
(* workflow that was compiled. A run walks the tree of the steps with the  *)
(* stacks of its WorkflowContext.                                          *)
(***************************************************************************)
EXTENDS Naturals, Sequences, SequencesExt

CONSTANTS
  Runs,          \* calls of RunAsync
  Workflows,     \* Workflow objects, as the caller made or deserialised them
  Steps,         \* their WorkflowStep objects
  Roots,         \* Workflow.Steps
  Kids,          \* WorkflowStep.Steps
  Definition,    \* Name, Predicate, Operator, IsEnabled and Action of a step
  Operator,      \* of a definition: "None", "And" or "Or"
  HasPredicate, HasAction, Disabled, \* definitions
  PropertyKeys, PropertyValues,
  OwnProperties, \* Properties of each step as it was made
  InputTypes,    \* types of the input parameters
  Root,          \* what is above a step of Workflow.Steps
  None

ASSUME ConstantsAssumption ==
  /\ Roots \in [Workflows -> Seq(Steps)] /\ Kids \in [Steps -> Seq(Steps)]
  /\ \A s \in Steps : Operator[Definition[s]] \in {"None", "And", "Or"}
  /\ \A s \in Steps : Definition[s] \in HasPredicate \cup HasAction
  /\ OwnProperties \in [Steps -> [PropertyKeys -> PropertyValues \cup {None}]]
  /\ Root \notin Steps /\ None \notin Steps \cup Workflows \cup PropertyValues \cup {Root}

\* WorkflowValidator refuses a workflow that reaches a name twice, and thereby a step
\* in two places or above itself; no step is of two workflows.
ASSUME TreeAssumption ==
  /\ \A p, q \in Steps : Range(Kids[p]) \cap Range(Kids[q]) # {} => p = q
  /\ \A w \in Workflows, p \in Steps : Range(Roots[w]) \cap Range(Kids[p]) = {}
  /\ \A w \in Workflows : IsInjective(Roots[w])
  /\ \A p \in Steps : IsInjective(Kids[p])
  /\ \A S \in SUBSET Steps : S # {} => \E s \in S : Range(Kids[s]) \cap S = {}

VARIABLES
  cache,    \* the entry "workflow_<name>": a compilation
  props,    \* Properties of each step object
  run,      \* of each run: where it is
  clashed   \* history: steps that two runs added properties to at the same time

vars == <<cache, props, run, clashed>>

\* The step above each step.
Parent ==
  [s \in Steps |-> LET above == {p \in Steps : s \in Range(Kids[p])}
                   IN  IF above = {} THEN Root ELSE CHOOSE p \in above : TRUE]

\* The steps of each workflow, depth first.
PreOrder ==
  LET below[s \in Steps] == <<s>> \o FlattenSeq([i \in DOMAIN Kids[s] |-> below[Kids[s][i]]])
  IN  [w \in Workflows |-> FlattenSeq([i \in DOMAIN Roots[w] |-> below[Roots[w][i]]])]

\* What such a list is, for the finite trees that a run of the engine gets.
ASSUME PreOrderAssumption == \A w \in Workflows : PreOrder[w] \in Seq(Steps)

-----------------------------------------------------------------------------
(* CalculateHash *)

\* What is hashed of the steps, without a trace of their nesting; the hash of that
\* is taken to be injective.
CalculateHash(w) ==
  [i \in DOMAIN PreOrder[w] |-> <<Definition[PreOrder[w][i]], props[PreOrder[w][i]]>>]

Definitions(w) == [i \in DOMAIN PreOrder[w] |-> Definition[PreOrder[w][i]]]

-----------------------------------------------------------------------------

\* of: the workflow whose step objects it holds; token: ChangeToken; type:
\* ArgumentType.
Compilation(w, token, type) == [of |-> w, token |-> token, type |-> type]

\* stack: the calls of RunStepAsync; contexts: the stacks of the WorkflowContext;
\* value: what RunStepAsync returned; outcome: what a step's predicate and action
\* came to; above: the step whose result got the step's result as a child.
NewRun ==
  [pc |-> "ready", of |-> None, hash |-> <<>>, type |-> None, compilation |-> None,
   root |-> 1, stack |-> <<>>, contexts |-> <<>>, child |-> None, value |-> FALSE,
   outcome |-> [s \in Steps |-> "unseen"], above |-> [s \in Steps |-> None]]

Init ==
  /\ cache = None
  /\ props = OwnProperties
  /\ run = [r \in Runs |-> NewRun]
  /\ clashed = {}

At(r, pc) == run[r].pc = pc

Goes(r, pc) == [run[r] EXCEPT !.pc = pc]

\* An exception that RunAsync does not catch.
Throws(r) == run' = [run EXCEPT ![r] = Goes(r, "thrown")]

-----------------------------------------------------------------------------
(* Compilation *)

\* The properties that r is adding to the child it enters.
Missing(r) ==
  {k \in PropertyKeys : props[run[r].child][k] = None /\ props[Last(run[r].contexts)][k] # None}

Adding(r, s) == At(r, "inherit") /\ run[r].child = s /\ Missing(r) # {}

\* RunAsync validates the workflow.
RunAsync(r, w, type) ==
  /\ At(r, "ready")
  /\ run' = [run EXCEPT ![r] = [Goes(r, "hash") EXCEPT !.of = w, !.type = type]]
  /\ UNCHANGED <<cache, props, clashed>>

\* CompileWorkflowAsync begins with the hash; a dictionary that is added to
\* meanwhile makes it throw.
TakeHash(r) ==
  /\ At(r, "hash")
  /\ \/ run' = [run EXCEPT ![r] = [Goes(r, "lookup") EXCEPT !.hash = CalculateHash(run[r].of)]]
     \/ /\ \E q \in Runs, s \in Range(PreOrder[run[r].of]) : Adding(q, s)
        /\ Throws(r)
  /\ UNCHANGED <<cache, props, clashed>>

\* Faulty variant: whatever the cache holds will do.
AnyCompilation(r, compilation) == TRUE

IsCurrent(r, compilation) == compilation.token = run[r].hash

\* GetOrCreateAsync: the entry that is there, to be used or removed ...
Lookup(r) ==
  /\ At(r, "lookup")
  /\ run' = [run EXCEPT ![r] =
       IF cache = None THEN Goes(r, "compile")
       ELSE IF IsCurrent(r, cache) THEN [Goes(r, "bind") EXCEPT !.compilation = cache]
       ELSE Goes(r, "remove")]
  /\ UNCHANGED <<cache, props, clashed>>

\* ... or one that is compiled without a lock and replaces what others stored.
Compile(r) ==
  /\ At(r, "compile")
  /\ LET compilation == Compilation(run[r].of, run[r].hash, run[r].type)
     IN  /\ cache' = compilation
         /\ run' = [run EXCEPT ![r] = [Goes(r, "bind") EXCEPT !.compilation = compilation]]
  /\ UNCHANGED <<props, clashed>>

\* A predicate that does not parse.
CompileFails(r) ==
  /\ At(r, "compile")
  /\ Throws(r)
  /\ UNCHANGED <<cache, props, clashed>>

\* Faulty variant: the entry of another definition stays.
Kept == cache

RemovedEntry == None

\* MemoryCache.Remove, and CompileWorkflowAsync again, from the hash on.
RemoveStale(r) ==
  /\ At(r, "remove")
  /\ cache' = RemovedEntry
  /\ run' = [run EXCEPT ![r] = [Goes(r, "hash") EXCEPT !.hash = <<>>]]
  /\ UNCHANGED <<props, clashed>>

\* The inputs become properties of an object of the compilation's ArgumentType.
BindArguments(r) ==
  /\ At(r, "bind")
  /\ IF run[r].compilation.type = run[r].type
     THEN run' = [run EXCEPT ![r] =
            [Goes(r, "enter") EXCEPT !.of = run[r].compilation.of, !.hash = <<>>, !.type = None,
                                     !.compilation = None]]
     ELSE Throws(r)
  /\ UNCHANGED <<cache, props, clashed>>

-----------------------------------------------------------------------------
(* Running steps *)

Top(r) == Last(run[r].stack)

\* The step whose result gets the result of the step that is entered.
Above(r) == IF run[r].contexts = <<>> THEN Root ELSE Last(run[r].contexts)

Frame(s) == [step |-> s, next |-> 1]

\* The next root of the workflow, or its end.
EnterRoot(r) ==
  /\ At(r, "enter") /\ run[r].stack = <<>>
  /\ LET roots == Roots[run[r].of]
         s == roots[run[r].root]
     IN  run' = [run EXCEPT ![r] =
           IF run[r].root > Len(roots) THEN Goes(r, "done")
           ELSE [Goes(r, "predicate") EXCEPT !.root = @ + 1, !.above[s] = Above(r),
                                             !.stack = <<Frame(s)>>,
                                             !.contexts = Append(@, s)]]
  /\ UNCHANGED <<cache, props, clashed>>

\* The next child of the step on top of the stack, or the end of the step. The
\* child's result goes to the result on top of the context's stack.
EnterChild(r) ==
  /\ At(r, "enter") /\ run[r].stack # <<>>
  /\ LET kids == Kids[Top(r).step]
         s == kids[Top(r).next]
     IN  run' = [run EXCEPT ![r] =
           IF Top(r).next > Len(kids) THEN [Goes(r, "return") EXCEPT !.value = TRUE]
           ELSE [Goes(r, "inherit") EXCEPT !.child = s, !.above[s] = Above(r),
                                           !.stack[Len(run[r].stack)].next = @ + 1]]
  /\ UNCHANGED <<cache, props, clashed>>

\* Faulty variant: what the child says is overwritten.
Overwriting(r, keys) ==
  [k \in PropertyKeys |-> IF props[Last(run[r].contexts)][k] # None
                         THEN props[Last(run[r].contexts)][k] ELSE props[run[r].child][k]]

\* The child's properties with those it does not have.
Inheriting(r, keys) ==
  [k \in PropertyKeys |-> IF k \in keys THEN props[Last(run[r].contexts)][k]
                         ELSE props[run[r].child][k]]

\* EnterStep of a child ends: its properties are added and it is pushed. When two
\* runs add to one dictionary, which is not made for that, any addition may get
\* lost.
Inherit(r) ==
  /\ At(r, "inherit")
  /\ LET s == run[r].child
         clash == \E q \in Runs \ {r} : Adding(r, s) /\ Adding(q, s)
     IN  /\ \E keys \in (IF clash THEN SUBSET Missing(r) ELSE {Missing(r)}) :
              props' = [props EXCEPT ![s] = Inheriting(r, keys)]
         /\ clashed' = IF clash THEN clashed \cup {s} ELSE clashed
         /\ run' = [run EXCEPT ![r] =
              [Goes(r, "predicate") EXCEPT !.child = None, !.stack = Append(@, Frame(s)),
                                        !.contexts = Append(@, s)]]
  /\ UNCHANGED cache

\* An exception below RunStepAsync: every step on the stack exits, and the results
\* so far are returned with HasError.
Fails(r) == [Goes(r, "error") EXCEPT !.stack = <<>>, !.contexts = <<>>, !.child = None]

\* Dictionaries that were damaged, or are added to because something got lost.
InheritThrows(r) ==
  /\ At(r, "inherit")
  /\ {run[r].child, Last(run[r].contexts)} \cap clashed # {}
  /\ run' = [run EXCEPT ![r] = Fails(r)]
  /\ UNCHANGED <<cache, props, clashed>>

Returns(r, outcome) ==
  [Goes(r, "return") EXCEPT !.value = FALSE, !.outcome[Top(r).step] = outcome]

\* A disabled step.
Skip(r) ==
  /\ At(r, "predicate") /\ Definition[Top(r).step] \in Disabled
  /\ run' = [run EXCEPT ![r] = Returns(r, "disabled")]
  /\ UNCHANGED <<cache, props, clashed>>

Predicate(r) ==
  /\ At(r, "predicate") /\ Definition[Top(r).step] \notin Disabled
  /\ LET definition == Definition[Top(r).step]
         s == Top(r).step
     IN  \/ run' = [run EXCEPT ![r] =
              [Goes(r, IF definition \in HasAction THEN "action" ELSE "enter")
                 EXCEPT !.outcome[s] = "true"]]
         \/ /\ definition \in HasPredicate
            /\ run' = [run EXCEPT ![r] = Returns(r, "false")]
         \/ /\ definition \in HasPredicate
            /\ run' = [run EXCEPT ![r] = [Fails(r) EXCEPT !.outcome[s] = "failed"]]
  /\ UNCHANGED <<cache, props, clashed>>

\* IStepAction.RunAsync ends or throws.
ActionEnds(r) ==
  /\ At(r, "action")
  /\ \/ run' = [run EXCEPT ![r] = Goes(r, "enter")]
     \/ run' = [run EXCEPT ![r] = [Fails(r) EXCEPT !.outcome[Top(r).step] = "failed"]]
  /\ UNCHANGED <<cache, props, clashed>>

\* Faulty variant: And goes on, too.
OrOnly(operator, value) == operator = "Or" /\ value

\* A child's value that ends the step above it, which returns the same value.
Stops(operator, value) == (operator = "And" /\ ~value) \/ (operator = "Or" /\ value)

\* Faulty variant: the return of an operator leaves the child on the stack.
ExitUnlessStopped(contexts, stops) == IF stops THEN contexts ELSE Front(contexts)

\* ExitStep, in a finally block.
ExitStep(contexts, stops) == Front(contexts)

\* RunStepAsync returned to the loop over the children, or over the roots.
Return(r) ==
  /\ At(r, "return")
  /\ LET rest == Front(run[r].stack)
         stops == rest # <<>> /\ Stops(Operator[Definition[Last(rest).step]], run[r].value)
     IN  run' = [run EXCEPT ![r] =
           [Goes(r, IF stops THEN "return" ELSE "enter") EXCEPT
              !.stack = rest, !.contexts = ExitStep(@, stops)]]
  /\ UNCHANGED <<cache, props, clashed>>

-----------------------------------------------------------------------------
(* Specification *)

Step(r) ==
  \/ \E w \in Workflows, type \in InputTypes : RunAsync(r, w, type)
  \/ TakeHash(r)
  \/ Lookup(r)
  \/ Compile(r)
  \/ CompileFails(r)
  \/ RemoveStale(r)
  \/ BindArguments(r)
  \/ EnterRoot(r)
  \/ EnterChild(r)
  \/ Inherit(r)
  \/ InheritThrows(r)
  \/ Skip(r)
  \/ Predicate(r)
  \/ ActionEnds(r)
  \/ Return(r)

Next == \E r \in Runs : Step(r)

\* Calls of the runtime return, and so do the actions of the steps.
Spec == Init /\ [][Next]_vars /\ \A r \in Runs : WF_vars(Step(r))

-----------------------------------------------------------------------------
(* Properties *)

\* What the schema says of a definition, given what its predicates came to.
Holds(r) ==
  LET holds[s \in Steps] ==
        /\ run[r].outcome[s] = "true"
        /\ Operator[Definition[s]] = "And" => \A i \in DOMAIN Kids[s] : holds[Kids[s][i]]
  IN  holds

\* Every child of a step whose predicate is true is processed, up to the first one
\* that does not hold (And) or that holds (Or).
ToBeProcessed(r) ==
  LET holds == Holds(r)
      go(p, i) ==
        \A j \in 1..(i - 1) : CASE Operator[Definition[p]] = "And" -> holds[Kids[p][j]]
                                [] Operator[Definition[p]] = "Or" -> ~holds[Kids[p][j]]
                                [] OTHER -> TRUE
  IN  Range(Roots[run[r].of]) \cup
        UNION {{Kids[p][i] : i \in {i \in DOMAIN Kids[p] : go(p, i)}} :
               p \in {p \in Steps : run[r].outcome[p] = "true"}}

\* A run that ends without an error processed the steps that the operators and
\* predicates of its tree call for, and no others.
StepsFollowTheOperators ==
  \A r \in Runs :
    At(r, "done") => {s \in Steps : run[r].outcome[s] # "unseen"} = ToBeProcessed(r)

\* The tree of results is the tree of the steps, however steps were left.
ResultsFollowTheSteps ==
  \A r \in Runs, s \in Steps : run[r].above[s] # None => run[r].above[s] = Parent[s]

\* What a step has to find in its properties: its own and, where it has none, what
\* the nearest step above has.
Inherited ==
  LET inherited[s \in Steps] ==
        [k \in PropertyKeys |->
           IF OwnProperties[s][k] # None \/ Parent[s] = Root THEN OwnProperties[s][k]
           ELSE inherited[Parent[s]][k]]
  IN  inherited

\* The steps of two workflows have the same steps above them, place by place.
SameNesting(v, w) ==
  \A i \in DOMAIN PreOrder[w] :
    \/ Parent[PreOrder[v][i]] = Root /\ Parent[PreOrder[w][i]] = Root
    \/ \E j \in 1..(i - 1) :
          Parent[PreOrder[v][i]] = PreOrder[v][j] /\ Parent[PreOrder[w][i]] = PreOrder[w][j]

\* Each of their steps has to find the same properties.
SameProperties(v, w) ==
  \A i \in DOMAIN PreOrder[w] : Inherited[PreOrder[v][i]] = Inherited[PreOrder[w][i]]

\* The steps that a run gets, be they made for it or for another run, have in their
\* order the definitions of its own workflow's steps, whatever workflow of the same
\* name is in the cache and while others replace it. When they are nested alike,
\* which a hash does not tell, each is also to find the properties that its own
\* workflow gives it, although the hashes were taken of half filled dictionaries.
CompiledFromItsDefinition ==
  \A r \in Runs :
    At(r, "bind") =>
      /\ Definitions(run[r].compilation.of) = Definitions(run[r].of)
      /\ SameNesting(run[r].compilation.of, run[r].of) =>
           SameProperties(run[r].compilation.of, run[r].of)

\* A step that is run finds the properties of the steps above it, although all
\* runs of a compilation fill the same dictionaries in any order; unless two runs
\* once added to one of them at the same time.
PropertiesAreInherited ==
  \A r \in Runs :
    At(r, "predicate") =>
      LET path == {run[r].stack[i].step : i \in DOMAIN run[r].stack}
      IN  path \cap clashed = {} => \A s \in path : props[s] = Inherited[s]

\* Every run ends: of runs that replace each other's compilation, one gets on.
RunsEnd == \A r \in Runs : <>(run[r].pc \in {"done", "error", "thrown"})
=============================================================================
