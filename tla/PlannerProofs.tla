---------------------------- MODULE PlannerProofs ----------------------------
(* Proofs about planning, for every workspace, command line and environment: no
   task is expanded inside itself, a cached command sees no variable its entry
   does not depend on, a task is cached as the nearest flag around it says, the
   extra arguments reach what they are for, the package around the current
   directory is loaded, and the tasks of a query are those asked for, in their
   order.  They rest on the shape of the stack of calls and on a classification of
   the planner's steps by what they do to it (Step).  The task graph in its lazy
   form, which the planner reads, comes last. *)
EXTENDS Planner, LazyGraph, FiniteSetTheorems, SequenceTheorems, WellFoundedInduction, TLAPS

-----------------------------------------------------------------------------
(* Lists, of whatever they hold. *)

IsList(s) == s \in Seq(ToSet(s))

LEMMA ListFacts ==
  ASSUME NEW S, NEW s \in Seq(S)
  PROVE  /\ IsList(s) /\ Len(s) \in Nat /\ DOMAIN s = 1 .. Len(s)
         /\ ToSet(s) \subseteq S /\ \A i \in DOMAIN s : s[i] \in ToSet(s)
         /\ s = <<>> <=> Len(s) = 0
<1>1. Len(s) \in Nat /\ DOMAIN s = 1 .. Len(s) /\ \A i \in DOMAIN s : s[i] \in S
  OBVIOUS
<1>2. ToSet(s) \subseteq S /\ \A i \in DOMAIN s : s[i] \in ToSet(s)
  BY <1>1 DEF ToSet
<1>3. s \in [1 .. Len(s) -> ToSet(s)]
  BY <1>1, <1>2
<1>4. IsList(s)
  BY <1>1, <1>3, SeqDef DEF IsList
<1> QED
  BY <1>1, <1>2, <1>4, EmptySeq

LEMMA AppendList ==
  ASSUME NEW s, IsList(s), NEW x
  PROVE  /\ IsList(Append(s, x)) /\ ToSet(Append(s, x)) = ToSet(s) \cup {x}
         /\ Len(Append(s, x)) = Len(s) + 1 /\ Append(s, x)[Len(s) + 1] = x
         /\ \A i \in 1 .. Len(s) : Append(s, x)[i] = s[i]
<1> DEFINE S == ToSet(s) \cup {x}
<1> DEFINE t == Append(s, x)
<1>1. s \in Seq(S) /\ x \in S
  BY DEF IsList
<1>2. t \in Seq(S) /\ Len(t) = Len(s) + 1 /\ t[Len(s) + 1] = x /\ \A i \in 1 .. Len(s) : t[i] = s[i]
  BY <1>1, AppendProperties
<1>3. /\ DOMAIN t = 1 .. (Len(s) + 1) /\ DOMAIN s = 1 .. Len(s) /\ Len(s) \in Nat
  BY <1>1, <1>2
<1>4. DOMAIN t = DOMAIN s \cup {Len(s) + 1}
  BY <1>3
<1>5. ToSet(t) = S
  BY <1>2, <1>3, <1>4 DEF ToSet
<1>6. IsList(t)
  BY <1>2, ListFacts
<1> QED
  BY <1>2, <1>5, <1>6

LEMMA JoinLists ==
  ASSUME NEW s, IsList(s), NEW t, IsList(t)
  PROVE  IsList(s \o t) /\ ToSet(s \o t) = ToSet(s) \cup ToSet(t)
<1> DEFINE S == ToSet(s) \cup ToSet(t)
<1> DEFINE u == s \o t
<1>1. s \in Seq(S) /\ t \in Seq(S)
  BY DEF IsList
<1>2. u \in Seq(S) /\ Len(u) = Len(s) + Len(t)
  BY <1>1, ConcatProperties
<1>3. \A i \in 1 .. (Len(s) + Len(t)) : u[i] = IF i <= Len(s) THEN s[i] ELSE t[i - Len(s)]
  BY <1>1, ConcatProperties
<1>4. DOMAIN u = 1 .. (Len(s) + Len(t)) /\ DOMAIN s = 1 .. Len(s) /\ DOMAIN t = 1 .. Len(t)
      /\ Len(s) \in Nat /\ Len(t) \in Nat
  BY <1>1, <1>2
<1>5. ToSet(u) \subseteq S
  BY <1>2, ListFacts
<1>6. ToSet(s) \subseteq ToSet(u)
  BY <1>3, <1>4 DEF ToSet
<1>7. ASSUME NEW j \in DOMAIN t PROVE t[j] \in ToSet(u)
  <2>1. Len(s) + j \in DOMAIN u /\ u[Len(s) + j] = t[j]
    BY <1>3, <1>4
  <2> QED
    BY <2>1 DEF ToSet
<1>8. ToSet(t) \subseteq ToSet(u)
  BY <1>7 DEF ToSet
<1> QED
  BY <1>2, <1>5, <1>6, <1>8, ListFacts

(* The first elements of a list. *)
LEMMA FrontList ==
  ASSUME NEW s, IsList(s), s # <<>>
  PROVE  /\ IsList(Front(s)) /\ Len(Front(s)) = Len(s) - 1 /\ Len(s) \in Nat \ {0}
         /\ \A i \in 1 .. (Len(s) - 1) : Front(s)[i] = s[i]
<1> DEFINE S == ToSet(s)
<1>1. s \in Seq(S) /\ Len(s) \in Nat \ {0}
  BY ListFacts DEF IsList
<1>2. Front(s) \in Seq(S) /\ Len(Front(s)) = Len(s) - 1 /\ \A i \in 1 .. (Len(s) - 1) : Front(s)[i] = s[i]
  BY <1>1, SubSeqProperties DEF Front
<1> QED
  BY <1>1, <1>2, ListFacts
-----------------------------------------------------------------------------
(* The stack of calls, and what a step does to it. *)

QueryFields == {"kind", "stage", "ctx", "args", "query", "live", "tasks", "frontier", "pruned",
                "planned", "edges"}
TaskFields == {"kind", "stage", "id", "ctx", "hooks", "cwd", "command", "step", "items"}
ContextFields == {"calls", "parent", "cache", "remote", "envs", "path", "extra"}

ContextShape(ctx) == DOMAIN ctx = ContextFields /\ IsList(ctx.calls)

FrameShape(f) ==
  /\ f.kind \in {"query", "task"}
  /\ f.kind = "query" => DOMAIN f = QueryFields
  /\ f.kind = "task" => DOMAIN f = TaskFields /\ IsList(f.items)
  /\ ContextShape(f.ctx)

(* A query is called by a task or by nobody, and a task always by somebody.
   A caller has begun. *)
CallerShape(i) ==
  /\ frames[i].kind = "task" => i # 1
  /\ i # 1 /\ frames[i].kind = "query" => frames[i - 1].kind = "task"
  /\ i # Len(frames) /\ frames[i].kind = "query" => frames[i].stage # "open"

StackShape ==
  /\ IsList(frames)
  /\ \A i \in 1 .. Len(frames) : FrameShape(frames[i]) /\ CallerShape(i)
  /\ graph = None => frames = <<>>
  /\ workspace = None => graph = None

LEMMA Becoming ==
  ASSUME IsList(frames), frames # <<>>, NEW f, Become(f)
  PROVE  /\ IsList(frames') /\ Len(frames') = Len(frames) /\ Len(frames) \in Nat \ {0}
         /\ frames'[Len(frames)] = f /\ \A i \in 1 .. (Len(frames) - 1) : frames'[i] = frames[i]
<1>1. frames' = Append(Callers, f)
  BY DEF Become
<1>2. /\ IsList(Callers) /\ Len(Callers) = Len(frames) - 1 /\ Len(frames) \in Nat \ {0}
      /\ \A i \in 1 .. (Len(frames) - 1) : Callers[i] = frames[i]
  BY FrontList DEF Callers
<1> QED
  BY <1>1, <1>2, AppendList

LEMMA Calling ==
  ASSUME IsList(frames), frames # <<>>, NEW f, NEW g, Call(f, g)
  PROVE  /\ IsList(frames') /\ Len(frames') = Len(frames) + 1 /\ Len(frames) \in Nat \ {0}
         /\ frames'[Len(frames)] = f /\ frames'[Len(frames) + 1] = g
         /\ \A i \in 1 .. (Len(frames) - 1) : frames'[i] = frames[i]
<1> DEFINE s == Append(Callers, f)
<1>1. /\ IsList(Callers) /\ Len(Callers) = Len(frames) - 1 /\ Len(frames) \in Nat \ {0}
      /\ \A i \in 1 .. (Len(frames) - 1) : Callers[i] = frames[i]
  BY FrontList DEF Callers
<1>2. frames' = Append(s, g)
  <2> DEFINE S == ToSet(Callers) \cup {f, g}
  <2>1. Callers \in Seq(S) /\ f \in S /\ g \in S
    BY <1>1 DEF IsList
  <2>2. Callers \o <<f, g>> = Append(Append(Callers, f), g)
    BY <2>1
  <2> QED
    BY <2>2 DEF Call
<1>3. IsList(s) /\ Len(s) = Len(frames) /\ s[Len(frames)] = f /\ \A i \in 1 .. (Len(frames) - 1) : s[i] = frames[i]
  BY <1>1, AppendList
<1> HIDE DEF s
<1> QED
  BY <1>1, <1>2, <1>3, AppendList

(* The caller goes on with what it is given. *)
Resume(f) == frames' = Append(Front(Callers), f) /\ UNCHANGED <<session, outcome>>

LEMMA Resuming ==
  ASSUME IsList(frames), Len(frames) > 1, NEW f, Resume(f)
  PROVE  /\ IsList(frames') /\ Len(frames') = Len(frames) - 1 /\ Len(frames) \in Nat
         /\ frames'[Len(frames) - 1] = f /\ \A i \in 1 .. (Len(frames) - 2) : frames'[i] = frames[i]
<1>1. frames # <<>> /\ Len(frames) \in Nat
  BY ListFacts DEF IsList
<1>2. /\ IsList(Callers) /\ Len(Callers) = Len(frames) - 1
      /\ \A i \in 1 .. (Len(frames) - 1) : Callers[i] = frames[i]
  BY <1>1, FrontList DEF Callers
<1>3. Callers # <<>>
  BY <1>1, <1>2
<1>4. /\ IsList(Front(Callers)) /\ Len(Front(Callers)) = Len(frames) - 2
      /\ \A i \in 1 .. (Len(frames) - 2) : Front(Callers)[i] = frames[i]
  BY <1>1, <1>2, <1>3, FrontList
<1>5. frames' = Append(Front(Callers), f)
  BY DEF Resume
<1> HIDE DEF Resume
<1> QED
  BY <1>1, <1>4, <1>5, AppendList

(* The call on top is replaced, by itself or with the one it makes, or its caller
   goes on: every other call is as it was. *)
Changed(f, g) == frames # <<>> /\ (Become(f) \/ Call(f, g) \/ (Len(frames) > 1 /\ Resume(f)))

LEMMA Changing ==
  ASSUME IsList(frames), NEW f, NEW g, Changed(f, g)
  PROVE  \A i \in 1 .. Len(frames') :
           \/ frames'[i] = f \/ frames'[i] = g
           \/ i \in 1 .. Len(frames) /\ frames'[i] = frames[i]
<1> DEFINE n == Len(frames)
<1>1. CASE Become(f)
  <2>1. /\ Len(frames') = n /\ n \in Nat \ {0} /\ frames'[n] = f
        /\ \A i \in 1 .. (n - 1) : frames'[i] = frames[i]
    BY <1>1, Becoming DEF Changed
  <2>2. \A i \in 1 .. n : i = n \/ i \in 1 .. (n - 1)
    BY <2>1
  <2> QED
    BY <2>1, <2>2
<1>2. CASE Call(f, g)
  <2>1. /\ Len(frames') = n + 1 /\ n \in Nat \ {0} /\ frames'[n] = f /\ frames'[n + 1] = g
        /\ \A i \in 1 .. (n - 1) : frames'[i] = frames[i]
    BY <1>2, Calling DEF Changed
  <2>2. \A i \in 1 .. (n + 1) : i = n \/ i = n + 1 \/ (i \in 1 .. (n - 1) /\ i \in 1 .. n)
    BY <2>1
  <2> QED
    BY <2>1, <2>2
<1>3. CASE Len(frames) > 1 /\ Resume(f)
  <2>1. /\ Len(frames') = n - 1 /\ n \in Nat /\ frames'[n - 1] = f
        /\ \A i \in 1 .. (n - 2) : frames'[i] = frames[i]
    BY <1>3, Resuming
  <2>2. \A i \in 1 .. (n - 1) : i = n - 1 \/ (i \in 1 .. (n - 2) /\ i \in 1 .. n)
    BY <2>1
  <2> QED
    BY <2>1, <2>2
<1> QED
  BY <1>1, <1>2, <1>3 DEF Changed

-----------------------------------------------------------------------------
(* The kinds of steps. *)

(* The planning starts, or has come to an end. *)
Starts == \E args, cwd : frames' = <<QueryCall(SessionContext, args, cwd)>>
                          /\ UNCHANGED session /\ graph # None

Ends == frames' = <<>> /\ UNCHANGED session

(* Nothing is being planned, or nothing happens. *)
Waits ==
  /\ UNCHANGED frames
  /\ UNCHANGED session \/ (frames = <<>> /\ workspace' # None /\ (FindWorkspace \/ LoadGraph))

SameQueryFrame(f) ==
  /\ f.kind = "query" /\ DOMAIN f = QueryFields
  /\ f.planned = Top.planned /\ f.args = Top.args

SameTaskFrame(f) ==
  /\ f.kind = "task" /\ DOMAIN f = TaskFields
  /\ f.id = Top.id /\ f.ctx = Top.ctx /\ f.hooks = Top.hooks

(* The tasks a query has found are tasks of its packages. *)
TasksExist(f) ==
  f.stage \in {"expand", "plan", "wired"} => \A id \in DOMAIN f.tasks : HasTask(graph, world.disk, id)

(* What a query has begun to plan it plans to the end. *)
PlansOn(f) == Top.stage \in {"plan", "wired"} => f.stage \in {"plan", "wired"} /\ f.tasks = Top.tasks

(* What a query does between the call of it and its return. *)
QueryAction ==
  \/ OpenQuery \/ SelectPackages \/ BridgePackage \/ MapToTasks \/ AddDependencies
  \/ StartPlanning \/ WireTasks

(* A query goes on: its context is the level's once it has begun. *)
QueryGoesOn ==
  \E f : /\ QueryAction /\ Become(f) /\ Top.kind = "query" /\ SameQueryFrame(f) /\ f.stage # "open"
         /\ TasksExist(Top) => TasksExist(f)
         /\ PlansOn(f)
         /\ f.ctx = IF Top.stage = "open" THEN LevelContext(Top.ctx, Top.args, Top.query) ELSE Top.ctx

(* A task goes on, with a new item or without one. *)
TaskGoesOn(f) == Become(f) /\ Top.kind = "task" /\ SameTaskFrame(f)

TaskMoves == \E f : TaskGoesOn(f) /\ f.items = Top.items

(* What the cache of a command's item is. *)
CacheOfCommand(cache, ctx, step) ==
  \/ cache = OwnCache(ctx)
  \/ /\ Command.kind = "steps" /\ Command.steps[step].kind \in {"own", "synthetic"}
     /\ OwnCache(ctx) = None => cache = None

(* Where the last step of a task's last command is. *)
LastPosition(id) ==
  LET commands == Task(graph, world.disk, id).commands
      last == Len(commands)
  IN <<last, IF commands[last].kind = "shell" THEN 1 ELSE Len(commands[last].steps)>>

(* Only the last step gets the extra arguments. *)
ExtraAt(position) == IF position = LastPosition(Top.id) THEN Top.ctx.extra ELSE <<>>

ItemOfCommand(item) ==
  \E ctx, cache, prefix, program, step, extra :
    /\ item = Spawn(Top, ctx, cache, prefix, program, <<Top.command, step>>, extra)
    /\ ctx.cache = Top.ctx.cache
    /\ CacheOfCommand(cache, ctx, step)
    /\ extra = ExtraAt(<<Top.command, step>>)

TaskEmits ==
  \E f, item : /\ TaskGoesOn(f) /\ f.items = Append(Top.items, item)
               /\ item.kind = "inProcess" \/ ItemOfCommand(item)

(* A task is called by a query or by the task it is a hook of. *)
SameCaller(f) ==
  \/ Top.kind = "query" /\ f = Top /\ Top.stage # "open"
  \/ Top.kind = "task" /\ SameTaskFrame(f) /\ f.items = Top.items

(* A query plans the tasks it has found but the pruned one.  Those it asks for get
   its arguments, and their hooks get none. *)
Passed(id, ctx, hooks) ==
  \/ /\ Top.kind = "query" /\ Top.stage = "plan" /\ id \in (DOMAIN Top.tasks) \ {Top.pruned}
     /\ ctx.extra = IF Top.tasks[id].requested THEN Top.args.extra ELSE <<>>
  \/ /\ Top.kind = "task" /\ Top.hooks /\ ~hooks /\ ctx.extra = <<>>
     /\ \E when \in {"pre", "post"} : id = <<Top.id[1], HookName(when, Top.id[2])>>

CallsTask ==
  \E f, id, ctx, hooks :
    /\ Call(f, TaskCall(id, ctx, hooks)) /\ SameCaller(f) /\ Passed(id, ctx, hooks)
    /\ DOMAIN ctx = ContextFields /\ ctx.calls = Top.ctx.calls /\ ctx.cache = Top.ctx.cache
    /\ ~CheckRecursion(id, ctx)
    /\ (Top.kind = "query" /\ Top.stage = "plan" /\ id \in DOMAIN Top.tasks) \/ HasTask(graph, world.disk, id)

CallsQuery ==
  \E f, args, cwd :
    Call(f, QueryCall(StepContext, args, cwd)) /\ Top.kind = "task" /\ SameTaskFrame(f) /\ f.items = Top.items

Caller == frames[Len(frames) - 1]

TaskReturns ==
  /\ Top.kind = "task"
  /\ Resume(IF Caller.kind = "query" THEN [Caller EXCEPT !.planned = Over(Only(Top.id, Top.items), @)]
            ELSE [Caller EXCEPT !.items = @ \o Top.items])

QueryReturns ==
  /\ Top.kind = "query" /\ Len(frames) # 1
  /\ \E item : item.kind = "expanded" /\ Resume([Caller EXCEPT !.items = Append(@, item)])

Step ==
  \/ Starts \/ Ends \/ Waits \/ QueryGoesOn \/ TaskMoves \/ TaskEmits
  \/ CallsTask \/ CallsQuery \/ TaskReturns \/ QueryReturns

LEMMA Failing ==
  ASSUME NEW error, Fail(error)
  PROVE  Ends
BY DEF Fail, End, Ends

LEMMA TopShape ==
  ASSUME StackShape, frames # <<>>
  PROVE  FrameShape(Top) /\ CallerShape(Len(frames)) /\ Len(frames) \in Nat \ {0}
BY FrontList DEF StackShape, Top

LEMMA SessionSteps ==
  ASSUME StackShape, FindWorkspace \/ LoadGraph \/ Begin \/ Select
  PROVE  Step
<1>1. CASE FindWorkspace
  BY <1>1 DEF FindWorkspace, Fail, End, Ends, Waits, Step, StackShape
<1>2. CASE LoadGraph
  BY <1>2 DEF LoadGraph, Fail, End, Ends, Waits, Step, StackShape
<1>3. CASE Begin
  BY <1>3 DEF Begin, ShowSelector, End, Ends, Starts, Step
<1>4. CASE Select
  BY <1>4 DEF Select, Fail, End, Ends, Starts, Step
<1> QED
  BY <1>1, <1>2, <1>3, <1>4

(* Every step of a query but the call of a task and its return. *)
LEMMA QuerySteps ==
  ASSUME StackShape, QueryAction
  PROVE  Step
<1> DEFINE Goes(f) == Become(f) /\ Top.kind = "query" /\ SameQueryFrame(f) /\ f.stage # "open"
             /\ (TasksExist(Top) => TasksExist(f)) /\ PlansOn(f)
             /\ f.ctx = IF Top.stage = "open" THEN LevelContext(Top.ctx, Top.args, Top.query) ELSE Top.ctx
<1>1. /\ Top.kind = "query" /\ DOMAIN Top = QueryFields
  <2>1. \E stage : Querying(stage)
    BY DEF QueryAction, OpenQuery, SelectPackages, BridgePackage, MapToTasks, AddDependencies, StartPlanning,
           WireTasks
  <2> QED
    BY <2>1, TopShape DEF Querying, FrameShape
<1>2. ASSUME NEW f, Goes(f) PROVE Step
  BY <1>2 DEF Step, QueryGoesOn
<1> DEFINE Same(f) == DOMAIN f = QueryFields /\ f.kind = "query" /\ f.planned = Top.planned /\ f.args = Top.args
<1>3. CASE OpenQuery
  <2> DEFINE ctx == LevelContext(Top.ctx, Top.args, Top.query)
  <2> DEFINE f == [Top EXCEPT !.ctx = ctx, !.stage = "select"]
  <2>1. Top.stage = "open"
    BY <1>3 DEF OpenQuery, Querying
  <2>2. Ends \/ Become(f)
    <3> HIDE DEF ctx
    <3>1. \/ \E error : Fail(error)
          \/ Become([Top EXCEPT !.ctx = ctx, !.stage = "select"])
      BY <1>3 DEF OpenQuery, ctx
    <3> QED
      BY <3>1, Failing
  <2>3. Same(f) /\ f.stage = "select" /\ f.ctx = ctx
    <3> HIDE DEF ctx
    <3> QED
      BY <1>1 DEF QueryFields
  <2> HIDE DEF f
  <2>4. CASE Become(f)
    <3>1. Goes(f)
      BY <1>1, <2>1, <2>3, <2>4 DEF SameQueryFrame, TasksExist, PlansOn
    <3> QED
      BY <1>2, <3>1
  <2> QED
    BY <2>2, <2>4 DEF Step
<1>4. ASSUME Top.stage # "open", NEW f, Become(f), Same(f), f.stage # "open", f.ctx = Top.ctx,
             TasksExist(Top) => TasksExist(f), PlansOn(f)
      PROVE  Step
  <2>1. Goes(f)
    BY <1>1, <1>4 DEF SameQueryFrame
  <2> QED
    BY <1>2, <2>1
<1>5. CASE SelectPackages
  <2>1. Top.stage # "open"
    BY <1>5 DEF SelectPackages, Querying
  <2>2. \/ \E error : Fail(error)
        \/ \E live : Become([Top EXCEPT !.live = live, !.stage = "map"])
    BY <1>5 DEF SelectPackages
  <2>3. ASSUME NEW live, Become([Top EXCEPT !.live = live, !.stage = "map"]) PROVE Step
    <3> DEFINE f == [Top EXCEPT !.live = live, !.stage = "map"]
    <3>1. Same(f) /\ f.stage = "map" /\ f.ctx = Top.ctx
      BY <1>1 DEF QueryFields
    <3>2. Become(f)
      BY <2>3
    <3>3. TasksExist(f) /\ PlansOn(f)
      BY <1>5, <3>1 DEF TasksExist, PlansOn, SelectPackages, Querying
    <3> HIDE DEF f, Same
    <3> QED
      BY <1>4, <2>1, <3>1, <3>2, <3>3
  <2> QED
    BY <2>2, <2>3, Failing DEF Step
<1>6. CASE BridgePackage
  <2>1. Top.stage = "map"
    BY <1>6 DEF BridgePackage, Querying
  <2>2. PICK live : Become([Top EXCEPT !.live = live])
    BY <1>6 DEF BridgePackage
  <2> DEFINE f == [Top EXCEPT !.live = live]
  <2>3. Same(f) /\ f.stage = "map" /\ f.ctx = Top.ctx
    BY <1>1, <2>1 DEF QueryFields
  <2>4. Become(f)
    BY <2>2
  <2>5. TasksExist(f) /\ PlansOn(f)
    BY <2>1, <2>3 DEF TasksExist, PlansOn
  <2> HIDE DEF f, Same
  <2> QED
    BY <1>4, <2>1, <2>3, <2>4, <2>5
<1>7. CASE MapToTasks
  <2>1. Top.stage = "map"
    BY <1>7 DEF MapToTasks, Querying
  <2> DEFINE tasks == [id \in Top.live.nodes \X {Top.query.task} |->
                        [deps |-> {<<a[2], Top.query.task>> : a \in {b \in Top.live.arrows : b[1] = id[1]}},
                         requested |-> TRUE]]
  <2> DEFINE frontier == IF Top.query.explicit THEN DOMAIN tasks ELSE {}
  <2>2. /\ Become([Top EXCEPT !.tasks = tasks, !.stage = "expand", !.frontier = frontier])
        /\ DOMAIN tasks = Top.live.nodes \X {Top.query.task}
    BY <1>7 DEF MapToTasks
  <2> HIDE DEF tasks, frontier
  <2> DEFINE f == [Top EXCEPT !.tasks = tasks, !.stage = "expand", !.frontier = frontier]
  <2>3. Same(f) /\ f.stage = "expand" /\ f.ctx = Top.ctx /\ f.tasks = tasks
    BY <1>1 DEF QueryFields
  <2>4. Become(f)
    BY <2>2
  <2>5. \A id \in Top.live.nodes \X {Top.query.task} : HasTask(graph, world.disk, id)
    <3>1. Lacking = {}
      BY <1>7 DEF MapToTasks
    <3> QED
      BY <3>1 DEF Lacking
  <2>6. TasksExist(f) /\ PlansOn(f)
    BY <2>1, <2>2, <2>3, <2>5 DEF TasksExist, PlansOn
  <2> HIDE DEF f, Same
  <2> QED
    BY <1>4, <2>1, <2>3, <2>4, <2>6
<1>8. CASE AddDependencies
  <2>1. Top.stage = "expand"
    BY <1>8 DEF AddDependencies, Querying
  <2> DEFINE reached == NotYetQueried(UNION {DependsOnOf(id) : id \in Top.frontier})
  <2> DEFINE Added(id) == IF id \in Top.frontier THEN DependsOnOf(id) ELSE {}
  <2> DEFINE found == [id \in (DOMAIN Top.tasks) \cup reached |->
                        IF id \in reached THEN [deps |-> {}, requested |-> FALSE]
                        ELSE [Top.tasks[id] EXCEPT !.deps = @ \cup Added(id)]]
  <2>4. DOMAIN found \subseteq (DOMAIN Top.tasks) \cup UNION {DependsOnOf(id) : id \in Top.frontier}
    BY DEF NotYetQueried
  <2>2. (\E error : Fail(error)) \/ Become([Top EXCEPT !.tasks = found, !.frontier = reached])
    BY <1>8 DEF AddDependencies
  <2> HIDE DEF found, reached
  <2>3. ASSUME NEW tasks, NEW frontier, Become([Top EXCEPT !.tasks = tasks, !.frontier = frontier]),
               DOMAIN tasks \subseteq (DOMAIN Top.tasks) \cup UNION {DependsOnOf(id) : id \in Top.frontier}
        PROVE  Step
    <3> DEFINE f == [Top EXCEPT !.tasks = tasks, !.frontier = frontier]
    <3>1. Same(f) /\ f.stage = "expand" /\ f.ctx = Top.ctx /\ f.tasks = tasks
      BY <1>1, <2>1 DEF QueryFields
    <3>2. Become(f)
      BY <2>3
    <3>3. \A id \in Top.frontier : \A d \in DependsOnOf(id) : HasTask(graph, world.disk, d)
      BY DEF DependsOnOf, Dependencies
    <3>4. (TasksExist(Top) => TasksExist(f)) /\ PlansOn(f)
      BY <2>1, <2>3, <3>1, <3>3 DEF TasksExist, PlansOn
    <3> HIDE DEF f, Same
    <3> QED
      BY <1>4, <2>1, <3>1, <3>2, <3>4
  <2> QED
    BY <2>2, <2>3, <2>4, Failing DEF Step
<1>9. CASE StartPlanning
  <2>1. Top.stage = "expand"
    BY <1>9 DEF StartPlanning, Querying
  <2>2. \/ \E error : Fail(error)
        \/ \E pruned : Become([Top EXCEPT !.pruned = pruned, !.stage = "plan"])
    BY <1>9 DEF StartPlanning
  <2>3. ASSUME NEW pruned, Become([Top EXCEPT !.pruned = pruned, !.stage = "plan"]) PROVE Step
    <3> DEFINE f == [Top EXCEPT !.pruned = pruned, !.stage = "plan"]
    <3>1. Same(f) /\ f.stage = "plan" /\ f.ctx = Top.ctx /\ f.tasks = Top.tasks
      BY <1>1 DEF QueryFields
    <3>2. Become(f)
      BY <2>3
    <3>3. (TasksExist(Top) => TasksExist(f)) /\ PlansOn(f)
      BY <2>1, <3>1 DEF TasksExist, PlansOn
    <3> HIDE DEF f, Same
    <3> QED
      BY <1>4, <2>1, <3>1, <3>2, <3>3
  <2> QED
    BY <2>2, <2>3, Failing DEF Step
<1>10. CASE WireTasks
  <2>1. Top.stage = "plan"
    BY <1>10 DEF WireTasks, Querying
  <2>2. PICK edges : Become([Top EXCEPT !.stage = "wired", !.edges = edges])
    BY <1>10 DEF WireTasks
  <2> DEFINE f == [Top EXCEPT !.stage = "wired", !.edges = edges]
  <2>3. Same(f) /\ f.stage = "wired" /\ f.ctx = Top.ctx /\ f.tasks = Top.tasks
    BY <1>1 DEF QueryFields
  <2>4. Become(f)
    BY <2>2
  <2>5. (TasksExist(Top) => TasksExist(f)) /\ PlansOn(f)
    BY <2>1, <2>3 DEF TasksExist, PlansOn
  <2> HIDE DEF f, Same
  <2> QED
    BY <1>4, <2>1, <2>3, <2>4, <2>5
<1> QED
  BY <1>3, <1>5, <1>6, <1>7, <1>8, <1>9, <1>10 DEF QueryAction

(* Advance only moves on. *)
LEMMA Advancing ==
  ASSUME NEW f, DOMAIN f = TaskFields
  PROVE  /\ DOMAIN Advance(f) = TaskFields
         /\ Advance(f).kind = f.kind /\ Advance(f).id = f.id /\ Advance(f).ctx = f.ctx
         /\ Advance(f).hooks = f.hooks /\ Advance(f).items = f.items
<1>1. CASE Advance(f) = [f EXCEPT !.command = @ + 1, !.step = 1]
  BY <1>1 DEF TaskFields
<1>2. CASE Advance(f) = [f EXCEPT !.step = @ + 1]
  BY <1>2 DEF TaskFields
<1> QED
  BY <1>1, <1>2 DEF Advance

LEMMA AdvancingTop ==
  ASSUME DOMAIN Top = TaskFields, Top.kind = "task"
  PROVE  SameTaskFrame(Advance(Top)) /\ Advance(Top).items = Top.items
BY Advancing DEF SameTaskFrame

LEMMA Emitting ==
  ASSUME DOMAIN Top = TaskFields, Top.kind = "task", NEW item, Emit(item),
         item.kind = "inProcess" \/ ItemOfCommand(item)
  PROVE  Step
<1> DEFINE g == [Top EXCEPT !.items = Append(@, item)]
<1> DEFINE f == Advance(g)
<1>1. /\ DOMAIN g = TaskFields /\ g.kind = "task" /\ g.id = Top.id /\ g.ctx = Top.ctx
      /\ g.hooks = Top.hooks /\ g.items = Append(Top.items, item)
  BY DEF TaskFields
<1>2. Become(f)
  BY DEF Emit
<1> HIDE DEF g
<1>3. SameTaskFrame(f) /\ f.items = Append(Top.items, item)
  BY <1>1, Advancing DEF SameTaskFrame
<1> HIDE DEF f
<1>4. TaskGoesOn(f)
  BY <1>2, <1>3 DEF TaskGoesOn
<1>5. TaskEmits
  BY <1>3, <1>4 DEF TaskEmits
<1> QED
  BY <1>5 DEF Step

LEMMA StepContextFacts ==
  ASSUME DOMAIN Top.ctx = ContextFields
  PROVE  /\ DOMAIN StepContext = ContextFields
         /\ StepContext.calls = Append(Top.ctx.calls, Top.id)
         /\ StepContext.cache = Top.ctx.cache
BY DEF StepContext, ContextFields

LEMMA StepContextShape ==
  ASSUME ContextShape(Top.ctx)
  PROVE  ContextShape(StepContext)
<1>1. DOMAIN Top.ctx = ContextFields /\ IsList(Top.ctx.calls)
  BY DEF ContextShape
<1>2. IsList(Append(Top.ctx.calls, Top.id))
  BY <1>1, AppendList
<1> QED
  BY <1>1, <1>2, StepContextFacts DEF ContextShape

(* A step that spawns a command with a given cache. *)
LEMMA Spawning ==
  ASSUME DOMAIN Top = TaskFields, Top.kind = "task", DOMAIN Top.ctx = ContextFields,
         Command.kind = "steps", NEW cache, SpawnStep(cache), CacheOfCommand(cache, StepContext, Top.step)
  PROVE  Step
<1> DEFINE Item(program) == Spawn(Top, StepContext, cache, Here.envs, program, Position(Top.step), Extra(LastStep))
<1>1. (\E error : Fail(error)) \/ \E program : Emit(Item(program))
  BY DEF SpawnStep
<1>2. ASSUME NEW program, Emit(Item(program)) PROVE Step
  <2>1. StepContext.cache = Top.ctx.cache
    BY StepContextFacts
  <2>2. Extra(LastStep) = ExtraAt(<<Top.command, Top.step>>)
    BY DEF Extra, ExtraAt, LastStep, LastCommand, LastPosition, Command, Commands
  <2>3. ItemOfCommand(Item(program))
    BY <2>1, <2>2 DEF ItemOfCommand, Position
  <2> HIDE DEF Item
  <2> QED
    BY <1>2, <2>3, Emitting
<1> QED
  BY <1>1, <1>2, Failing DEF Step

LEMMA TaskSteps ==
  ASSUME StackShape,
         ChangeDirectory \/ Echo \/ OwnCommand \/ SyntheticStep \/ ToolStep \/ ShellCommand \/ CommandsDone
  PROVE  Step
<1>1. /\ Top.kind = "task" /\ DOMAIN Top = TaskFields /\ DOMAIN Top.ctx = ContextFields
  <2>1. \E stage : Expanding(stage)
    BY DEF ChangeDirectory, Echo, OwnCommand, SyntheticStep, ToolStep, ShellCommand, CommandsDone, AtStep
  <2> QED
    BY <2>1, TopShape DEF Expanding, FrameShape, ContextShape
<1>2. CASE ChangeDirectory
  <2>1. (\E error : Fail(error)) \/ \E cwd : Become(Advance([Top EXCEPT !.cwd = cwd]))
    BY <1>2 DEF ChangeDirectory
  <2>2. ASSUME NEW cwd, Become(Advance([Top EXCEPT !.cwd = cwd])) PROVE Step
    <3> DEFINE g == [Top EXCEPT !.cwd = cwd]
    <3> DEFINE f == Advance(g)
    <3>1. /\ DOMAIN g = TaskFields /\ g.kind = "task" /\ g.id = Top.id /\ g.ctx = Top.ctx
          /\ g.hooks = Top.hooks /\ g.items = Top.items
      BY <1>1 DEF TaskFields
    <3>2. Become(f)
      BY <2>2
    <3> HIDE DEF g
    <3>3. SameTaskFrame(f) /\ f.items = Top.items
      BY <3>1, Advancing DEF SameTaskFrame
    <3> HIDE DEF f
    <3> QED
      BY <1>1, <3>2, <3>3 DEF TaskGoesOn, TaskMoves, Step
  <2> QED
    BY <2>1, <2>2, Failing DEF Step
<1>3. CASE Echo
  <2> DEFINE item == [kind |-> "inProcess", task |-> Top.id, extra |-> Extra(LastStep)]
  <2>1. Emit(item) /\ item.kind = "inProcess"
    BY <1>3 DEF Echo
  <2> HIDE DEF item
  <2> QED
    BY <1>1, <2>1, Emitting
<1>4. CASE OwnCommand
  <2>1. SpawnStep(None) /\ AtStep("own")
    BY <1>4 DEF OwnCommand
  <2>2. CacheOfCommand(None, StepContext, Top.step)
    BY <2>1 DEF CacheOfCommand, AtStep
  <2> QED
    BY <1>1, <2>1, <2>2, Spawning DEF AtStep
<1>5. CASE SyntheticStep
  <2> DEFINE cache == SyntheticCache(OwnCache(StepContext), Here.cache, Top.id[1])
  <2>1. SpawnStep(cache) /\ AtStep("synthetic")
    BY <1>5 DEF SyntheticStep
  <2>2. OwnCache(StepContext) = None => cache = None
    BY DEF SyntheticCache
  <2> HIDE DEF cache
  <2>3. CacheOfCommand(cache, StepContext, Top.step)
    BY <2>1, <2>2 DEF CacheOfCommand, AtStep
  <2> QED
    BY <1>1, <2>1, <2>3, Spawning DEF AtStep
<1>6. CASE ToolStep
  <2>1. SpawnStep(OwnCache(StepContext))
    BY <1>6 DEF ToolStep
  <2> QED
    BY <1>1, <1>6, <2>1, Spawning DEF CacheOfCommand, ToolStep, AtStep
<1>7. CASE ShellCommand
  <2> DEFINE item == Spawn(Top, Top.ctx, OwnCache(Top.ctx), <<>>, <<>>, Position(1), Extra(LastCommand))
  <2>1. (\E error : Fail(error)) \/ Emit(item)
    BY <1>7 DEF ShellCommand
  <2>2. Extra(LastCommand) = ExtraAt(<<Top.command, 1>>)
    BY <1>7 DEF ShellCommand, Extra, ExtraAt, LastCommand, LastPosition, Command, Commands
  <2>3. ItemOfCommand(item)
    BY <2>2 DEF ItemOfCommand, Position, CacheOfCommand
  <2> HIDE DEF item
  <2> QED
    BY <1>1, <2>1, <2>3, Emitting, Failing DEF Step
<1>8. CASE CommandsDone
  <2> DEFINE f == [Top EXCEPT !.stage = "post"]
  <2>1. Become(f)
    BY <1>8 DEF CommandsDone
  <2>2. SameTaskFrame(f) /\ f.items = Top.items
    BY <1>1 DEF SameTaskFrame, TaskFields
  <2> HIDE DEF f
  <2> QED
    BY <1>1, <2>1, <2>2 DEF TaskGoesOn, TaskMoves, Step
<1> QED
  BY <1>2, <1>3, <1>4, <1>5, <1>6, <1>7, <1>8

LEMMA HookFacts ==
  ASSUME NEW when, Hook(when) # None
  PROVE  /\ Top.hooks /\ HasTask(graph, world.disk, Hook(when))
         /\ Hook(when) = <<Top.id[1], HookName(when, Top.id[2])>>
BY DEF Hook, ScriptHook

LEMMA CallSteps ==
  ASSUME StackShape, PlanNextTask \/ PreHook \/ PostHook \/ NestedRun
  PROVE  Step
<1>1. /\ FrameShape(Top)
      /\ PlanNextTask => Top.kind = "query" /\ Top.stage = "plan"
      /\ PreHook \/ PostHook \/ NestedRun => Top.kind = "task"
  <2>1. (\E stage : Querying(stage)) \/ \E stage : Expanding(stage)
    BY DEF PlanNextTask, PreHook, PostHook, RunHook, NestedRun, AtStep
  <2>2. frames # <<>>
    BY <2>1 DEF Querying, Expanding
  <2> QED
    BY <2>2, TopShape DEF PlanNextTask, PreHook, PostHook, RunHook, NestedRun, AtStep, Querying, Expanding
<1>2. ASSUME NEW f, SameCaller(f), NEW id, NEW extra, NEW hooks,
             PlanTask(f, id, [Top.ctx EXCEPT !.extra = extra], hooks),
             \/ Top.kind = "query" /\ Top.stage = "plan" /\ id \in DOMAIN Top.tasks
             \/ HasTask(graph, world.disk, id),
             Passed(id, [extra |-> extra], hooks)
      PROVE  Step
  <2> DEFINE ctx == [Top.ctx EXCEPT !.extra = extra]
  <2>1. DOMAIN ctx = ContextFields /\ ctx.calls = Top.ctx.calls /\ ctx.cache = Top.ctx.cache
    BY <1>1 DEF FrameShape, ContextShape, ContextFields
  <2>2. PlanTask(f, id, ctx, hooks)
    BY <1>2
  <2>4. ctx.extra = extra
    BY <1>1 DEF FrameShape, ContextShape, ContextFields
  <2>5. Passed(id, ctx, hooks)
    BY <1>2, <2>4 DEF Passed
  <2> HIDE DEF ctx
  <2>3. (\E error : Fail(error)) \/ (~CheckRecursion(id, ctx) /\ Call(f, TaskCall(id, ctx, hooks)))
    BY <2>2 DEF PlanTask
  <2> QED
    BY <1>2, <2>1, <2>3, <2>5, Failing DEF Step, CallsTask
<1>3. CASE PlanNextTask
  <2>1. SameCaller(Top)
    BY <1>1, <1>3 DEF SameCaller
  <2>2. \E id \in (DOMAIN Top.tasks) \ {Top.pruned} : \E extra :
          /\ PlanTask(Top, id, [Top.ctx EXCEPT !.extra = extra], TRUE)
          /\ extra = IF Top.tasks[id].requested THEN Top.args.extra ELSE <<>>
    <3> DEFINE left == DOMAIN Top.tasks \ ({Top.pruned} \cup DOMAIN Top.planned)
    <3> DEFINE id == CHOOSE t \in left : TRUE
    <3>1. /\ left # {}
          /\ PlanTask(Top, id, [Top.ctx EXCEPT !.extra = IF Top.tasks[id].requested THEN Top.args.extra ELSE <<>>], TRUE)
      BY <1>3 DEF PlanNextTask
    <3>2. id \in left
      BY <3>1
    <3> QED
      BY <3>1, <3>2
  <2> QED
    BY <1>1, <1>2, <1>3, <2>1, <2>2 DEF Passed
<1>4. ASSUME NEW when \in {"pre", "post"}, NEW next, RunHook(when, next), Top.kind = "task"
      PROVE  Step
  <2> DEFINE f == [Top EXCEPT !.stage = next]
  <2>1. SameTaskFrame(f) /\ f.items = Top.items
    BY <1>1, <1>4 DEF SameTaskFrame, FrameShape, TaskFields
  <2>2. \/ Become(f)
        \/ /\ Hook(when) # None
           /\ PlanTask(f, Hook(when), [Top.ctx EXCEPT !.extra = <<>>], FALSE)
    BY <1>4 DEF RunHook
  <2> HIDE DEF f
  <2>3. SameCaller(f)
    BY <1>4, <2>1 DEF SameCaller
  <2>4. CASE Become(f)
    BY <1>4, <2>1, <2>4 DEF TaskGoesOn, TaskMoves, Step
  <2>5. CASE Hook(when) # None /\ PlanTask(f, Hook(when), [Top.ctx EXCEPT !.extra = <<>>], FALSE)
    <3>1. HasTask(graph, world.disk, Hook(when)) /\ Passed(Hook(when), [extra |-> <<>>], FALSE)
      BY <1>4, <2>5, HookFacts DEF Passed
    <3> QED
      BY <1>2, <2>3, <2>5, <3>1
  <2> QED
    BY <2>2, <2>4, <2>5
<1>5. CASE PreHook \/ PostHook
  BY <1>1, <1>4, <1>5 DEF PreHook, PostHook
<1>6. CASE NestedRun
  <2>1. SameTaskFrame(Advance(Top)) /\ Advance(Top).items = Top.items
    BY <1>1, <1>6, AdvancingTop DEF FrameShape
  <2>2. \/ \E error : Fail(error)
        \/ Become(Advance(Top))
        \/ \E args, cwd : Call(Advance(Top), QueryCall(StepContext, args, cwd))
    BY <1>6 DEF NestedRun
  <2>3. CASE Become(Advance(Top))
    BY <1>1, <1>6, <2>1, <2>3 DEF TaskGoesOn, TaskMoves, Step
  <2> QED
    BY <1>1, <1>6, <2>1, <2>2, <2>3, Failing DEF CallsQuery, Step
<1> QED
  BY <1>3, <1>5, <1>6

LEMMA ReturnSteps ==
  ASSUME StackShape, FinishQuery \/ ReturnTask
  PROVE  Step
<1>1. CASE FinishQuery
  <2>1. Top.kind = "query"
    BY <1>1 DEF FinishQuery, Querying
  <2>2. \/ \E result : End(result)
        \/ /\ Len(frames) # 1
           /\ \E result : Resume([Caller EXCEPT !.items = Append(@, [kind |-> "expanded", graph |-> result])])
    BY <1>1 DEF FinishQuery, Fail, ShowSelector, Resume, Caller
  <2>3. ASSUME NEW result, Len(frames) # 1,
               Resume([Caller EXCEPT !.items = Append(@, [kind |-> "expanded", graph |-> result])])
        PROVE  QueryReturns
    <3> DEFINE item == [kind |-> "expanded", graph |-> result]
    <3>1. item.kind = "expanded"
      OBVIOUS
    <3>2. Resume([Caller EXCEPT !.items = Append(@, item)])
      BY <2>3
    <3> HIDE DEF item
    <3> QED
      BY <2>1, <2>3, <3>1, <3>2 DEF QueryReturns
  <2> QED
    BY <2>2, <2>3 DEF Step, End, Ends
<1>2. CASE ReturnTask
  <2>1. Top.kind = "task"
    BY <1>2 DEF ReturnTask, Expanding
  <2>2. Resume(IF Caller.kind = "query" THEN [Caller EXCEPT !.planned = Over(Only(Top.id, Top.items), @)]
               ELSE [Caller EXCEPT !.items = @ \o Top.items])
    BY <1>2 DEF ReturnTask, Resume, Caller
  <2> QED
    BY <2>1, <2>2 DEF TaskReturns, Step
<1> QED
  BY <1>1, <1>2

(* Whatever the planner does is one of those steps, and what neither starts nor
   ends a planning is done by the call on top. *)
LEMMA Steps ==
  ASSUME StackShape, [Next]_vars
  PROVE  Step /\ (Starts \/ Ends \/ Waits \/ frames # <<>>)
<1>1. CASE Done \/ UNCHANGED vars
  BY <1>1 DEF Done, vars, Step, Waits
<1>2. CASE FindWorkspace \/ LoadGraph \/ Begin \/ Select
  <2>1. Step
    BY <1>2, SessionSteps
  <2>2. Starts \/ Ends \/ Waits
    BY <1>2 DEF FindWorkspace, LoadGraph, Begin, Select, ShowSelector, Fail, End, Ends, Waits, Starts,
                StackShape
  <2> QED
    BY <2>1, <2>2
<1>3. CASE \/ OpenQuery \/ SelectPackages \/ BridgePackage \/ MapToTasks \/ AddDependencies
           \/ StartPlanning \/ PlanNextTask \/ WireTasks \/ FinishQuery
           \/ PreHook \/ PostHook \/ ChangeDirectory \/ Echo \/ NestedRun \/ OwnCommand
           \/ SyntheticStep \/ ToolStep \/ ShellCommand \/ CommandsDone \/ ReturnTask
  <2>1. Step
    BY <1>3, QuerySteps, TaskSteps, CallSteps, ReturnSteps DEF QueryAction
  <2>2. (\E stage : Querying(stage)) \/ \E stage : Expanding(stage)
    BY <1>3 DEF OpenQuery, SelectPackages, BridgePackage, MapToTasks, AddDependencies,
                StartPlanning, PlanNextTask, WireTasks, FinishQuery, PreHook, PostHook, RunHook,
                ChangeDirectory, Echo, NestedRun, OwnCommand, SyntheticStep, ToolStep,
                ShellCommand, CommandsDone, ReturnTask, AtStep
  <2> QED
    BY <2>1, <2>2 DEF Querying, Expanding
<1> QED
  BY <1>1, <1>2, <1>3 DEF Next

-----------------------------------------------------------------------------
(* The stack stays in shape. *)

LEMMA BecomeShape ==
  ASSUME StackShape, frames # <<>>, NEW f, Become(f), FrameShape(f), f.kind = Top.kind
  PROVE  StackShape'
<1> DEFINE n == Len(frames)
<1>1. /\ IsList(frames') /\ Len(frames') = n /\ n \in Nat \ {0} /\ frames'[n] = f
      /\ \A i \in 1 .. (n - 1) : frames'[i] = frames[i]
  BY Becoming DEF StackShape
<1>2. ASSUME NEW i \in 1 .. n PROVE FrameShape(frames'[i]) /\ CallerShape(i)'
  <2>1. FrameShape(frames[i]) /\ CallerShape(i) /\ FrameShape(frames[n]) /\ CallerShape(n)
    BY <1>1 DEF StackShape
  <2>2. CASE i = n
    BY <1>1, <2>1, <2>2 DEF CallerShape, Top
  <2>3. CASE i # n
    <3>1. i \in 1 .. (n - 1)
      BY <1>1, <2>3
    <3> QED
      BY <1>1, <2>1, <3>1 DEF CallerShape
  <2> QED
    BY <2>2, <2>3
<1>3. UNCHANGED <<graph, workspace>>
  BY DEF Become, session
<1> QED
  BY <1>1, <1>2, <1>3 DEF StackShape

LEMMA CallShape ==
  ASSUME StackShape, frames # <<>>, NEW f, NEW g, Call(f, g), FrameShape(f), FrameShape(g),
         f.kind = Top.kind, f.kind = "query" => f.stage # "open", f.kind = "query" => g.kind = "task"
  PROVE  StackShape'
<1> DEFINE n == Len(frames)
<1>1. /\ IsList(frames') /\ Len(frames') = n + 1 /\ n \in Nat \ {0} /\ frames'[n] = f
      /\ frames'[n + 1] = g /\ \A i \in 1 .. (n - 1) : frames'[i] = frames[i]
  BY Calling DEF StackShape
<1>2. ASSUME NEW i \in 1 .. (n + 1) PROVE FrameShape(frames'[i]) /\ CallerShape(i)'
  <2>1. CASE i = n + 1
    BY <1>1, <2>1 DEF CallerShape, FrameShape
  <2>2. CASE i = n
    <3>1. CallerShape(n)
      BY <1>1 DEF StackShape
    <3> QED
      BY <1>1, <2>2, <3>1 DEF CallerShape, Top
  <2>3. CASE i \in 1 .. (n - 1)
    <3>1. FrameShape(frames[i]) /\ CallerShape(i)
      BY <1>1, <2>3 DEF StackShape
    <3> QED
      BY <1>1, <2>3, <3>1 DEF CallerShape
  <2> QED
    BY <1>1, <2>1, <2>2, <2>3
<1>3. UNCHANGED <<graph, workspace>>
  BY DEF Call, session
<1>4. graph # None
  BY DEF StackShape
<1> QED
  BY <1>1, <1>2, <1>3, <1>4 DEF StackShape

LEMMA ResumeShape ==
  ASSUME StackShape, Len(frames) > 1, NEW f, Resume(f), FrameShape(f), f.kind = Caller.kind
  PROVE  StackShape'
<1> DEFINE n == Len(frames)
<1>1. /\ IsList(frames') /\ Len(frames') = n - 1 /\ n \in Nat /\ frames'[n - 1] = f
      /\ \A i \in 1 .. (n - 2) : frames'[i] = frames[i]
  BY Resuming DEF StackShape
<1>2. ASSUME NEW i \in 1 .. (n - 1) PROVE FrameShape(frames'[i]) /\ CallerShape(i)'
  <2>1. FrameShape(frames[i]) /\ CallerShape(i)
    BY <1>1 DEF StackShape
  <2>2. CASE i = n - 1
    BY <1>1, <2>1, <2>2 DEF CallerShape, Caller
  <2>3. CASE i # n - 1
    <3>1. i \in 1 .. (n - 2) /\ i # n
      BY <1>1, <2>3
    <3> QED
      BY <1>1, <2>1, <3>1 DEF CallerShape
  <2> QED
    BY <2>2, <2>3
<1>3. UNCHANGED <<graph, workspace>>
  BY DEF Resume, session
<1>4. graph # None
  <2>1. IsList(frames) /\ (graph = None => frames = <<>>)
    BY DEF StackShape
  <2> QED
    BY <2>1, ListFacts DEF IsList
<1> QED
  BY <1>1, <1>2, <1>3, <1>4 DEF StackShape

LEMMA QueryCallFacts ==
  ASSUME NEW ctx, NEW args, NEW cwd, ContextShape(ctx)
  PROVE  /\ FrameShape(QueryCall(ctx, args, cwd)) /\ QueryCall(ctx, args, cwd).kind = "query"
         /\ QueryCall(ctx, args, cwd).ctx = ctx /\ QueryCall(ctx, args, cwd).args = args
         /\ QueryCall(ctx, args, cwd).stage = "open" /\ QueryCall(ctx, args, cwd).planned = <<>>
BY DEF QueryCall, FrameShape, QueryFields

LEMMA TaskCallFacts ==
  ASSUME NEW id, NEW ctx, NEW hooks, ContextShape(ctx)
  PROVE  /\ FrameShape(TaskCall(id, ctx, hooks)) /\ TaskCall(id, ctx, hooks).kind = "task"
         /\ TaskCall(id, ctx, hooks).id = id /\ TaskCall(id, ctx, hooks).items = <<>>
         /\ TaskCall(id, ctx, hooks).ctx.calls = ctx.calls
         /\ TaskCall(id, ctx, hooks).ctx.cache = ctx.cache
         /\ TaskCall(id, ctx, hooks).ctx.extra = ctx.extra /\ TaskCall(id, ctx, hooks).hooks = hooks
<1> DEFINE inner == [ctx EXCEPT !.path = PrependPath(id[1], @)]
<1> DEFINE f == TaskCall(id, ctx, hooks)
<1>1. /\ DOMAIN inner = ContextFields /\ inner.calls = ctx.calls /\ inner.cache = ctx.cache
      /\ inner.extra = ctx.extra
  BY DEF ContextShape, ContextFields
<1>2. /\ f.ctx = inner /\ f.kind = "task" /\ f.id = id /\ f.items = <<>> /\ DOMAIN f = TaskFields
      /\ f.hooks = hooks
  BY DEF TaskCall, TaskFields
<1>3. IsList(<<>>)
  BY EmptySeq DEF IsList
<1> QED
  BY <1>1, <1>2, <1>3 DEF FrameShape, ContextShape

LEMMA LevelFacts ==
  ASSUME NEW ctx, NEW args, NEW query, ContextShape(ctx)
  PROVE  /\ ContextShape(LevelContext(ctx, args, query))
         /\ LevelContext(ctx, args, query).calls = ctx.calls
         /\ LevelContext(ctx, args, query).cache =
              IF args.override = "none" THEN ctx.cache
              ELSE WithOverride(RootSettings(graph, world.disk).cache, args.override)
BY DEF LevelContext, ContextShape, ContextFields

LEMMA SessionFacts ==
  /\ ContextShape(SessionContext) /\ SessionContext.calls = <<>>
  /\ SessionContext.cache = RootSettings(graph, world.disk).cache
<1>1. IsList(<<>>)
  BY EmptySeq DEF IsList
<1> QED
  BY <1>1 DEF SessionContext, ContextShape, ContextFields

LEMMA StackShapeInit == Init => StackShape
BY EmptySeq DEF Init, StackShape, IsList

LEMMA CallerOf ==
  ASSUME CallerShape(Len(frames)), Len(frames) \in Nat \ {0},
         Top.kind = "task" \/ (Top.kind = "query" /\ Len(frames) # 1)
  PROVE  Len(frames) > 1 /\ (Top.kind = "query" => Caller.kind = "task")
<1> DEFINE n == Len(frames)
<1>1. n # 1
  BY DEF CallerShape, Top
<1>2. Top.kind = "query" => Caller.kind = "task"
  BY <1>1 DEF CallerShape, Top, Caller
<1> HIDE DEF n
<1>3. n \in Nat \ {0}
  BY DEF n
<1>4. n > 1
  BY <1>1, <1>3
<1> QED
  BY <1>2, <1>4 DEF n

LEMMA StackShapeStep ==
  ASSUME StackShape, [Next]_vars
  PROVE  StackShape'
<1>1. CASE Starts
  <2>1. PICK args, cwd : frames' = <<QueryCall(SessionContext, args, cwd)>> /\ UNCHANGED session /\ graph # None
    BY <1>1 DEF Starts
  <2> DEFINE f == QueryCall(SessionContext, args, cwd)
  <2>2. FrameShape(f) /\ f.kind = "query"
    BY SessionFacts, QueryCallFacts
  <2> HIDE DEF f
  <2>3. frames' \in Seq({f}) /\ Len(frames') = 1 /\ frames'[1] = f
    BY <2>1 DEF f
  <2>4. IsList(frames')
    BY <2>3, ListFacts
  <2> QED
    BY <2>1, <2>2, <2>3, <2>4 DEF StackShape, CallerShape, session
<1>2. CASE Ends
  <2>1. frames' = <<>> /\ Len(frames') = 0 /\ IsList(frames')
    BY <1>2, EmptySeq DEF Ends, IsList
  <2> QED
    BY <1>2, <2>1 DEF StackShape, Ends, session
<1>3. CASE Waits
  BY <1>3 DEF Waits, StackShape, CallerShape, session
<1>4. CASE frames # <<>> /\ Step
  <2> USE <1>4
  <2>1. FrameShape(Top) /\ CallerShape(Len(frames)) /\ Len(frames) \in Nat \ {0}
    BY TopShape
  <2>2. CASE QueryGoesOn
    <3>1. PICK f : /\ Become(f) /\ Top.kind = "query" /\ SameQueryFrame(f)
                   /\ f.ctx = IF Top.stage = "open" THEN LevelContext(Top.ctx, Top.args, Top.query) ELSE Top.ctx
      BY <2>2 DEF QueryGoesOn
    <3>2. FrameShape(f)
      BY <2>1, <3>1, LevelFacts DEF FrameShape, SameQueryFrame
    <3> QED
      BY <3>1, <3>2, BecomeShape DEF SameQueryFrame
  <2>3. CASE TaskMoves \/ TaskEmits
    <3>1. PICK f : TaskGoesOn(f) /\ (f.items = Top.items \/ \E item : f.items = Append(Top.items, item))
      BY <2>3 DEF TaskMoves, TaskEmits
    <3>2. IsList(f.items)
      <4>1. IsList(Top.items)
        BY <2>1, <3>1 DEF FrameShape, TaskGoesOn
      <4>2. ASSUME NEW item, f.items = Append(Top.items, item) PROVE IsList(f.items)
        BY <4>1, <4>2, AppendList
      <4> QED
        BY <3>1, <4>1, <4>2
    <3>3. FrameShape(f)
      BY <2>1, <3>1, <3>2 DEF FrameShape, TaskGoesOn, SameTaskFrame
    <3> QED
      BY <3>1, <3>3, BecomeShape DEF TaskGoesOn, SameTaskFrame
  <2>4. ASSUME NEW f, SameCaller(f)
        PROVE  FrameShape(f) /\ f.kind = Top.kind /\ (f.kind = "query" => f.stage # "open")
    BY <2>1, <2>4 DEF SameCaller, SameTaskFrame, FrameShape
  <2>5. CASE CallsTask
    <3>1. PICK f, id, ctx, hooks : /\ Call(f, TaskCall(id, ctx, hooks)) /\ SameCaller(f)
                                   /\ DOMAIN ctx = ContextFields /\ ctx.calls = Top.ctx.calls
      BY <2>5 DEF CallsTask
    <3>2. ContextShape(ctx)
      BY <2>1, <3>1 DEF FrameShape, ContextShape
    <3>3. FrameShape(TaskCall(id, ctx, hooks)) /\ TaskCall(id, ctx, hooks).kind = "task"
      BY <3>2, TaskCallFacts
    <3> QED
      BY <2>4, <3>1, <3>3, CallShape
  <2>6. CASE CallsQuery
    <3>1. PICK f, args, cwd : /\ Call(f, QueryCall(StepContext, args, cwd)) /\ Top.kind = "task"
                              /\ SameTaskFrame(f) /\ f.items = Top.items
      BY <2>6 DEF CallsQuery
    <3>2. ContextShape(StepContext)
      BY <2>1, StepContextShape DEF FrameShape
    <3>3. FrameShape(QueryCall(StepContext, args, cwd)) /\ QueryCall(StepContext, args, cwd).kind = "query"
      BY <3>2, QueryCallFacts
    <3>4. FrameShape(f) /\ f.kind = "task"
      BY <2>4, <3>1 DEF SameCaller, SameTaskFrame
    <3> QED
      BY <3>1, <3>3, <3>4, CallShape
  <2>7. CASE TaskReturns
    <3> Top.kind = "task"
      BY <2>7 DEF TaskReturns
    <3>1. Len(frames) > 1
      BY <2>1, CallerOf
    <3>2. FrameShape(Caller)
      BY <2>1, <3>1 DEF StackShape, Caller
    <3>3. CASE Caller.kind = "query"
      <4> DEFINE f == [Caller EXCEPT !.planned = Over(Only(Top.id, Top.items), @)]
      <4>1. Resume(f)
        BY <2>7, <3>3 DEF TaskReturns
      <4>2. FrameShape(f) /\ f.kind = Caller.kind
        BY <3>2, <3>3 DEF FrameShape, QueryFields
      <4> HIDE DEF f
      <4> QED
        BY <3>1, <4>1, <4>2, ResumeShape
    <3>4. CASE Caller.kind # "query"
      <4> DEFINE joint == Caller.items \o Top.items
      <4> DEFINE f == [Caller EXCEPT !.items = joint]
      <4>1. Resume(f)
        BY <2>7, <3>4 DEF TaskReturns
      <4>2. IsList(joint)
        BY <2>1, <2>7, <3>2, <3>4, JoinLists DEF FrameShape, TaskReturns
      <4> HIDE DEF joint
      <4>3. FrameShape(f) /\ f.kind = Caller.kind
        BY <3>2, <3>4, <4>2 DEF FrameShape, TaskFields
      <4> HIDE DEF f
      <4> QED
        BY <3>1, <4>1, <4>3, ResumeShape
    <3> QED
      BY <3>3, <3>4
  <2>8. CASE QueryReturns
    <3> Top.kind = "query" /\ Len(frames) # 1
      BY <2>8 DEF QueryReturns
    <3>1. Len(frames) > 1 /\ Caller.kind = "task"
      BY <2>1, CallerOf
    <3>2. FrameShape(Caller)
      BY <2>1, <3>1 DEF StackShape, Caller
    <3>3. PICK item : Resume([Caller EXCEPT !.items = Append(@, item)])
      BY <2>8 DEF QueryReturns
    <3> DEFINE more == Append(Caller.items, item)
    <3> DEFINE f == [Caller EXCEPT !.items = more]
    <3>4. Resume(f)
      BY <3>3
    <3>5. IsList(more)
      BY <3>1, <3>2, AppendList DEF FrameShape
    <3> HIDE DEF more
    <3>6. FrameShape(f) /\ f.kind = Caller.kind
      BY <3>1, <3>2, <3>5 DEF FrameShape, TaskFields
    <3> HIDE DEF f
    <3> QED
      BY <3>1, <3>4, <3>6, ResumeShape
  <2>9. CASE Starts \/ Ends \/ Waits
    BY <1>1, <1>2, <1>3, <2>9
  <2> QED
    BY <2>2, <2>3, <2>5, <2>6, <2>7, <2>8, <2>9 DEF Step
<1> QED
  BY <1>1, <1>2, <1>3, <1>4, Steps

(* Whatever is planned, a query on the stack was called by a task or by nobody, a
   task by a call around it, and a query that calls has begun. *)
THEOREM PlanStack == Spec => []StackShape
BY StackShapeInit, StackShapeStep, PTL DEF Spec

-----------------------------------------------------------------------------
(* No task is expanded inside itself: a task that is called is not among the
   calls around it, and only its own call is added to them. *)

NotNested(f) ==
  /\ IsInjective(f.ctx.calls)
  /\ f.kind = "task" => f.id \notin ToSet(f.ctx.calls)

Nesting == \A i \in 1 .. Len(frames) : NotNested(frames[i])

LEMMA AppendKeepsInjective ==
  ASSUME NEW s, IsList(s), IsInjective(s), NEW x, x \notin ToSet(s)
  PROVE  IsInjective(Append(s, x))
<1> DEFINE t == Append(s, x)
<1>1. /\ IsList(t) /\ Len(t) = Len(s) + 1 /\ t[Len(s) + 1] = x
      /\ \A i \in 1 .. Len(s) : t[i] = s[i]
  BY AppendList
<1>2. Len(s) \in Nat /\ DOMAIN s = 1 .. Len(s) /\ DOMAIN t = 1 .. (Len(s) + 1)
  BY <1>1, ListFacts DEF IsList
<1>3. \A i \in 1 .. Len(s) : s[i] # x
  BY <1>2 DEF ToSet
<1> HIDE DEF t
<1> SUFFICES ASSUME NEW a \in 1 .. (Len(s) + 1), NEW b \in 1 .. (Len(s) + 1), t[a] = t[b]
             PROVE  a = b
  BY <1>2 DEF IsInjective, t
<1>4. CASE a \in 1 .. Len(s) /\ b \in 1 .. Len(s)
  BY <1>1, <1>2, <1>4 DEF IsInjective
<1>5. CASE a = Len(s) + 1 \/ b = Len(s) + 1
  BY <1>1, <1>2, <1>3, <1>5
<1> QED
  BY <1>2, <1>4, <1>5

LEMMA NestingKept ==
  ASSUME StackShape, Nesting, NEW f, NEW g, Changed(f, g), NotNested(f), NotNested(g)
  PROVE  Nesting'
BY Changing DEF StackShape, Nesting

LEMMA NestingStep ==
  ASSUME StackShape, Nesting, [Next]_vars
  PROVE  Nesting'
<1>1. CASE Starts
  <2>1. PICK args, cwd : frames' = <<QueryCall(SessionContext, args, cwd)>>
    BY <1>1 DEF Starts
  <2> DEFINE f == QueryCall(SessionContext, args, cwd)
  <2>2. f.kind = "query" /\ f.ctx.calls = <<>>
    BY SessionFacts, QueryCallFacts
  <2> HIDE DEF f
  <2>3. Len(frames') = 1 /\ frames'[1] = f
    BY <2>1 DEF f
  <2> QED
    BY <2>2, <2>3 DEF Nesting, NotNested, IsInjective
<1>2. CASE Ends \/ Waits
  BY <1>2 DEF Ends, Waits, Nesting
<1>3. CASE frames # <<>> /\ Step
  <2> USE <1>3
  <2>1. FrameShape(Top) /\ CallerShape(Len(frames)) /\ Len(frames) \in Nat \ {0}
    BY TopShape
  <2>2. NotNested(Top)
    BY <2>1 DEF Nesting, Top
  <2>3. CASE QueryGoesOn
    <3>1. PICK f : /\ Become(f) /\ Top.kind = "query" /\ SameQueryFrame(f)
                   /\ f.ctx = IF Top.stage = "open" THEN LevelContext(Top.ctx, Top.args, Top.query) ELSE Top.ctx
      BY <2>3 DEF QueryGoesOn
    <3>2. f.ctx.calls = Top.ctx.calls /\ f.kind = "query"
      BY <2>1, <3>1, LevelFacts DEF FrameShape, SameQueryFrame
    <3> QED
      BY <2>2, <3>1, <3>2, NestingKept DEF Changed, NotNested
  <2>4. CASE TaskMoves \/ TaskEmits
    <3>1. PICK f : TaskGoesOn(f)
      BY <2>4 DEF TaskMoves, TaskEmits
    <3> QED
      BY <2>2, <3>1, NestingKept DEF Changed, NotNested, TaskGoesOn, SameTaskFrame
  <2>5. ASSUME NEW f, SameCaller(f) PROVE NotNested(f)
    BY <2>2, <2>5 DEF SameCaller, SameTaskFrame, NotNested
  <2>6. CASE CallsTask
    <3>1. PICK f, id, ctx, hooks : /\ Call(f, TaskCall(id, ctx, hooks)) /\ SameCaller(f)
                                   /\ DOMAIN ctx = ContextFields /\ ctx.calls = Top.ctx.calls
                                   /\ ~CheckRecursion(id, ctx)
      BY <2>6 DEF CallsTask
    <3>2. ContextShape(ctx)
      BY <2>1, <3>1 DEF FrameShape, ContextShape
    <3>3. /\ TaskCall(id, ctx, hooks).ctx.calls = Top.ctx.calls /\ TaskCall(id, ctx, hooks).id = id
          /\ id \notin ToSet(Top.ctx.calls)
      BY <3>1, <3>2, TaskCallFacts DEF CheckRecursion
    <3>4. NotNested(TaskCall(id, ctx, hooks))
      BY <2>2, <3>3 DEF NotNested
    <3> QED
      BY <2>5, <3>1, <3>4, NestingKept DEF Changed
  <2>7. CASE CallsQuery
    <3>1. PICK f, args, cwd : /\ Call(f, QueryCall(StepContext, args, cwd)) /\ Top.kind = "task"
                              /\ SameTaskFrame(f) /\ f.items = Top.items
      BY <2>7 DEF CallsQuery
    <3>2. DOMAIN Top.ctx = ContextFields /\ IsList(Top.ctx.calls)
      BY <2>1 DEF FrameShape, ContextShape
    <3>3. StepContext.calls = Append(Top.ctx.calls, Top.id) /\ ContextShape(StepContext)
      BY <3>2, StepContextFacts, StepContextShape DEF ContextShape
    <3>4. IsInjective(StepContext.calls)
      BY <2>2, <3>1, <3>2, <3>3, AppendKeepsInjective DEF NotNested
    <3> DEFINE g == QueryCall(StepContext, args, cwd)
    <3>5. g.kind = "query" /\ g.ctx = StepContext
      BY <3>3, QueryCallFacts
    <3>7. Call(f, g)
      BY <3>1
    <3> HIDE DEF g
    <3>8. NotNested(g)
      BY <3>4, <3>5 DEF NotNested
    <3>6. NotNested(f)
      BY <2>5, <3>1 DEF SameCaller
    <3> QED
      BY <3>6, <3>7, <3>8, NestingKept DEF Changed
  <2>8. CASE TaskReturns
    <3>1. Len(frames) > 1
      BY <2>1, <2>8, CallerOf DEF TaskReturns
    <3>2. FrameShape(Caller) /\ NotNested(Caller)
      BY <2>1, <3>1 DEF StackShape, Nesting, Caller
    <3>3. PICK planned, items :
            Resume(IF Caller.kind = "query" THEN [Caller EXCEPT !.planned = planned]
                   ELSE [Caller EXCEPT !.items = items])
      BY <2>8 DEF TaskReturns
    <3>4. CASE Caller.kind = "query"
      <4> DEFINE f == [Caller EXCEPT !.planned = planned]
      <4>1. Resume(f)
        BY <3>3, <3>4
      <4>2. NotNested(f)
        BY <3>2, <3>4 DEF NotNested, FrameShape, QueryFields
      <4> HIDE DEF f
      <4> QED
        BY <3>1, <4>1, <4>2, NestingKept DEF Changed
    <3>5. CASE Caller.kind # "query"
      <4> DEFINE f == [Caller EXCEPT !.items = items]
      <4>1. Resume(f)
        BY <3>3, <3>5
      <4>2. NotNested(f)
        BY <3>2, <3>5 DEF NotNested, FrameShape, TaskFields
      <4> HIDE DEF f
      <4> QED
        BY <3>1, <4>1, <4>2, NestingKept DEF Changed
    <3> QED
      BY <3>4, <3>5
  <2>9. CASE QueryReturns
    <3>1. Len(frames) > 1 /\ Caller.kind = "task"
      BY <2>1, <2>9, CallerOf DEF QueryReturns
    <3>2. FrameShape(Caller) /\ NotNested(Caller)
      BY <2>1, <3>1 DEF StackShape, Nesting, Caller
    <3>3. PICK items : Resume([Caller EXCEPT !.items = items])
      BY <2>9 DEF QueryReturns
    <3> DEFINE f == [Caller EXCEPT !.items = items]
    <3>4. Resume(f)
      BY <3>3
    <3>5. NotNested(f)
      BY <3>1, <3>2 DEF NotNested, FrameShape, TaskFields
    <3> HIDE DEF f
    <3> QED
      BY <3>1, <3>4, <3>5, NestingKept DEF Changed
  <2>10. CASE Starts \/ Ends \/ Waits
    BY <1>1, <1>2, <2>10
  <2> QED
    BY <2>3, <2>4, <2>6, <2>7, <2>8, <2>9, <2>10 DEF Step
<1> QED
  BY <1>1, <1>2, <1>3, Steps

(* Expanding nested runs never enters a task that is being expanded, in any
   workspace and for any command line (check_recursion). *)
THEOREM NeverNested == Spec => []NoSelfNesting
<1>1. Init => Nesting
  BY EmptySeq DEF Init, Nesting
<1>2. StackShape /\ Nesting /\ [Next]_vars => Nesting'
  BY NestingStep
<1>3. StackShape /\ Nesting => NoSelfNesting
  BY ListFacts DEF StackShape, IsList, Nesting, NotNested, NoSelfNesting
<1> QED
  BY <1>1, <1>2, <1>3, PlanStack, PTL DEF Spec

-----------------------------------------------------------------------------
(* A cached command sees no variable that its entry does not depend on: what is
   passed to it is what the filter lets through, and the fingerprint has of it
   what no `untracked` pattern lets through.  Items are kept as they are made. *)

Covered(item) ==
  item.kind = "spawn" /\ item.cache # None =>
    \A n \in DOMAIN item.envs :
      \/ n \in DOMAIN item.cache.fingerprint /\ item.cache.fingerprint[n] = item.envs[n]
      \/ GlobMatches(item.cache.config.untracked, n)
      \/ n \in {Marker, ForceColor} /\ item.envs[n] = "1"

ItemsCovered(f) == f.kind = "task" => \A item \in ToSet(f.items) : Covered(item)

Covering == \A i \in 1 .. Len(frames) : ItemsCovered(frames[i])

(* What two sets of patterns let through, one of them does. *)
LEMMA UnionMatches ==
  ASSUME NEW P, NEW Q, NEW n, GlobMatches(P \cup Q, n)
  PROVE  GlobMatches(P, n) \/ GlobMatches(Q, n)
BY DEF GlobMatches

LEMMA PassedIsCovered ==
  ASSUME NEW envs, NEW cache, cache # None, NEW prefix,
         NEW n \in DOMAIN SpawnEnvs(envs, cache, prefix)
  PROVE  LET passed == SpawnEnvs(envs, cache, prefix)
             fingerprint == Fingerprinted(envs, cache, prefix)
         IN \/ n \in DOMAIN fingerprint /\ fingerprint[n] = passed[n]
            \/ GlobMatches(cache.untracked, n)
            \/ n \in {Marker, ForceColor} /\ passed[n] = "1"
<1> DEFINE filtered == Filtered(envs, cache)
<1> DEFINE own == Over(prefix, Only(Marker, "1"))
<1> DEFINE passed == SpawnEnvs(envs, cache, prefix)
<1> DEFINE tracked == Keep(filtered, {m \in DOMAIN filtered : GlobMatches(cache.env, m)})
<1> DEFINE fingerprint == Fingerprinted(envs, cache, prefix)
<1>1. passed = Over(own, filtered) /\ fingerprint = Over(prefix, tracked)
  BY DEF SpawnEnvs, Fingerprinted
<1>2. DOMAIN own = (DOMAIN prefix) \cup {Marker} /\ DOMAIN fingerprint = (DOMAIN prefix) \cup (DOMAIN tracked)
  <2> HIDE DEF filtered, tracked, passed, fingerprint
  <2> QED
    BY <1>1 DEF Over, Only
<1>3. /\ DOMAIN tracked = {m \in DOMAIN filtered : GlobMatches(cache.env, m)}
      /\ \A m \in DOMAIN tracked : tracked[m] = filtered[m]
  <2> HIDE DEF filtered
  <2> QED
    BY DEF Keep
<1>4. ASSUME n \in DOMAIN prefix PROVE n \in DOMAIN fingerprint /\ fingerprint[n] = passed[n]
  <2>1. own[n] = prefix[n] /\ n \in DOMAIN own
    BY <1>2, <1>4 DEF Over
  <2> HIDE DEF own, filtered, tracked, passed, fingerprint
  <2> QED
    BY <1>1, <1>2, <1>4, <2>1 DEF Over
<1>5. ASSUME n \notin DOMAIN prefix, n = Marker PROVE passed[n] = "1"
  <2>1. own[n] = "1" /\ n \in DOMAIN own
    BY <1>2, <1>5 DEF Over, Only
  <2> HIDE DEF own, filtered, tracked, passed, fingerprint
  <2> QED
    BY <1>1, <2>1 DEF Over
<1>6. ASSUME n \notin DOMAIN prefix, n # Marker
      PROVE  n \in DOMAIN filtered /\ passed[n] = filtered[n]
  <2>1. n \in DOMAIN passed
    OBVIOUS
  <2> HIDE DEF own, filtered, tracked, passed, fingerprint
  <2> QED
    BY <1>1, <1>2, <1>6, <2>1 DEF Over
<1>7. ASSUME n \notin DOMAIN prefix, n # Marker
      PROVE  \/ n \in DOMAIN fingerprint /\ fingerprint[n] = passed[n]
             \/ GlobMatches(cache.untracked, n)
             \/ n = ForceColor /\ passed[n] = "1"
  <2> DEFINE through == {m \in DOMAIN envs : GlobMatches(cache.untracked \cup cache.env, m)}
  <2> DEFINE kept == Keep(envs, through)
  <2>1. filtered = Over(kept, Only(ForceColor, "1"))
    BY DEF Filtered
  <2>2. DOMAIN kept = through
    BY DEF Keep
  <2>3. CASE n \in through
    <3>1. GlobMatches(cache.untracked, n) \/ GlobMatches(cache.env, n)
      BY <2>3, UnionMatches
    <3>2. CASE GlobMatches(cache.env, n)
      <4>1. n \in DOMAIN tracked /\ tracked[n] = passed[n]
        BY <1>3, <1>6, <1>7, <3>2
      <4> HIDE DEF own, filtered, tracked, passed, fingerprint
      <4> QED
        BY <1>1, <1>2, <1>7, <4>1 DEF Over
    <3> QED
      BY <3>1, <3>2
  <2>4. CASE n \notin through
    <3> HIDE DEF own, filtered, tracked, passed, fingerprint, kept, through
    <3>1. n = ForceColor /\ filtered[n] = "1"
      BY <1>6, <1>7, <2>1, <2>2, <2>4 DEF Over, Only
    <3> QED
      BY <1>6, <1>7, <3>1
  <2> QED
    BY <2>3, <2>4
<1> QED
  BY <1>4, <1>5, <1>7

LEMMA SpawnCovered ==
  ASSUME NEW frame, NEW ctx, NEW cache, NEW prefix, NEW program, NEW position, NEW extra
  PROVE  Covered(Spawn(frame, ctx, cache, prefix, program, position, extra))
<1> DEFINE item == Spawn(frame, ctx, cache, prefix, program, position, extra)
<1>1. item.envs = SpawnEnvs(ctx.envs, cache, prefix) /\ (item.cache # None => cache # None)
  BY DEF Spawn
<1>2. cache # None => item.cache.config = cache /\ item.cache.fingerprint = Fingerprinted(ctx.envs, cache, prefix)
  BY DEF Spawn
<1> HIDE DEF item
<1>3. ASSUME item.cache # None, NEW n \in DOMAIN item.envs
      PROVE  \/ n \in DOMAIN item.cache.fingerprint /\ item.cache.fingerprint[n] = item.envs[n]
             \/ GlobMatches(item.cache.config.untracked, n)
             \/ n \in {Marker, ForceColor} /\ item.envs[n] = "1"
  BY <1>1, <1>2, <1>3, PassedIsCovered
<1>4. Covered(item)
  BY <1>3 DEF Covered
<1> QED
  BY <1>4 DEF item

LEMMA CoveringKept ==
  ASSUME StackShape, Covering, NEW f, NEW g, Changed(f, g), ItemsCovered(f), ItemsCovered(g)
  PROVE  Covering'
BY Changing DEF StackShape, Covering

LEMMA CoveringStep ==
  ASSUME StackShape, Covering, [Next]_vars
  PROVE  Covering'
<1>1. CASE Starts
  <2>1. PICK args, cwd : frames' = <<QueryCall(SessionContext, args, cwd)>>
    BY <1>1 DEF Starts
  <2> DEFINE f == QueryCall(SessionContext, args, cwd)
  <2>2. f.kind = "query"
    BY SessionFacts, QueryCallFacts
  <2> HIDE DEF f
  <2>3. Len(frames') = 1 /\ frames'[1] = f
    BY <2>1 DEF f
  <2> QED
    BY <2>2, <2>3 DEF Covering, ItemsCovered
<1>2. CASE Ends \/ Waits
  BY <1>2 DEF Ends, Waits, Covering
<1>3. CASE frames # <<>> /\ Step
  <2> USE <1>3
  <2>1. FrameShape(Top) /\ CallerShape(Len(frames)) /\ Len(frames) \in Nat \ {0}
    BY TopShape
  <2>2. ItemsCovered(Top)
    BY <2>1 DEF Covering, Top
  <2>3. CASE QueryGoesOn
    <3>1. PICK f : Become(f) /\ SameQueryFrame(f)
      BY <2>3 DEF QueryGoesOn
    <3> QED
      BY <3>1, CoveringKept DEF Changed, ItemsCovered, SameQueryFrame
  <2>4. CASE TaskMoves
    <3>1. PICK f : TaskGoesOn(f) /\ f.items = Top.items
      BY <2>4 DEF TaskMoves
    <3> QED
      BY <2>2, <3>1, CoveringKept DEF Changed, ItemsCovered, TaskGoesOn
  <2>5. CASE TaskEmits
    <3>1. PICK f, item : /\ TaskGoesOn(f) /\ f.items = Append(Top.items, item)
                         /\ item.kind = "inProcess" \/ ItemOfCommand(item)
      BY <2>5 DEF TaskEmits
    <3>2. Covered(item)
      <4>1. CASE item.kind = "inProcess"
        BY <4>1 DEF Covered
      <4>2. CASE ItemOfCommand(item)
        <5>1. PICK ctx, cache, prefix, program, step, extra :
                item = Spawn(Top, ctx, cache, prefix, program, <<Top.command, step>>, extra)
          BY <4>2 DEF ItemOfCommand
        <5> QED
          BY <5>1, SpawnCovered
      <4> QED
        BY <3>1, <4>1, <4>2
    <3>3. IsList(Top.items)
      BY <2>1, <3>1 DEF FrameShape, TaskGoesOn
    <3>4. ToSet(f.items) = ToSet(Top.items) \cup {item}
      BY <3>1, <3>3, AppendList
    <3>5. ItemsCovered(f)
      BY <2>2, <3>1, <3>2, <3>4 DEF ItemsCovered, TaskGoesOn
    <3> QED
      BY <3>1, <3>5, CoveringKept DEF Changed, TaskGoesOn
  <2>6. ASSUME NEW f, SameCaller(f) PROVE ItemsCovered(f)
    BY <2>2, <2>6 DEF SameCaller, SameTaskFrame, ItemsCovered
  <2>7. CASE CallsTask
    <3>1. PICK f, id, ctx, hooks : /\ Call(f, TaskCall(id, ctx, hooks)) /\ SameCaller(f)
                                   /\ DOMAIN ctx = ContextFields /\ ctx.calls = Top.ctx.calls
      BY <2>7 DEF CallsTask
    <3> DEFINE g == TaskCall(id, ctx, hooks)
    <3>2. g.items = <<>>
      BY <2>1, <3>1, TaskCallFacts DEF FrameShape, ContextShape
    <3>3. Call(f, g)
      BY <3>1
    <3> HIDE DEF g
    <3>4. ToSet(g.items) = {}
      BY <3>2 DEF ToSet
    <3> QED
      BY <2>6, <3>1, <3>3, <3>4, CoveringKept DEF Changed, ItemsCovered
  <2>8. CASE CallsQuery
    <3>1. PICK f, args, cwd : /\ Call(f, QueryCall(StepContext, args, cwd)) /\ Top.kind = "task"
                              /\ SameTaskFrame(f) /\ f.items = Top.items
      BY <2>8 DEF CallsQuery
    <3> DEFINE g == QueryCall(StepContext, args, cwd)
    <3>2. g.kind = "query"
      BY <2>1, StepContextShape, QueryCallFacts DEF FrameShape
    <3>3. Call(f, g)
      BY <3>1
    <3> HIDE DEF g
    <3> QED
      BY <2>6, <3>1, <3>2, <3>3, CoveringKept DEF Changed, ItemsCovered, SameCaller
  <2>9. CASE TaskReturns
    <3>1. Len(frames) > 1 /\ Top.kind = "task"
      BY <2>1, <2>9, CallerOf DEF TaskReturns
    <3>2. FrameShape(Caller) /\ ItemsCovered(Caller)
      BY <2>1, <3>1 DEF StackShape, Covering, Caller
    <3>3. CASE Caller.kind = "query"
      <4> DEFINE f == [Caller EXCEPT !.planned = Over(Only(Top.id, Top.items), @)]
      <4>1. Resume(f)
        BY <2>9, <3>3 DEF TaskReturns
      <4>2. f.kind = "query"
        BY <3>2, <3>3 DEF FrameShape, QueryFields
      <4> HIDE DEF f
      <4> QED
        BY <3>1, <4>1, <4>2, CoveringKept DEF Changed, ItemsCovered
    <3>4. CASE Caller.kind # "query"
      <4> DEFINE joint == Caller.items \o Top.items
      <4> DEFINE f == [Caller EXCEPT !.items = joint]
      <4>1. Resume(f)
        BY <2>9, <3>4 DEF TaskReturns
      <4>2. ToSet(joint) = ToSet(Caller.items) \cup ToSet(Top.items)
        BY <2>1, <3>1, <3>2, <3>4, JoinLists DEF FrameShape
      <4> HIDE DEF joint
      <4>3. f.items = joint
        BY <3>2, <3>4 DEF FrameShape, TaskFields
      <4>4. ItemsCovered(f)
        BY <2>2, <3>1, <3>2, <3>4, <4>2, <4>3 DEF ItemsCovered, FrameShape
      <4> HIDE DEF f
      <4> QED
        BY <3>1, <4>1, <4>4, CoveringKept DEF Changed
    <3> QED
      BY <3>3, <3>4
  <2>10. CASE QueryReturns
    <3>1. Len(frames) > 1 /\ Caller.kind = "task"
      BY <2>1, <2>10, CallerOf DEF QueryReturns
    <3>2. FrameShape(Caller) /\ ItemsCovered(Caller)
      BY <2>1, <3>1 DEF StackShape, Covering, Caller
    <3>3. PICK item : item.kind = "expanded" /\ Resume([Caller EXCEPT !.items = Append(@, item)])
      BY <2>10 DEF QueryReturns
    <3> DEFINE more == Append(Caller.items, item)
    <3> DEFINE f == [Caller EXCEPT !.items = more]
    <3>4. Resume(f)
      BY <3>3
    <3>5. ToSet(more) = ToSet(Caller.items) \cup {item}
      BY <3>1, <3>2, AppendList DEF FrameShape
    <3> HIDE DEF more
    <3>6. f.items = more
      BY <3>1, <3>2 DEF FrameShape, TaskFields
    <3>7. ItemsCovered(f)
      BY <3>1, <3>2, <3>3, <3>5, <3>6 DEF ItemsCovered, Covered
    <3> HIDE DEF f
    <3> QED
      BY <3>1, <3>4, <3>7, CoveringKept DEF Changed
  <2>11. CASE Starts \/ Ends \/ Waits
    BY <1>1, <1>2, <2>11
  <2> QED
    BY <2>3, <2>4, <2>5, <2>7, <2>8, <2>9, <2>10, <2>11 DEF Step
<1> QED
  BY <1>1, <1>2, <1>3, Steps

(* A cached command sees no variable that is neither in its fingerprint nor
   declared untracked, the planner's own two excepted, in any workspace
   (EnvFingerprints::resolve, plan_spawn_execution). *)
THEOREM NothingUnseen == Spec => []EnvCovered
<1>1. Init => Covering
  BY EmptySeq DEF Init, Covering
<1>2. StackShape /\ Covering /\ [Next]_vars => Covering'
  BY CoveringStep
<1>3. StackShape /\ Covering => EnvCovered
  BY ListFacts DEF StackShape, IsList, Covering, ItemsCovered, Covered, EnvCovered
<1> QED
  BY <1>1, <1>2, <1>3, PlanStack, PTL DEF Spec

-----------------------------------------------------------------------------
(* Every task is cached as the nearest flag around it says.  What a level has to
   do with the levels around it is in its context: the cache settings of a call
   are those the nearest override makes of the workspace's. *)

LEMMA Least ==
  ASSUME NEW T \in SUBSET Nat, T # {}
  PROVE  \E m \in T : \A k \in T : m <= k
<1> DEFINE R == OpToRel(<, Nat)
<1>1. IsWellFoundedOn(R, Nat)
  BY NatLessThanWellFounded
<1>2. PICK m \in T : \A k \in T : <<k, m>> \notin R
  <2> HIDE DEF R
  <2> QED
    BY <1>1, WFMin
<1>3. R = {ss \in Nat \X Nat : ss[1] < ss[2]}
  BY DEF OpToRel
<1> HIDE DEF R
<1>4. ASSUME NEW k \in T PROVE ~(k < m)
  <2>1. k \in Nat /\ m \in Nat
    OBVIOUS
  <2>2. <<k, m>> \in R <=> k < m
    BY <2>1, <1>3
  <2> QED
    BY <1>2, <2>2
<1> QED
  BY <1>4

LEMMA Greatest ==
  ASSUME NEW n \in Nat, NEW T \in SUBSET (1 .. n), T # {}
  PROVE  \E m \in T : \A k \in T : k <= m
<1> DEFINE U == {n - k : k \in T}
<1>1. U \in SUBSET Nat /\ U # {}
  <2>1. ASSUME NEW k \in T PROVE n - k \in Nat
    OBVIOUS
  <2>2. PICK k \in T : TRUE
    OBVIOUS
  <2>3. n - k \in U
    BY <2>2
  <2> QED
    BY <2>1, <2>3
<1>2. PICK u \in U : \A v \in U : u <= v
  <2> HIDE DEF U
  <2> QED
    BY <1>1, Least
<1>3. PICK m \in T : u = n - m
  OBVIOUS
<1>4. ASSUME NEW k \in T PROVE k <= m
  <2>1. n - m <= n - k
    BY <1>2, <1>3
  <2>2. k \in Int /\ m \in Int
    OBVIOUS
  <2> QED
    BY <2>1, <2>2
<1> QED
  BY <1>4

Flagged(stack, i) == {j \in 1 .. i : stack[j].kind = "query" /\ stack[j].args.override # "none"}

Nearest(stack, i) == CHOOSE j \in Flagged(stack, i) : \A k \in Flagged(stack, i) : k <= j

OverrideAt(stack, i) ==
  IF Flagged(stack, i) = {} THEN "none" ELSE stack[Nearest(stack, i)].args.override

LEMMA NearestIn ==
  ASSUME NEW stack, NEW i \in Nat, Flagged(stack, i) # {}
  PROVE  Nearest(stack, i) \in Flagged(stack, i)
<1>1. \E m \in Flagged(stack, i) : \A k \in Flagged(stack, i) : k <= m
  BY Greatest DEF Flagged
<1> QED
  BY <1>1 DEF Nearest

(* A call without a flag of its own has the override around it. *)
LEMMA NoOwnOverride ==
  ASSUME NEW stack, NEW i \in Nat \ {0}, stack[i].kind = "query" => stack[i].args.override = "none"
  PROVE  OverrideAt(stack, i) = OverrideAt(stack, i - 1)
<1>1. i \notin Flagged(stack, i)
  BY DEF Flagged
<1>2. \A j : j \in 1 .. i /\ j # i <=> j \in 1 .. (i - 1)
  OBVIOUS
<1>3. Flagged(stack, i) = Flagged(stack, i - 1)
  BY <1>1, <1>2 DEF Flagged
<1>4. Nearest(stack, i) = Nearest(stack, i - 1)
  BY <1>3 DEF Nearest
<1> QED
  BY <1>3, <1>4 DEF OverrideAt

LEMMA OwnOverride ==
  ASSUME NEW stack, NEW i \in Nat \ {0}, stack[i].kind = "query", stack[i].args.override # "none"
  PROVE  OverrideAt(stack, i) = stack[i].args.override
<1>1. i \in Flagged(stack, i) /\ \A k \in Flagged(stack, i) : k \in 1 .. i /\ k <= i
  BY DEF Flagged
<1>2. Nearest(stack, i) \in Flagged(stack, i) /\ i <= Nearest(stack, i)
  BY <1>1 DEF Nearest
<1>3. Nearest(stack, i) = i
  BY <1>1, <1>2
<1> QED
  BY <1>1, <1>3 DEF OverrideAt

(* The kinds and the arguments of the first calls are the same. *)
Alike(stack, other, i) ==
  \A j \in 1 .. i : /\ stack[j].kind = other[j].kind
                    /\ other[j].kind = "query" => stack[j].args = other[j].args

LEMMA NearestKept ==
  ASSUME NEW stack, NEW other, NEW i \in Nat, Alike(stack, other, i)
  PROVE  OverrideAt(stack, i) = OverrideAt(other, i)
<1>1. Flagged(stack, i) = Flagged(other, i)
  BY DEF Flagged, Alike
<1>2. Nearest(stack, i) = Nearest(other, i)
  BY <1>1 DEF Nearest
<1>3. CASE Flagged(other, i) = {}
  BY <1>1, <1>3 DEF OverrideAt
<1>4. CASE Flagged(other, i) # {}
  <2>1. Nearest(other, i) \in Flagged(other, i)
    BY <1>4, NearestIn
  <2>2. stack[Nearest(other, i)].args = other[Nearest(other, i)].args
    BY <2>1 DEF Flagged, Alike
  <2> QED
    BY <1>1, <1>2, <2>2 DEF OverrideAt
<1> QED
  BY <1>3, <1>4

Settings == RootSettings(graph, world.disk).cache

ForceAt(settings, stack, i) == WithOverride(settings, OverrideAt(stack, i))

CacheSet(i) ==
  frames[i].ctx.cache =
    ForceAt(Settings, frames, IF frames[i].kind = "query" /\ frames[i].stage = "open" THEN i - 1 ELSE i)

CachesSet == \A i \in 1 .. Len(frames) : CacheSet(i)

LEMMA ForceOutside == \A settings, stack : ForceAt(settings, stack, 0) = settings
<1> TAKE settings, stack
<1>1. Flagged(stack, 0) = {}
  BY DEF Flagged
<1> QED
  BY <1>1 DEF ForceAt, OverrideAt, WithOverride

(* A call whose caller and kind stay keeps its settings. *)
LEMMA CacheSetKept ==
  ASSUME NEW i \in Nat \ {0}, CacheSet(i), UNCHANGED session, Alike(frames', frames, i),
         frames'[i].ctx.cache = frames[i].ctx.cache,
         frames[i].kind = "query" => (frames'[i].stage = "open" <=> frames[i].stage = "open")
  PROVE  CacheSet(i)'
<1>1. Settings' = Settings
  BY DEF Settings, session
<1>2. frames'[i].kind = frames[i].kind
  BY DEF Alike
<1>3. OverrideAt(frames', i) = OverrideAt(frames, i)
  BY NearestKept
<1>4. OverrideAt(frames', i - 1) = OverrideAt(frames, i - 1)
  <2>1. i - 1 \in Nat /\ Alike(frames', frames, i - 1)
    BY DEF Alike
  <2> QED
    BY <2>1, NearestKept
<1>5. CASE frames[i].kind = "query" /\ frames[i].stage = "open"
  BY <1>1, <1>2, <1>4, <1>5 DEF CacheSet, ForceAt
<1>6. CASE ~(frames[i].kind = "query" /\ frames[i].stage = "open")
  BY <1>1, <1>2, <1>3, <1>6 DEF CacheSet, ForceAt
<1> QED
  BY <1>5, <1>6

LEMMA BecomeCache ==
  ASSUME StackShape, CachesSet, frames # <<>>, NEW f, Become(f), f.kind = Top.kind,
         f.kind = "query" => f.args = Top.args /\ f.stage # "open",
         f.ctx.cache = ForceAt(Settings, frames, Len(frames))
  PROVE  CachesSet'
<1>0. PICK n : n = Len(frames)
  OBVIOUS
<1>1. /\ Len(frames') = n /\ n \in Nat \ {0} /\ frames'[n] = f
      /\ \A i \in 1 .. (n - 1) : frames'[i] = frames[i]
  BY <1>0, Becoming DEF StackShape
<1>2. UNCHANGED session /\ Settings' = Settings
  BY DEF Become, Settings, session
<1>3. ASSUME NEW i \in 1 .. (n - 1) PROVE CacheSet(i)'
  <2>1. Alike(frames', frames, i) /\ CacheSet(i) /\ frames'[i] = frames[i]
    BY <1>0, <1>1 DEF Alike, CachesSet
  <2> QED
    BY <1>2, <2>1, CacheSetKept
<1>4. CacheSet(n)'
  <2>1. Alike(frames', frames, n)
    BY <1>0, <1>1 DEF Alike, Top
  <2>2. OverrideAt(frames', n) = OverrideAt(frames, n)
    BY <1>1, <2>1, NearestKept
  <2>3. frames'[n].ctx.cache = ForceAt(Settings, frames, n) /\ ~(frames'[n].kind = "query" /\ frames'[n].stage = "open")
    BY <1>0, <1>1
  <2> QED
    BY <1>2, <2>2, <2>3 DEF CacheSet, ForceAt
<1>5. \A i \in 1 .. n : i = n \/ i \in 1 .. (n - 1)
  BY <1>1
<1> QED
  BY <1>1, <1>3, <1>4, <1>5 DEF CachesSet

LEMMA CallCache ==
  ASSUME StackShape, CachesSet, frames # <<>>, NEW f, NEW g, Call(f, g), f.kind = Top.kind,
         f.kind = "query" => f.args = Top.args /\ f.stage # "open",
         f.ctx.cache = ForceAt(Settings, frames, Len(frames)),
         g.ctx.cache = ForceAt(Settings, frames, Len(frames)),
         g.kind = "query" => g.stage = "open"
  PROVE  CachesSet'
<1>0. PICK n : n = Len(frames)
  OBVIOUS
<1>1. /\ Len(frames') = n + 1 /\ n \in Nat \ {0} /\ frames'[n] = f /\ frames'[n + 1] = g
      /\ \A i \in 1 .. (n - 1) : frames'[i] = frames[i]
  BY <1>0, Calling DEF StackShape
<1>2. UNCHANGED session /\ Settings' = Settings
  BY DEF Call, Settings, session
<1>3. ASSUME NEW i \in 1 .. (n - 1) PROVE CacheSet(i)'
  <2>1. Alike(frames', frames, i) /\ CacheSet(i) /\ frames'[i] = frames[i]
    BY <1>0, <1>1 DEF Alike, CachesSet
  <2> QED
    BY <1>2, <2>1, CacheSetKept
<1>4. OverrideAt(frames', n) = OverrideAt(frames, n)
  <2>1. Alike(frames', frames, n)
    BY <1>0, <1>1 DEF Alike, Top
  <2> QED
    BY <1>1, <2>1, NearestKept
<1>5. CacheSet(n)'
  <2>1. frames'[n].ctx.cache = ForceAt(Settings, frames, n) /\ ~(frames'[n].kind = "query" /\ frames'[n].stage = "open")
    BY <1>0, <1>1
  <2> QED
    BY <1>2, <1>4, <2>1 DEF CacheSet, ForceAt
<1>6. CacheSet(n + 1)'
  <2>1. PICK m : m = n + 1 /\ m \in Nat \ {0} /\ m - 1 = n
    BY <1>1
  <2>2. frames'[m] = g /\ g.ctx.cache = ForceAt(Settings, frames, n)
    BY <1>0, <1>1, <2>1
  <2>3. ForceAt(Settings, frames, n) = ForceAt(Settings', frames', n)
    BY <1>2, <1>4 DEF ForceAt
  <2>4. CASE g.kind = "query"
    BY <2>1, <2>2, <2>3, <2>4 DEF CacheSet
  <2>5. CASE g.kind # "query"
    <3>1. OverrideAt(frames', m) = OverrideAt(frames', m - 1)
      BY <2>1, <2>2, <2>5, NoOwnOverride
    <3>2. ForceAt(Settings', frames', m) = ForceAt(Settings', frames', n)
      BY <2>1, <3>1 DEF ForceAt
    <3> QED
      BY <2>1, <2>2, <2>3, <2>5, <3>2 DEF CacheSet
  <2> QED
    BY <2>1, <2>4, <2>5
<1>7. \A i \in 1 .. (n + 1) : i = n + 1 \/ i = n \/ i \in 1 .. (n - 1)
  BY <1>1
<1> QED
  BY <1>1, <1>3, <1>5, <1>6, <1>7 DEF CachesSet

LEMMA ResumeCache ==
  ASSUME StackShape, CachesSet, Len(frames) > 1, NEW f, Resume(f), f.kind = Caller.kind,
         f.kind = "query" => f.args = Caller.args /\ f.stage = Caller.stage,
         f.ctx = Caller.ctx
  PROVE  CachesSet'
<1>0. PICK n : n = Len(frames)
  OBVIOUS
<1>1. /\ Len(frames') = n - 1 /\ n \in Nat /\ frames'[n - 1] = f
      /\ \A i \in 1 .. (n - 2) : frames'[i] = frames[i]
  BY <1>0, Resuming DEF StackShape
<1>2. UNCHANGED session
  BY DEF Resume
<1>3. \A i \in 1 .. (n - 1) : i = n - 1 \/ i \in 1 .. (n - 2)
  BY <1>1
<1>4. \A i \in 1 .. (n - 1) : /\ frames'[i].kind = frames[i].kind /\ frames'[i].ctx = frames[i].ctx
                              /\ frames[i].kind = "query" => /\ frames'[i].args = frames[i].args
                                                             /\ frames'[i].stage = frames[i].stage
  BY <1>0, <1>1, <1>3 DEF Caller
<1>5. ASSUME NEW i \in 1 .. (n - 1) PROVE CacheSet(i)'
  <2>1. i \in 1 .. n /\ i \in Nat \ {0} /\ \A j \in 1 .. i : j \in 1 .. (n - 1)
    BY <1>1
  <2>2. Alike(frames', frames, i)
    BY <1>4, <2>1 DEF Alike
  <2>3. CacheSet(i)
    BY <1>0, <2>1 DEF CachesSet
  <2> QED
    BY <1>2, <1>4, <2>1, <2>2, <2>3, CacheSetKept
<1> QED
  BY <1>1, <1>5 DEF CachesSet

LEMMA TopCache ==
  ASSUME StackShape, CachesSet, frames # <<>>, Top.kind = "query" => Top.stage # "open"
  PROVE  Top.ctx.cache = ForceAt(Settings, frames, Len(frames))
<1>1. Len(frames) \in Nat \ {0}
  BY TopShape
<1>2. CacheSet(Len(frames))
  BY <1>1 DEF CachesSet
<1> QED
  BY <1>2 DEF CacheSet, Top

(* A level that begins has its own override, or the one around it. *)
LEMMA LevelCache ==
  ASSUME StackShape, CachesSet, frames # <<>>, Top.kind = "query", Top.stage = "open"
  PROVE  LevelContext(Top.ctx, Top.args, Top.query).cache = ForceAt(Settings, frames, Len(frames))
<1>1. Len(frames) \in Nat \ {0} /\ ContextShape(Top.ctx)
  BY TopShape DEF FrameShape
<1> PICK n : n = Len(frames)
  OBVIOUS
<1>2. CacheSet(n)
  BY <1>1 DEF CachesSet
<1>3. Top.ctx.cache = ForceAt(Settings, frames, n - 1)
  BY <1>2 DEF CacheSet, Top
<1>4. LevelContext(Top.ctx, Top.args, Top.query).cache =
        IF Top.args.override = "none" THEN Top.ctx.cache ELSE WithOverride(Settings, Top.args.override)
  BY <1>1, LevelFacts DEF Settings
<1>5. CASE Top.args.override = "none"
  <2>1. OverrideAt(frames, n) = OverrideAt(frames, n - 1)
    BY <1>1, <1>5, NoOwnOverride DEF Top
  <2> QED
    BY <1>3, <1>4, <1>5, <2>1 DEF ForceAt
<1>6. CASE Top.args.override # "none"
  <2>1. OverrideAt(frames, n) = Top.args.override
    BY <1>1, <1>6, OwnOverride DEF Top
  <2> QED
    BY <1>4, <1>6, <2>1 DEF ForceAt
<1> QED
  BY <1>5, <1>6

(* An item against the settings of the task around it. *)
Follows(item, settings) ==
  LET task == Task(graph, world.disk, item.task)
      own == EffectiveCache(task, settings)
      command == task.commands[item.position[1]]
  IN item.kind = "spawn" =>
       /\ item.cache # None => own # None
       /\ (command.kind = "shell" \/ command.steps[item.position[2]].kind = "tool") /\ own # None =>
            item.cache # None

(* The tasks of a call are tasks of their packages, and its items follow. *)
Sound(f) ==
  /\ f.kind = "query" => TasksExist(f)
  /\ f.kind = "task" => /\ HasTask(graph, world.disk, f.id)
                        /\ \A item \in ToSet(f.items) : Follows(item, f.ctx.cache)

AllSound == \A i \in 1 .. Len(frames) : Sound(frames[i])

LEMMA SoundStays ==
  ASSUME NEW f, UNCHANGED session, Sound(f)
  PROVE  Sound(f)'
BY DEF session, Sound, Follows, TasksExist

LEMMA SoundKept ==
  ASSUME StackShape, AllSound, NEW f, NEW g, Changed(f, g), Sound(f), Sound(g)
  PROVE  AllSound'
<1>1. UNCHANGED session
  BY DEF Changed, Become, Call, Resume
<1>2. ASSUME NEW i \in 1 .. Len(frames') PROVE Sound(frames'[i])
  <2>1. frames'[i] = f \/ frames'[i] = g \/ (i \in 1 .. Len(frames) /\ frames'[i] = frames[i])
    BY Changing DEF StackShape
  <2> QED
    BY <2>1 DEF AllSound
<1>3. ASSUME NEW i \in 1 .. Len(frames') PROVE Sound(frames[i])'
  <2>1. PICK h : h = frames'[i]
    OBVIOUS
  <2>2. Sound(h)'
    BY <1>1, <1>2, <2>1, SoundStays
  <2> QED
    BY <2>1, <2>2 DEF Sound, TasksExist, Follows
<1> QED
  BY <1>3 DEF AllSound

(* What a command adds follows the settings of its task. *)
LEMMA SpawnFollows ==
  ASSUME \A c, f, r : [config |-> c, fingerprint |-> f, remote |-> r] # None,
         NEW item, ItemOfCommand(item)
  PROVE  Follows(item, Top.ctx.cache)
<1>1. PICK ctx, cache, prefix, program, step, extra :
        /\ item = Spawn(Top, ctx, cache, prefix, program, <<Top.command, step>>, extra)
        /\ ctx.cache = Top.ctx.cache
        /\ CacheOfCommand(cache, ctx, step)
  BY DEF ItemOfCommand
<1>2. /\ item.task = Top.id /\ item.position[1] = Top.command /\ item.position[2] = step
      /\ item.cache # None <=> cache # None
  BY <1>1 DEF Spawn
<1>3. OwnCache(ctx) = EffectiveCache(Task(graph, world.disk, item.task), Top.ctx.cache)
  BY <1>1, <1>2 DEF OwnCache
<1>4. Task(graph, world.disk, item.task).commands[item.position[1]] = Command
  BY <1>2 DEF Command, Commands
<1> QED
  BY <1>1, <1>2, <1>3, <1>4 DEF Follows, CacheOfCommand

(* None, which stands for a command without a cache entry, is no entry. *)
NoneApart == \A c, f, r : [config |-> c, fingerprint |-> f, remote |-> r] # None

LEMMA CachesStep ==
  ASSUME NoneApart, StackShape, CachesSet, AllSound, [Next]_vars
  PROVE  CachesSet' /\ AllSound'
<1>1. CASE Starts
  <2>1. PICK args, cwd : frames' = <<QueryCall(SessionContext, args, cwd)>> /\ UNCHANGED session
    BY <1>1 DEF Starts
  <2>2. PICK f : f = QueryCall(SessionContext, args, cwd)
    OBVIOUS
  <2>3. f.kind = "query" /\ f.stage = "open" /\ f.ctx.cache = Settings
    BY <2>2, SessionFacts, QueryCallFacts DEF Settings
  <2>4. Len(frames') = 1 /\ frames'[1] = f
    BY <2>1, <2>2
  <2>5. Settings' = Settings
    BY <2>1 DEF Settings, session
  <2>6. CacheSet(1)'
    BY <2>3, <2>4, <2>5, ForceOutside DEF CacheSet
  <2>7. Sound(frames[1])'
    BY <2>3, <2>4 DEF Sound, TasksExist
  <2> QED
    BY <2>4, <2>6, <2>7 DEF CachesSet, AllSound
<1>2. CASE Ends
  BY <1>2 DEF Ends, CachesSet, AllSound
<1>3. CASE Waits
  <2>1. CASE UNCHANGED frames /\ UNCHANGED session
    <3>1. Settings' = Settings
      BY <2>1 DEF Settings, session
    <3>2. CachesSet'
      BY <2>1, <3>1 DEF CachesSet, CacheSet
    <3>3. AllSound'
      BY <2>1 DEF AllSound, Sound, TasksExist, Follows, session
    <3> QED
      BY <3>2, <3>3
  <2>2. CASE UNCHANGED frames /\ frames = <<>>
    BY <2>2 DEF CachesSet, AllSound
  <2> QED
    BY <1>3, <2>1, <2>2 DEF Waits
<1>4. CASE frames # <<>> /\ Step
  <2> USE <1>4
  <2>1. FrameShape(Top) /\ CallerShape(Len(frames)) /\ Len(frames) \in Nat \ {0}
    BY TopShape
  <2>2. Sound(Top)
    BY <2>1 DEF AllSound, Top
  <2>3. CASE QueryGoesOn
    <3>1. PICK f : /\ Become(f) /\ Top.kind = "query" /\ SameQueryFrame(f) /\ f.stage # "open"
                   /\ TasksExist(Top) => TasksExist(f)
                   /\ f.ctx = IF Top.stage = "open" THEN LevelContext(Top.ctx, Top.args, Top.query) ELSE Top.ctx
      BY <2>3 DEF QueryGoesOn
    <3>2. f.ctx.cache = ForceAt(Settings, frames, Len(frames))
      BY <3>1, TopCache, LevelCache
    <3>3. CachesSet'
      BY <3>1, <3>2, BecomeCache DEF SameQueryFrame
    <3>4. Sound(f)
      BY <2>2, <3>1 DEF Sound, SameQueryFrame
    <3> QED
      BY <3>1, <3>3, <3>4, SoundKept DEF Changed
  <2>4. ASSUME Top.kind = "task", NEW f, SameTaskFrame(f)
        PROVE  f.kind = Top.kind /\ f.ctx.cache = ForceAt(Settings, frames, Len(frames))
    BY <2>4, TopCache DEF SameTaskFrame
  <2>5. CASE TaskMoves
    <3>1. PICK f : TaskGoesOn(f) /\ f.items = Top.items
      BY <2>5 DEF TaskMoves
    <3>2. CachesSet'
      BY <2>4, <3>1, BecomeCache DEF TaskGoesOn
    <3>3. Sound(f)
      BY <2>2, <3>1 DEF Sound, TaskGoesOn, SameTaskFrame
    <3> QED
      BY <3>1, <3>2, <3>3, SoundKept DEF Changed, TaskGoesOn
  <2>6. CASE TaskEmits
    <3>1. PICK f, item : /\ TaskGoesOn(f) /\ f.items = Append(Top.items, item)
                         /\ item.kind = "inProcess" \/ ItemOfCommand(item)
      BY <2>6 DEF TaskEmits
    <3>2. CachesSet'
      BY <2>4, <3>1, BecomeCache DEF TaskGoesOn
    <3>3. Follows(item, Top.ctx.cache)
      <4>1. CASE item.kind = "inProcess"
        BY <4>1 DEF Follows
      <4>2. CASE ItemOfCommand(item)
        BY <4>2, SpawnFollows DEF NoneApart
      <4> QED
        BY <3>1, <4>1, <4>2
    <3>4. ToSet(f.items) = ToSet(Top.items) \cup {item}
      BY <2>1, <3>1, AppendList DEF FrameShape, TaskGoesOn
    <3>5. Sound(f)
      BY <2>2, <3>1, <3>3, <3>4 DEF Sound, TaskGoesOn, SameTaskFrame
    <3> QED
      BY <3>1, <3>2, <3>5, SoundKept DEF Changed, TaskGoesOn
  <2>7. CASE CallsTask
    <3>1. PICK f, id, ctx, hooks :
            /\ Call(f, TaskCall(id, ctx, hooks)) /\ SameCaller(f)
            /\ DOMAIN ctx = ContextFields /\ ctx.calls = Top.ctx.calls /\ ctx.cache = Top.ctx.cache
            /\ (Top.kind = "query" /\ Top.stage = "plan" /\ id \in DOMAIN Top.tasks) \/ HasTask(graph, world.disk, id)
      BY <2>7 DEF CallsTask
    <3>2. PICK g : g = TaskCall(id, ctx, hooks)
      OBVIOUS
    <3>3. g.kind = "task" /\ g.id = id /\ g.items = <<>> /\ g.ctx.cache = Top.ctx.cache
      BY <2>1, <3>1, <3>2, TaskCallFacts DEF FrameShape, ContextShape
    <3>4. HasTask(graph, world.disk, id)
      BY <2>2, <3>1 DEF Sound, TasksExist
    <3>5. Sound(g)
      <4>1. ToSet(g.items) = {}
        BY <3>3 DEF ToSet
      <4> QED
        BY <3>3, <3>4, <4>1 DEF Sound
    <3>6. Sound(f) /\ f.kind = Top.kind /\ (f.kind = "query" => f.args = Top.args /\ f.stage # "open")
          /\ f.ctx = Top.ctx
      BY <2>2, <3>1 DEF Sound, SameCaller, SameTaskFrame
    <3>7. Top.ctx.cache = ForceAt(Settings, frames, Len(frames))
      BY <3>6, TopCache, <3>1 DEF SameCaller
    <3>8. CachesSet'
      BY <3>1, <3>2, <3>3, <3>6, <3>7, CallCache
    <3> QED
      BY <3>1, <3>2, <3>5, <3>6, <3>8, SoundKept DEF Changed
  <2>8. CASE CallsQuery
    <3>1. PICK f, args, cwd : /\ Call(f, QueryCall(StepContext, args, cwd)) /\ Top.kind = "task"
                              /\ SameTaskFrame(f) /\ f.items = Top.items
      BY <2>8 DEF CallsQuery
    <3>2. PICK g : g = QueryCall(StepContext, args, cwd)
      OBVIOUS
    <3>3. g.kind = "query" /\ g.stage = "open" /\ g.ctx.cache = Top.ctx.cache
      BY <2>1, <3>2, StepContextFacts, StepContextShape, QueryCallFacts DEF FrameShape, ContextShape
    <3>4. Sound(g)
      BY <3>3 DEF Sound, TasksExist
    <3>5. Sound(f)
      BY <2>2, <3>1 DEF Sound, SameTaskFrame
    <3>6. CachesSet'
      BY <2>4, <3>1, <3>2, <3>3, TopCache, CallCache
    <3> QED
      BY <3>1, <3>2, <3>4, <3>5, <3>6, SoundKept DEF Changed
  <2>9. ASSUME Len(frames) > 1
        PROVE  /\ FrameShape(Caller) /\ Sound(Caller) /\ CacheSet(Len(frames) - 1)
               /\ Len(frames) - 1 \in 1 .. Len(frames)
    BY <2>1, <2>9 DEF StackShape, AllSound, CachesSet, Caller
  <2>10. CASE TaskReturns
    <3>1. Len(frames) > 1 /\ Top.kind = "task"
      BY <2>1, <2>10, CallerOf DEF TaskReturns
    <3>2. CASE Caller.kind = "query"
      <4>1. PICK f : f = [Caller EXCEPT !.planned = Over(Only(Top.id, Top.items), @)]
        OBVIOUS
      <4>2. Resume(f)
        BY <2>10, <3>2, <4>1 DEF TaskReturns
      <4>3. /\ f.kind = "query" /\ f.args = Caller.args /\ f.stage = Caller.stage /\ f.ctx = Caller.ctx
            /\ f.tasks = Caller.tasks
        BY <2>9, <3>1, <3>2, <4>1 DEF FrameShape, QueryFields
      <4>4. Sound(f)
        BY <2>9, <3>1, <3>2, <4>3 DEF Sound, TasksExist
      <4>5. CachesSet'
        BY <3>1, <3>2, <4>2, <4>3, ResumeCache
      <4> QED
        BY <3>1, <4>2, <4>4, <4>5, SoundKept DEF Changed
    <3>3. CASE Caller.kind # "query"
      <4>1. PICK joint : joint = Caller.items \o Top.items
        OBVIOUS
      <4>2. PICK f : f = [Caller EXCEPT !.items = joint]
        OBVIOUS
      <4>3. Resume(f)
        BY <2>10, <3>3, <4>1, <4>2 DEF TaskReturns
      <4>4. ToSet(joint) = ToSet(Caller.items) \cup ToSet(Top.items)
        BY <2>1, <2>9, <3>1, <3>3, <4>1, JoinLists DEF FrameShape
      <4>5. f.kind = "task" /\ f.id = Caller.id /\ f.ctx = Caller.ctx /\ f.items = joint /\ Caller.kind = "task"
        BY <2>9, <3>1, <3>3, <4>2 DEF FrameShape, TaskFields
      <4>6. Caller.ctx.cache = Top.ctx.cache
        <5> PICK n : n = Len(frames)
          OBVIOUS
        <5>1. Top.ctx.cache = ForceAt(Settings, frames, n)
          BY <3>1, TopCache
        <5>2. Caller.ctx.cache = ForceAt(Settings, frames, n - 1)
          BY <2>9, <3>1, <4>5 DEF CacheSet, Caller
        <5>3. OverrideAt(frames, n) = OverrideAt(frames, n - 1)
          BY <2>1, <3>1, NoOwnOverride DEF Top
        <5> QED
          BY <5>1, <5>2, <5>3 DEF ForceAt
      <4>7. Sound(f)
        BY <2>2, <2>9, <3>1, <4>4, <4>5, <4>6 DEF Sound
      <4>8. CachesSet'
        BY <3>1, <3>3, <4>3, <4>5, ResumeCache
      <4> QED
        BY <3>1, <4>3, <4>7, <4>8, SoundKept DEF Changed
    <3> QED
      BY <3>2, <3>3
  <2>11. CASE QueryReturns
    <3>1. Len(frames) > 1 /\ Caller.kind = "task"
      BY <2>1, <2>11, CallerOf DEF QueryReturns
    <3>2. PICK item : item.kind = "expanded" /\ Resume([Caller EXCEPT !.items = Append(@, item)])
      BY <2>11 DEF QueryReturns
    <3>3. PICK more : more = Append(Caller.items, item)
      OBVIOUS
    <3>4. PICK f : f = [Caller EXCEPT !.items = more]
      OBVIOUS
    <3>5. Resume(f)
      BY <3>2, <3>3, <3>4
    <3>6. ToSet(more) = ToSet(Caller.items) \cup {item}
      BY <2>9, <3>1, <3>3, AppendList DEF FrameShape
    <3>7. f.kind = "task" /\ f.id = Caller.id /\ f.ctx = Caller.ctx /\ f.items = more
      BY <2>9, <3>1, <3>4 DEF FrameShape, TaskFields
    <3>8. Sound(f)
      BY <2>9, <3>1, <3>2, <3>6, <3>7 DEF Sound, Follows
    <3>9. CachesSet'
      BY <3>1, <3>5, <3>7, ResumeCache
    <3> QED
      BY <3>1, <3>5, <3>8, <3>9, SoundKept DEF Changed
  <2>12. CASE Starts \/ Ends \/ Waits
    BY <1>1, <1>2, <1>3, <2>12
  <2> QED
    BY <2>3, <2>5, <2>6, <2>7, <2>8, <2>10, <2>11, <2>12 DEF Step
<1> QED
  BY <1>1, <1>2, <1>3, <1>4, Steps

LEMMA NearestIsOverride == \A i : NearestOverride(i) = OverrideAt(frames, i)
BY DEF NearestOverride, OverrideAt, Flagged, Nearest

LEMMA TaskSource ==
  ASSUME NEW id, HasTask(graph, world.disk, id)
  PROVE  Task(graph, world.disk, id).source \in {"script", "config"}
BY DEF HasTask, Task, TasksOf, TaskConfigNode, ScriptNode

LEMMA SettingsShape == {"scripts", "tasks"} \subseteq DOMAIN Settings
BY DEF Settings, RootSettings, ResolvedGlobalCache

LEMMA CachesFollow ==
  ASSUME StackShape, CachesSet, AllSound
  PROVE  CacheFollowsFlags
<1> SUFFICES ASSUME NEW i \in DOMAIN frames, frames[i].kind = "task",
                    NEW item \in ToSet(frames[i].items), item.kind = "spawn", item.task = frames[i].id
             PROVE  LET frame == frames[i]
                        task == Task(graph, world.disk, frame.id)
                        settings == RootSettings(graph, world.disk).cache
                        kinds == CASE NearestOverride(i) = "on" -> {"script", "config"}
                                   [] NearestOverride(i) = "none" -> (IF settings.scripts THEN {"script"} ELSE {})
                                                                       \cup (IF settings.tasks THEN {"config"} ELSE {})
                                   [] OTHER -> {}
                        allowed == task.cache # None /\ task.source \in kinds
                        OfTool(position) == LET command == task.commands[position[1]]
                                            IN command.kind = "shell" \/ command.steps[position[2]].kind = "tool"
                    IN /\ item.cache # None => allowed
                       /\ OfTool(item.position) /\ allowed => item.cache # None
  BY DEF CacheFollowsFlags
<1> DEFINE task == Task(graph, world.disk, frames[i].id)
<1> DEFINE kinds == CASE NearestOverride(i) = "on" -> {"script", "config"}
                      [] NearestOverride(i) = "none" -> (IF Settings.scripts THEN {"script"} ELSE {})
                                                          \cup (IF Settings.tasks THEN {"config"} ELSE {})
                      [] OTHER -> {}
<1>1. i \in 1 .. Len(frames)
  BY ListFacts DEF StackShape, IsList
<1>2. HasTask(graph, world.disk, frames[i].id) /\ Follows(item, frames[i].ctx.cache)
  BY <1>1 DEF AllSound, Sound
<1>3. frames[i].ctx.cache = WithOverride(Settings, NearestOverride(i))
  BY <1>1, NearestIsOverride DEF CachesSet, CacheSet, ForceAt
<1>4. task.source \in {"script", "config"}
  BY <1>2, TaskSource
<1>5. EffectiveCache(task, frames[i].ctx.cache) # None <=> task.cache # None /\ task.source \in kinds
  <2> HIDE DEF task
  <2>1. PICK c : c = WithOverride(Settings, NearestOverride(i))
    OBVIOUS
  <2>2. CASE NearestOverride(i) = "none"
    <3>1. c = Settings
      BY <2>1, <2>2 DEF WithOverride
    <3> QED
      BY <1>3, <1>4, <2>1, <2>2, <3>1 DEF EffectiveCache
  <2>3. CASE NearestOverride(i) # "none"
    <3>1. /\ c.scripts = (NearestOverride(i) = "on")
          /\ c.tasks = (NearestOverride(i) = "on")
      BY <2>1, <2>3, SettingsShape DEF WithOverride
    <3> QED
      BY <1>3, <1>4, <2>1, <2>3, <3>1 DEF EffectiveCache
  <2> QED
    BY <2>2, <2>3
<1> HIDE DEF kinds, task
<1>6. /\ item.cache # None => task.cache # None /\ task.source \in kinds
      /\ /\ task.commands[item.position[1]].kind = "shell"
            \/ task.commands[item.position[1]].steps[item.position[2]].kind = "tool"
         /\ task.cache # None /\ task.source \in kinds
         => item.cache # None
  BY <1>2, <1>5 DEF Follows, task
<1> QED
  BY <1>6 DEF kinds, task, Settings

(* A task is cached as the nearest enclosing `--cache` or `--no-cache` says, in
   any workspace and through any levels of nested runs and hooks
   (resolve_cache_with_override).  None has to be told from a cache entry. *)
THEOREM FlagsFollowed ==
  ASSUME NoneApart
  PROVE  Spec => []CacheFollowsFlags
<1>1. Init => CachesSet /\ AllSound
  BY EmptySeq DEF Init, CachesSet, AllSound
<1>2. StackShape /\ CachesSet /\ AllSound /\ [Next]_vars => CachesSet' /\ AllSound'
  BY CachesStep
<1>3. StackShape /\ CachesSet /\ AllSound => CacheFollowsFlags
  BY CachesFollow
<1> QED
  BY <1>1, <1>2, <1>3, PlanStack, PTL DEF Spec

-----------------------------------------------------------------------------
(* The extra arguments of a command line.  A task has them in its context, its
   last step passes them on, and every call below a task has none. *)

(* An item of a task has the arguments that the task has when it is the last step
   of that task, and none otherwise. *)
Reaches(item, id, extra) ==
  item.kind = "spawn" =>
    item.extra = IF item.task = id /\ item.position = LastPosition(id) THEN extra ELSE <<>>

ExtraFor(q, id) == IF q.tasks[id].requested THEN q.args.extra ELSE <<>>

(* Nothing is planned before the query's tasks are known; a hook runs no hooks. *)
ExtrasSound(f) ==
  /\ f.kind = "query" =>
       /\ f.stage \notin {"plan", "wired"} => f.planned = <<>>
       /\ \A id \in DOMAIN f.planned : \A item \in ToSet(f.planned[id]) : Reaches(item, id, ExtraFor(f, id))
  /\ f.kind = "task" =>
       \A item \in ToSet(f.items) :
         /\ Reaches(item, f.id, f.ctx.extra)
         /\ item.kind = "spawn" /\ ~f.hooks => item.task = f.id

(* What a task has been given by the call below it. *)
Given(caller, f) ==
  f.kind = "task" =>
    /\ caller.kind = "query" => caller.stage = "plan" /\ f.ctx.extra = ExtraFor(caller, f.id)
    /\ caller.kind = "task" => caller.hooks /\ ~f.hooks /\ f.ctx.extra = <<>> /\ f.id # caller.id

Extras ==
  /\ \A i \in 1 .. Len(frames) : ExtrasSound(frames[i])
  /\ \A i \in 1 .. Len(frames) : i # 1 => Given(frames[i - 1], frames[i])

(* The name of a hook is the name of the script with "pre" or "post" before it. *)
HooksApart == \A when \in {"pre", "post"} : \A name : HookName(when, name) # name

LEMMA ExtrasStay ==
  ASSUME NEW f, UNCHANGED session
  PROVE  /\ ExtrasSound(f) => ExtrasSound(f)'
         /\ \A g : Given(f, g) => Given(f, g)'
BY DEF session, ExtrasSound, Reaches, LastPosition, ExtraFor, Given

(* Whatever frames are next, if each of them and each pair is sound now, they are
   sound then: nothing of the session changes. *)
LEMMA ExtrasCarried ==
  ASSUME UNCHANGED session,
         \A i \in 1 .. Len(frames') : ExtrasSound(frames'[i]),
         \A i \in 1 .. Len(frames') : i # 1 => Given(frames'[i - 1], frames'[i])
  PROVE  Extras'
<1>1. ASSUME NEW i \in 1 .. Len(frames') PROVE ExtrasSound(frames[i])'
  <2>1. PICK h : h = frames'[i]
    OBVIOUS
  <2>2. ExtrasSound(h)'
    BY <2>1, ExtrasStay
  <2> QED
    BY <2>1, <2>2 DEF ExtrasSound, Reaches, LastPosition, ExtraFor
<1>2. ASSUME NEW i \in 1 .. Len(frames'), i # 1 PROVE Given(frames'[i - 1], frames'[i])
  BY <1>2
<1>3. ASSUME NEW i \in 1 .. Len(frames'), i # 1 PROVE Given(frames[i - 1], frames[i])'
  BY <1>2, <1>3 DEF Given, ExtraFor
<1> QED
  BY <1>1, <1>3 DEF Extras

LEMMA BecomeExtras ==
  ASSUME StackShape, Extras, frames # <<>>, NEW f, Become(f), ExtrasSound(f), f.kind = Top.kind,
         f.kind = "task" => f.ctx = Top.ctx /\ f.id = Top.id /\ f.hooks = Top.hooks
  PROVE  Extras'
<1> PICK n : n = Len(frames)
  OBVIOUS
<1>1. /\ Len(frames') = n /\ n \in Nat \ {0} /\ frames'[n] = f
      /\ \A i \in 1 .. (n - 1) : frames'[i] = frames[i]
  BY Becoming DEF StackShape
<1>2. UNCHANGED session
  BY DEF Become
<1>3. ASSUME NEW i \in 1 .. n PROVE ExtrasSound(frames'[i])
  <2>1. i = n \/ i \in 1 .. (n - 1)
    BY <1>1
  <2> QED
    BY <1>1, <2>1 DEF Extras
<1>4. ASSUME NEW i \in 1 .. n, i # 1 PROVE Given(frames'[i - 1], frames'[i])
  <2>1. Given(frames[i - 1], frames[i]) /\ i - 1 \in 1 .. (n - 1) /\ (i = n \/ i \in 1 .. (n - 1))
    BY <1>1, <1>4 DEF Extras
  <2>2. CASE i = n
    <3>1. frames'[i - 1] = frames[i - 1] /\ frames'[i] = f /\ frames[i] = Top
      BY <1>1, <2>1, <2>2 DEF Top
    <3> QED
      BY <2>1, <3>1 DEF Given
  <2> QED
    BY <1>1, <2>1, <2>2
<1> QED
  BY <1>1, <1>2, <1>3, <1>4, ExtrasCarried

LEMMA CallExtras ==
  ASSUME StackShape, Extras, frames # <<>>, NEW f, NEW g, Call(f, g), ExtrasSound(f), ExtrasSound(g),
         Given(f, g), f.kind = Top.kind,
         f.kind = "task" => f.ctx = Top.ctx /\ f.id = Top.id /\ f.hooks = Top.hooks
  PROVE  Extras'
<1> PICK n : n = Len(frames)
  OBVIOUS
<1>1. /\ Len(frames') = n + 1 /\ n \in Nat \ {0} /\ frames'[n] = f /\ frames'[n + 1] = g
      /\ \A i \in 1 .. (n - 1) : frames'[i] = frames[i]
  BY Calling DEF StackShape
<1>2. UNCHANGED session
  BY DEF Call
<1>3. ASSUME NEW i \in 1 .. (n + 1) PROVE ExtrasSound(frames'[i])
  <2>1. i = n + 1 \/ i = n \/ i \in 1 .. (n - 1)
    BY <1>1
  <2> QED
    BY <1>1, <2>1 DEF Extras
<1>4. ASSUME NEW i \in 1 .. (n + 1), i # 1 PROVE Given(frames'[i - 1], frames'[i])
  <2>1. CASE i = n + 1
    BY <1>1, <2>1
  <2>2. CASE i = n
    <3>1. Given(frames[i - 1], frames[i]) /\ i - 1 \in 1 .. (n - 1)
      BY <1>1, <1>4, <2>2 DEF Extras
    <3>2. frames'[i - 1] = frames[i - 1] /\ frames'[i] = f /\ frames[i] = Top
      BY <1>1, <2>2, <3>1 DEF Top
    <3> QED
      BY <3>1, <3>2 DEF Given
  <2>3. CASE i \in 1 .. (n - 1)
    <3>1. Given(frames[i - 1], frames[i]) /\ i - 1 \in 1 .. (n - 1)
      BY <1>1, <1>4, <2>3 DEF Extras
    <3> QED
      BY <1>1, <2>3, <3>1
  <2> QED
    BY <1>1, <2>1, <2>2, <2>3
<1> QED
  BY <1>1, <1>2, <1>3, <1>4, ExtrasCarried

LEMMA ResumeExtras ==
  ASSUME StackShape, Extras, Len(frames) > 1, NEW f, Resume(f), ExtrasSound(f), f.kind = Caller.kind,
         f.kind = "task" => f.ctx = Caller.ctx /\ f.id = Caller.id /\ f.hooks = Caller.hooks
  PROVE  Extras'
<1> PICK n : n = Len(frames)
  OBVIOUS
<1>1. /\ Len(frames') = n - 1 /\ n \in Nat /\ frames'[n - 1] = f
      /\ \A i \in 1 .. (n - 2) : frames'[i] = frames[i]
  BY Resuming DEF StackShape
<1>2. UNCHANGED session
  BY DEF Resume
<1>3. ASSUME NEW i \in 1 .. (n - 1) PROVE ExtrasSound(frames'[i])
  <2>1. i = n - 1 \/ i \in 1 .. (n - 2)
    BY <1>1
  <2> QED
    BY <1>1, <2>1 DEF Extras
<1>4. ASSUME NEW i \in 1 .. (n - 1), i # 1 PROVE Given(frames'[i - 1], frames'[i])
  <2>0. i \in 1 .. n /\ i - 1 \in 1 .. (n - 2) /\ (i = n - 1 \/ i \in 1 .. (n - 2))
    BY <1>1, <1>4
  <2>1. Given(frames[i - 1], frames[i])
    BY <1>4, <2>0 DEF Extras
  <2>2. CASE i = n - 1
    <3>1. frames'[i - 1] = frames[i - 1] /\ frames'[i] = f /\ frames[i] = Caller
      BY <1>1, <2>0, <2>2 DEF Caller
    <3> QED
      BY <2>1, <3>1 DEF Given
  <2> QED
    BY <1>1, <2>0, <2>1, <2>2
<1> QED
  BY <1>1, <1>2, <1>3, <1>4, ExtrasCarried

(* What a step adds has the arguments it is to have. *)
LEMMA SpawnReaches ==
  ASSUME NEW item, ItemOfCommand(item)
  PROVE  Reaches(item, Top.id, Top.ctx.extra) /\ item.task = Top.id
<1>1. PICK ctx, cache, prefix, program, step, extra :
        /\ item = Spawn(Top, ctx, cache, prefix, program, <<Top.command, step>>, extra)
        /\ extra = ExtraAt(<<Top.command, step>>)
  BY DEF ItemOfCommand
<1>2. item.task = Top.id /\ item.position = <<Top.command, step>> /\ item.extra = extra
  BY <1>1 DEF Spawn
<1> QED
  BY <1>1, <1>2 DEF Reaches, ExtraAt

LEMMA ExtrasStep ==
  ASSUME HooksApart, StackShape, Extras, [Next]_vars
  PROVE  Extras'
<1>1. CASE Starts
  <2>1. PICK args, cwd : frames' = <<QueryCall(SessionContext, args, cwd)>> /\ UNCHANGED session
    BY <1>1 DEF Starts
  <2>2. PICK f : f = QueryCall(SessionContext, args, cwd)
    OBVIOUS
  <2>3. f.kind = "query" /\ f.stage = "open" /\ f.planned = <<>>
    BY <2>2, SessionFacts, QueryCallFacts
  <2>4. ExtrasSound(f)
    BY <2>3 DEF ExtrasSound
  <2>5. Len(frames') = 1 /\ frames'[1] = f
    BY <2>1, <2>2
  <2> QED
    BY <2>1, <2>4, <2>5, ExtrasCarried
<1>2. CASE Ends
  BY <1>2 DEF Ends, Extras
<1>3. CASE Waits
  <2>1. CASE UNCHANGED frames /\ UNCHANGED session
    BY <2>1, ExtrasCarried DEF Extras
  <2>2. CASE UNCHANGED frames /\ frames = <<>>
    BY <2>2 DEF Extras
  <2> QED
    BY <1>3, <2>1, <2>2 DEF Waits
<1>4. CASE frames # <<>> /\ Step
  <2> USE <1>4
  <2>1. FrameShape(Top) /\ CallerShape(Len(frames)) /\ Len(frames) \in Nat \ {0}
    BY TopShape
  <2>2. ExtrasSound(Top)
    BY <2>1 DEF Extras, Top
  <2>3. CASE QueryGoesOn
    <3>1. PICK f : Become(f) /\ Top.kind = "query" /\ SameQueryFrame(f) /\ PlansOn(f)
      BY <2>3 DEF QueryGoesOn
    <3>2. f.kind = "query" /\ f.planned = Top.planned /\ f.args = Top.args
      BY <3>1 DEF SameQueryFrame
    <3>3. CASE Top.stage \in {"plan", "wired"}
      <4>1. f.stage \in {"plan", "wired"} /\ f.tasks = Top.tasks
        BY <3>1, <3>3 DEF PlansOn
      <4> QED
        BY <2>2, <3>1, <3>2, <4>1, BecomeExtras DEF ExtrasSound, ExtraFor
    <3>4. CASE Top.stage \notin {"plan", "wired"}
      <4>1. f.planned = <<>>
        BY <2>2, <3>1, <3>2, <3>4 DEF ExtrasSound
      <4>2. ExtrasSound(f)
        BY <3>2, <4>1 DEF ExtrasSound
      <4> QED
        BY <3>1, <3>2, <4>2, BecomeExtras
    <3> QED
      BY <3>3, <3>4
  <2>4. CASE TaskMoves
    <3>1. PICK f : TaskGoesOn(f) /\ f.items = Top.items
      BY <2>4 DEF TaskMoves
    <3>2. ExtrasSound(f)
      BY <2>2, <3>1 DEF ExtrasSound, TaskGoesOn, SameTaskFrame
    <3> QED
      BY <3>1, <3>2, BecomeExtras DEF TaskGoesOn, SameTaskFrame
  <2>5. CASE TaskEmits
    <3>1. PICK f, item : /\ TaskGoesOn(f) /\ f.items = Append(Top.items, item)
                         /\ item.kind = "inProcess" \/ ItemOfCommand(item)
      BY <2>5 DEF TaskEmits
    <3>2. Reaches(item, Top.id, Top.ctx.extra) /\ (item.kind = "spawn" => item.task = Top.id)
      <4>1. CASE item.kind = "inProcess"
        BY <4>1 DEF Reaches
      <4>2. CASE ItemOfCommand(item)
        BY <4>2, SpawnReaches
      <4> QED
        BY <3>1, <4>1, <4>2
    <3>3. ToSet(f.items) = ToSet(Top.items) \cup {item}
      BY <2>1, <3>1, AppendList DEF FrameShape, TaskGoesOn
    <3>4. ExtrasSound(f)
      BY <2>2, <3>1, <3>2, <3>3 DEF ExtrasSound, TaskGoesOn, SameTaskFrame
    <3> QED
      BY <3>1, <3>4, BecomeExtras DEF TaskGoesOn, SameTaskFrame
  <2>6. ASSUME NEW f, SameCaller(f)
        PROVE  /\ ExtrasSound(f) /\ f.kind = Top.kind
               /\ f.kind = "task" => f.ctx = Top.ctx /\ f.id = Top.id /\ f.hooks = Top.hooks
    BY <2>2, <2>6 DEF SameCaller, SameTaskFrame, ExtrasSound
  <2>7. CASE CallsTask
    <3>1. PICK f, id, ctx, hooks :
            /\ Call(f, TaskCall(id, ctx, hooks)) /\ SameCaller(f) /\ Passed(id, ctx, hooks)
            /\ DOMAIN ctx = ContextFields /\ ctx.calls = Top.ctx.calls
      BY <2>7 DEF CallsTask
    <3>2. PICK g : g = TaskCall(id, ctx, hooks)
      OBVIOUS
    <3>3. g.kind = "task" /\ g.id = id /\ g.items = <<>> /\ g.ctx.extra = ctx.extra /\ g.hooks = hooks
      BY <2>1, <3>1, <3>2, TaskCallFacts DEF FrameShape, ContextShape
    <3>4. ExtrasSound(g)
      <4>1. ToSet(g.items) = {}
        BY <3>3 DEF ToSet
      <4> QED
        BY <3>3, <4>1 DEF ExtrasSound
    <3>5. Given(f, g)
      <4>1. CASE Top.kind = "query"
        <5>1. f = Top /\ Top.stage = "plan" /\ ctx.extra = ExtraFor(Top, id)
          BY <3>1, <4>1 DEF SameCaller, Passed, ExtraFor
        <5> QED
          BY <3>3, <4>1, <5>1 DEF Given
      <4>2. CASE Top.kind = "task"
        <5>1. /\ Top.hooks /\ ~hooks /\ ctx.extra = <<>>
              /\ \E when \in {"pre", "post"} : id = <<Top.id[1], HookName(when, Top.id[2])>>
          BY <3>1, <4>2 DEF Passed
        <5>2. id # Top.id
          BY <5>1 DEF HooksApart
        <5>3. f.id = Top.id /\ f.hooks = Top.hooks /\ f.kind = "task"
          BY <2>6, <3>1, <4>2
        <5> QED
          BY <3>3, <5>1, <5>2, <5>3 DEF Given
      <4> QED
        BY <2>1, <4>1, <4>2 DEF FrameShape
    <3>6. Call(f, g)
      BY <3>1, <3>2
    <3> QED
      BY <2>6, <3>1, <3>4, <3>5, <3>6, CallExtras
  <2>8. CASE CallsQuery
    <3>1. PICK f, args, cwd : /\ Call(f, QueryCall(StepContext, args, cwd)) /\ Top.kind = "task"
                              /\ SameTaskFrame(f) /\ f.items = Top.items
      BY <2>8 DEF CallsQuery
    <3>2. PICK g : g = QueryCall(StepContext, args, cwd)
      OBVIOUS
    <3>3. g.kind = "query" /\ g.stage = "open" /\ g.planned = <<>>
      BY <2>1, <3>2, StepContextShape, QueryCallFacts DEF FrameShape
    <3>4. ExtrasSound(g) /\ Given(f, g)
      BY <3>3 DEF ExtrasSound, Given
    <3>5. Call(f, g) /\ SameCaller(f)
      BY <3>1, <3>2 DEF SameCaller
    <3> QED
      BY <2>6, <3>4, <3>5, CallExtras
  <2>9. ASSUME Len(frames) > 1
        PROVE  FrameShape(Caller) /\ ExtrasSound(Caller) /\ Given(Caller, Top)
    BY <2>1, <2>9 DEF StackShape, Extras, Caller, Top
  <2>10. CASE TaskReturns
    <3>1. Len(frames) > 1 /\ Top.kind = "task"
      BY <2>1, <2>10, CallerOf DEF TaskReturns
    <3>2. \A item \in ToSet(Top.items) :
            Reaches(item, Top.id, Top.ctx.extra) /\ (item.kind = "spawn" /\ ~Top.hooks => item.task = Top.id)
      BY <2>2, <3>1 DEF ExtrasSound
    <3>3. CASE Caller.kind = "query"
      <4>1. PICK more : more = Over(Only(Top.id, Top.items), Caller.planned)
        OBVIOUS
      <4>2. PICK f : f = [Caller EXCEPT !.planned = more]
        OBVIOUS
      <4>3. Resume(f)
        BY <2>10, <3>3, <4>1, <4>2 DEF TaskReturns
      <4>4. /\ f.kind = "query" /\ f.args = Caller.args /\ f.stage = Caller.stage
            /\ f.tasks = Caller.tasks /\ f.planned = more
        BY <2>9, <3>1, <3>3, <4>2 DEF FrameShape, QueryFields
      <4>5. \A id \in DOMAIN more : \/ id = Top.id /\ more[id] = Top.items
                                    \/ id \in DOMAIN Caller.planned /\ more[id] = Caller.planned[id]
        BY <4>1 DEF Over, Only
      <4>6. Caller.stage = "plan" /\ Top.ctx.extra = ExtraFor(Caller, Top.id)
        BY <2>9, <3>1, <3>3 DEF Given
      <4>7. \A id : ExtraFor(f, id) = ExtraFor(Caller, id)
        BY <4>4 DEF ExtraFor
      <4>8. ASSUME NEW id \in DOMAIN more, NEW item \in ToSet(more[id])
            PROVE  Reaches(item, id, ExtraFor(f, id))
        <5>1. CASE id = Top.id /\ more[id] = Top.items
          BY <3>2, <4>6, <4>7, <4>8, <5>1
        <5>2. CASE id \in DOMAIN Caller.planned /\ more[id] = Caller.planned[id]
          BY <2>9, <3>1, <3>3, <4>7, <4>8, <5>2 DEF ExtrasSound
        <5> QED
          BY <4>5, <5>1, <5>2
      <4>9. ExtrasSound(f)
        BY <4>4, <4>6, <4>8 DEF ExtrasSound
      <4> QED
        BY <3>1, <3>3, <4>3, <4>4, <4>9, ResumeExtras
    <3>4. CASE Caller.kind # "query"
      <4>1. PICK joint : joint = Caller.items \o Top.items
        OBVIOUS
      <4>2. PICK f : f = [Caller EXCEPT !.items = joint]
        OBVIOUS
      <4>3. Resume(f)
        BY <2>10, <3>4, <4>1, <4>2 DEF TaskReturns
      <4>4. Caller.kind = "task"
        BY <2>9, <3>1, <3>4 DEF FrameShape
      <4>5. ToSet(joint) = ToSet(Caller.items) \cup ToSet(Top.items)
        BY <2>1, <2>9, <3>1, <4>1, <4>4, JoinLists DEF FrameShape
      <4>6. /\ f.kind = "task" /\ f.id = Caller.id /\ f.ctx = Caller.ctx /\ f.items = joint
            /\ f.hooks = Caller.hooks
        BY <2>9, <3>1, <4>2, <4>4 DEF FrameShape, TaskFields
      <4>7. Caller.hooks /\ ~Top.hooks /\ Top.ctx.extra = <<>> /\ Top.id # Caller.id
        BY <2>9, <3>1, <4>4 DEF Given
      <4>8. \A item \in ToSet(Top.items) : Reaches(item, Caller.id, Caller.ctx.extra)
        BY <3>2, <4>7 DEF Reaches
      <4>9. \A item \in ToSet(Caller.items) : Reaches(item, Caller.id, Caller.ctx.extra)
        BY <2>9, <3>1, <4>4 DEF ExtrasSound
      <4>10. ExtrasSound(f)
        BY <4>5, <4>6, <4>7, <4>8, <4>9 DEF ExtrasSound
      <4> QED
        BY <3>1, <4>3, <4>4, <4>6, <4>10, ResumeExtras
    <3> QED
      BY <3>3, <3>4
  <2>11. CASE QueryReturns
    <3>1. Len(frames) > 1 /\ Caller.kind = "task"
      BY <2>1, <2>11, CallerOf DEF QueryReturns
    <3>2. PICK item : item.kind = "expanded" /\ Resume([Caller EXCEPT !.items = Append(@, item)])
      BY <2>11 DEF QueryReturns
    <3>3. PICK more : more = Append(Caller.items, item)
      OBVIOUS
    <3>4. PICK f : f = [Caller EXCEPT !.items = more]
      OBVIOUS
    <3>5. Resume(f)
      BY <3>2, <3>3, <3>4
    <3>6. ToSet(more) = ToSet(Caller.items) \cup {item}
      BY <2>9, <3>1, <3>3, AppendList DEF FrameShape
    <3>7. /\ f.kind = "task" /\ f.id = Caller.id /\ f.ctx = Caller.ctx /\ f.items = more
          /\ f.hooks = Caller.hooks
      BY <2>9, <3>1, <3>4 DEF FrameShape, TaskFields
    <3>8. ExtrasSound(f)
      BY <2>9, <3>1, <3>2, <3>6, <3>7 DEF ExtrasSound, Reaches
    <3> QED
      BY <3>1, <3>5, <3>7, <3>8, ResumeExtras
  <2>12. CASE Starts \/ Ends \/ Waits
    BY <1>1, <1>2, <1>3, <2>12
  <2> QED
    BY <2>3, <2>4, <2>5, <2>7, <2>8, <2>10, <2>11, <2>12 DEF Step
<1> QED
  BY <1>1, <1>2, <1>3, <1>4, Steps

(* The extra arguments of a command line reach the last step of the tasks it asks
   for, and nothing else that it plans, in any workspace: no hook, no dependency,
   no earlier step (plan_task_as_execution_node, plan_query_request). *)
THEOREM ExtrasReach ==
  ASSUME HooksApart
  PROVE  Spec => []ExtraArgsReach
<1>1. Init => Extras
  BY EmptySeq DEF Init, Extras
<1>2. StackShape /\ Extras /\ [Next]_vars => Extras'
  BY ExtrasStep
<1>3. ASSUME StackShape, Extras PROVE ExtraArgsReach
  <2>1. DOMAIN frames = 1 .. Len(frames)
    BY <1>3, ListFacts DEF StackShape, IsList
  <2>2. ASSUME NEW i \in DOMAIN frames, frames[i].kind = "query",
               NEW id \in DOMAIN frames[i].planned, NEW item \in ToSet(frames[i].planned[id])
        PROVE  Reaches(item, id, ExtraFor(frames[i], id))
    BY <1>3, <2>1, <2>2 DEF Extras, ExtrasSound
  <2> QED
    BY <2>2 DEF ExtraArgsReach, Reaches, ExtraFor, LastPosition
<1> QED
  BY <1>1, <1>2, <1>3, PlanStack, PTL DEF Spec

-----------------------------------------------------------------------------
(* Finding the workspace and loading it agree.  What the session has found is a
   function of the world, and the walk up from the current directory asks the
   member globs about the same package the walk down them finds. *)

Loading ==
  /\ world \in Scenarios
  /\ workspace # None => workspace = FindWorkspaceRoot(world.disk, world.cwd)
  /\ graph # None =>
       workspace # None /\ graph = LoadPackageGraph(world.disk, workspace) /\ graph.error = None

LEMMA LoadingStep ==
  ASSUME StackShape, Loading, [Next]_vars
  PROVE  Loading'
<1>1. CASE UNCHANGED session
  BY <1>1 DEF session, Loading
<1>2. CASE FindWorkspace
  BY <1>2 DEF FindWorkspace, Fail, End, session, Loading, StackShape
<1>3. CASE LoadGraph
  BY <1>3 DEF LoadGraph, Fail, End, session, Loading
<1>4. UNCHANGED session \/ FindWorkspace \/ LoadGraph
  BY Steps DEF Step, Starts, Ends, Waits, QueryGoesOn, TaskMoves, TaskEmits, TaskGoesOn, CallsTask,
               CallsQuery, TaskReturns, QueryReturns, Become, Call, Resume
<1> QED
  BY <1>1, <1>2, <1>3, <1>4

LEMMA PrefixFacts ==
  ASSUME NEW S, NEW s \in Seq(S), NEW d \in Prefixes(s)
  PROVE  Len(d) \in Nat /\ Len(d) \in 0 .. Len(s) /\ d = SubSeq(s, 1, Len(d))
<1>1. PICK l \in 0 .. Len(s) : d = SubSeq(s, 1, l)
  BY DEF Prefixes
<1>2. Len(d) = l
  BY <1>1, SubSeqProperties
<1> QED
  BY <1>1, <1>2

(* Of the prefixes of a list there is one longest. *)
LEMMA LongestPrefix ==
  ASSUME NEW S, NEW s \in Seq(S), NEW T \in SUBSET Prefixes(s), T # {}
  PROVE  /\ Longest(T) \in T
         /\ \A e \in T : /\ Len(e) <= Len(Longest(T))
                         /\ Len(e) = Len(Longest(T)) => e = Longest(T)
<1> DEFINE L == {Len(e) + 1 : e \in T}
<1>1. \A e \in T : Len(e) \in 0 .. Len(s) /\ e = SubSeq(s, 1, Len(e))
  BY PrefixFacts
<1>2. Len(s) + 1 \in Nat /\ L \in SUBSET (1 .. (Len(s) + 1)) /\ L # {}
  BY <1>1
<1>3. PICK m \in L : \A k \in L : k <= m
  <2> HIDE DEF L
  <2> QED
    BY <1>2, Greatest
<1>4. PICK d \in T : m = Len(d) + 1
  BY <1>3
<1>5. ASSUME NEW e \in T PROVE Len(e) <= Len(d)
  <2>1. Len(e) + 1 <= Len(d) + 1
    BY <1>3, <1>4
  <2>2. Len(e) \in Nat /\ Len(d) \in Nat
    BY <1>1
  <2> QED
    BY <2>1, <2>2
<1>6. Longest(T) \in T /\ \A e \in T : Len(e) <= Len(Longest(T))
  BY <1>5 DEF Longest
<1> QED
  BY <1>1, <1>6

(* A member glob that matches is an inclusion that is walked. *)
LEMMA MatchWalked ==
  ASSUME NEW S, NEW globs \in Seq(S), NEW dir, Matches(globs, dir)
  PROVE  \E i \in DOMAIN globs : ~Negated(globs[i]) /\ dir \in globs[i].dirs
<1> PICK hits : hits = {i \in DOMAIN globs : dir \in globs[i].dirs}
  OBVIOUS
<1>1. /\ hits # {} /\ hits \in SUBSET (1 .. Len(globs)) /\ Len(globs) \in Nat
      /\ ~Negated(globs[CHOOSE i \in hits : \A j \in hits : j <= i])
  BY DEF Matches
<1>2. \E i \in hits : \A j \in hits : j <= i
  BY <1>1, Greatest
<1>3. PICK i : i = CHOOSE k \in hits : \A j \in hits : j <= k
  OBVIOUS
<1>4. i \in hits /\ ~Negated(globs[i])
  BY <1>1, <1>2, <1>3
<1> QED
  BY <1>4

(* The package the walk up asks about. *)
LEMMA NearestIsLongest ==
  ASSUME NEW w \in Scenarios, NEW dir \in Prefixes(w.cwd), PackagesUp(w.disk, w.cwd) # {},
         IsPrefix(dir, Longest(PackagesUp(w.disk, w.cwd))), dir # Longest(PackagesUp(w.disk, w.cwd))
  PROVE  NearestBelow(w.disk, w.cwd, dir) = Longest(PackagesUp(w.disk, w.cwd))
<1> DEFINE up == PackagesUp(w.disk, w.cwd)
           found == {d \in up : Len(d) > Len(dir)}
<1>1. w.cwd \in Seq(STRING)
  BY WorldAssumption DEF PlacesKnown
<1>2. up \in SUBSET Prefixes(w.cwd) /\ up # {}
  BY DEF PackagesUp
<1>3. PICK p : p = Longest(up)
  OBVIOUS
<1>4. p \in up /\ \A e \in up : Len(e) <= Len(p) /\ (Len(e) = Len(p) => e = p)
  <2> HIDE DEF up
  <2> QED
    BY <1>1, <1>2, <1>3, LongestPrefix
<1>5. /\ Len(p) \in Nat /\ p = SubSeq(w.cwd, 1, Len(p))
      /\ Len(dir) \in Nat /\ dir = SubSeq(w.cwd, 1, Len(dir))
  BY <1>1, <1>2, <1>4, PrefixFacts
<1>6. Len(dir) <= Len(p) /\ Len(dir) # Len(p)
  BY <1>3, <1>5 DEF IsPrefix
<1>7. p \in found /\ found \in SUBSET up
  <2> HIDE DEF up
  <2>1. \A m, n \in Nat : m <= n /\ m # n => n > m
    OBVIOUS
  <2>2. Len(p) > Len(dir)
    BY ONLY <1>5, <1>6, <2>1
  <2> QED
    BY <1>4, <2>2
<1>8. Longest(found) \in up /\ Len(p) <= Len(Longest(found))
  <2> HIDE DEF found, up
  <2>1. found \in SUBSET Prefixes(w.cwd) /\ found # {}
    BY <1>2, <1>7
  <2> QED
    BY <1>1, <1>7, <2>1, LongestPrefix
<1>9. Len(Longest(found)) <= Len(p) /\ Len(Longest(found)) \in Nat
  <2> HIDE DEF found, up
  <2> QED
    BY <1>1, <1>2, <1>4, <1>8, PrefixFacts
<1>10. Longest(found) = p
  BY <1>4, <1>5, <1>8, <1>9
<1> QED
  BY <1>3, <1>7, <1>10 DEF NearestBelow

LEMMA CwdLoaded ==
  ASSUME NEW w \in Scenarios, NEW found, found = FindWorkspaceRoot(w.disk, w.cwd),
         PackagesUp(w.disk, w.cwd) # {}, IsPrefix(found.path, Longest(PackagesUp(w.disk, w.cwd)))
  PROVE  Longest(PackagesUp(w.disk, w.cwd)) \in LoadedDirs(w.disk, found)
<1> DEFINE up == PackagesUp(w.disk, w.cwd)
           roots == {d \in Prefixes(w.cwd) : IsWorkspaceOf(w.disk, w.cwd, d)}
<1>1. PICK p : p = Longest(up)
  OBVIOUS
<1>2. w.cwd \in Seq(STRING) /\ Prefixes(w.cwd) \subseteq DOMAIN w.disk /\ None \notin Prefixes(w.cwd)
  BY WorldAssumption DEF PlacesKnown
<1>3. p \in up /\ p \in Prefixes(w.cwd) /\ w.disk[p].json # None
  <2>1. up \in SUBSET Prefixes(w.cwd) /\ up # {}
    BY DEF PackagesUp
  <2>2. p \in up
    <3> HIDE DEF up
    <3> QED
      BY <1>1, <1>2, <2>1, LongestPrefix
  <2> QED
    BY <2>1, <2>2 DEF PackagesUp
<1>4. CASE roots = {}
  <2>1. found = FindPackageRoot(w.disk, w.cwd)
    BY <1>4 DEF FindWorkspaceRoot
  <2>2. found.path = p
    BY <1>1, <1>3, <2>1 DEF FindPackageRoot
  <2> QED
    BY <1>1, <2>2 DEF LoadedDirs
<1>5. CASE roots # {}
  <2>1. PICK root : root = Longest(roots)
    OBVIOUS
  <2>2. root \in roots
    <3>1. roots \in SUBSET Prefixes(w.cwd)
      OBVIOUS
    <3> HIDE DEF roots
    <3> QED
      BY <1>2, <1>5, <2>1, <3>1, LongestPrefix
  <2>3. PICK globs : globs = MemberGlobs(w.disk[root])
    OBVIOUS
  <2>4. found.path = root /\ found.globs = globs
    BY <1>5, <2>1, <2>3 DEF FindWorkspaceRoot
  <2>5. globs # None /\ IncludesPackage(globs, root, NearestBelow(w.disk, w.cwd, root))
    BY <2>2, <2>3 DEF IsWorkspaceOf
  <2>6. CASE root = p
    BY <1>1, <2>4, <2>6 DEF LoadedDirs
  <2>7. CASE root # p
    <3>1. NearestBelow(w.disk, w.cwd, root) = p
      BY <1>1, <1>3, <2>2, <2>4, <2>7, NearestIsLongest
    <3>2. Includes(globs, Below(p, root))
      BY <1>2, <1>3, <2>5, <3>1 DEF IncludesPackage
    <3>3. ~InNodeModules(Below(p, root)) /\ Matches(globs, Below(p, root))
      BY <3>2 DEF Includes
    <3>4. globs \in Seq(ToSet(globs))
      BY <2>2, <2>3, <2>5, WorldAssumption DEF PlacesKnown
    <3>5. \E i \in DOMAIN globs : ~Negated(globs[i]) /\ Below(p, root) \in globs[i].dirs
      BY <3>3, <3>4, MatchWalked
    <3>6. p \in PackageDirs(w.disk, root, globs)
      BY <1>1, <1>2, <1>3, <2>4, <3>3, <3>5 DEF PackageDirs
    <3> QED
      BY <1>1, <2>4, <2>5, <3>6 DEF LoadedDirs
  <2> QED
    BY <2>6, <2>7
<1> QED
  BY <1>4, <1>5

LEMMA GraphFacts ==
  ASSUME NEW disk, NEW found, LoadPackageGraph(disk, found).error = None
  PROVE  /\ LoadPackageGraph(disk, found).root = found.path
         /\ LoadPackageGraph(disk, found).nodes = LoadedDirs(disk, found)
<1>1. "DuplicatedPackageName" # None
  BY WorldAssumption
<1> QED
  BY <1>1 DEF LoadPackageGraph, BuildGraph

(* The package around the current directory is one of those loaded, wherever the
   workspace is found and whatever its member globs select, exclude and exclude
   again (find_workspace_root, load_package_graph). *)
THEOREM CwdIsLoaded == Spec => []CwdPackageLoaded
<1>1. Init => Loading
  BY DEF Init, Loading
<1>2. StackShape /\ Loading /\ [Next]_vars => Loading'
  BY LoadingStep
<1>3. ASSUME Loading PROVE CwdPackageLoaded
  <2> SUFFICES ASSUME graph # None, PackagesUp(world.disk, world.cwd) # {},
                      IsPrefix(graph.root, Longest(PackagesUp(world.disk, world.cwd)))
               PROVE  Longest(PackagesUp(world.disk, world.cwd)) \in graph.nodes
    BY DEF CwdPackageLoaded
  <2>1. /\ world \in Scenarios /\ workspace = FindWorkspaceRoot(world.disk, world.cwd)
        /\ graph = LoadPackageGraph(world.disk, workspace) /\ graph.error = None
    BY <1>3 DEF Loading
  <2>2. graph.root = workspace.path /\ graph.nodes = LoadedDirs(world.disk, workspace)
    BY <2>1, GraphFacts
  <2> QED
    BY <2>1, <2>2, CwdLoaded
<1> QED
  BY <1>1, <1>2, <1>3, PlanStack, PTL DEF Spec

-----------------------------------------------------------------------------
(* The order of the tasks. *)

-----------------------------------------------------------------------------
(* What a search reaches: the least set that has the successors of its seeds and
   of itself.  The search goes in layers, as many as there are edges. *)

LayersOf(A, S, g, n) ==
  g = [i \in 0 .. n |-> IF i = 0 THEN Next1(A, S)
                        ELSE UNION {found \cup Next1(A, found) : found \in {g[i - 1]}}]

LEMMA LayersExist ==
  ASSUME NEW A, NEW S, NEW n \in Nat
  PROVE  \E g : LayersOf(A, S, g, n)
<1> DEFINE Lacks == {m \in Nat : ~\E g : LayersOf(A, S, g, m)}
<1> SUFFICES ASSUME Lacks # {} PROVE FALSE
  OBVIOUS
<1>1. PICK m \in Nat : (~\E g : LayersOf(A, S, g, m)) /\ \A k \in Nat : k < m => \E g : LayersOf(A, S, g, k)
  <2>1. PICK m \in Lacks : \A k \in Lacks : m <= k
    <3>1. Lacks \in SUBSET Nat
      OBVIOUS
    <3> HIDE DEF Lacks
    <3> QED
      BY <3>1, Least
  <2>2. ASSUME NEW k \in Nat, k < m PROVE \E g : LayersOf(A, S, g, k)
    <3>1. k \notin Lacks
      <4>1. m \in Nat
        OBVIOUS
      <4> HIDE DEF Lacks
      <4> QED
        BY <2>1, <2>2, <4>1
    <3> QED
      BY <3>1
  <2> QED
    BY <2>1, <2>2
<1>2. CASE m = 0
  <2> DEFINE g == [i \in 0 .. m |-> Next1(A, S)]
  <2>1. LayersOf(A, S, g, m)
    BY <1>2 DEF LayersOf
  <2> QED
    BY <1>1, <2>1
<1>3. CASE m # 0
  <2>1. PICK h : LayersOf(A, S, h, m - 1)
    BY <1>1, <1>3
  <2> DEFINE last == UNION {found \cup Next1(A, found) : found \in {h[m - 1]}}
             g == [i \in 0 .. m |-> IF i = m THEN last ELSE h[i]]
  <2>2. \A i \in 0 .. (m - 1) : h[i] = IF i = 0 THEN Next1(A, S)
                                         ELSE UNION {found \cup Next1(A, found) : found \in {h[i - 1]}}
    BY <2>1 DEF LayersOf
  <2>3. \A i \in 0 .. m : i # 0 => g[i - 1] = h[i - 1]
    BY <1>3
  <2>4. ASSUME NEW i \in 0 .. m
        PROVE  g[i] = IF i = 0 THEN Next1(A, S)
                      ELSE UNION {found \cup Next1(A, found) : found \in {g[i - 1]}}
    <3>1. CASE i = m
      <4>1. g[i] = last /\ i # 0
        BY <1>3, <3>1
      <4> QED
        BY <2>3, <3>1, <4>1
    <3>2. CASE i # m
      <4>1. i \in 0 .. (m - 1) /\ g[i] = h[i]
        BY <3>2
      <4> HIDE DEF g
      <4> QED
        BY <2>2, <2>3, <4>1
    <3> QED
      BY <3>1, <3>2
  <2>5. DOMAIN g = 0 .. m /\ g = [i \in 0 .. m |-> g[i]]
    OBVIOUS
  <2>6. LayersOf(A, S, g, m)
    <3> HIDE DEF g
    <3> QED
      BY <2>4, <2>5 DEF LayersOf
  <2> QED
    BY <1>1, <2>6
<1> QED
  BY <1>2, <1>3

Layered(A, S, g, n) ==
  /\ g[0] = Next1(A, S) /\ Reached(A, S) = g[n]
  /\ \A i \in 1 .. n : g[i] = g[i - 1] \cup Next1(A, g[i - 1])

LEMMA Layers ==
  ASSUME NEW A, NEW S, NEW n \in Nat, n = Cardinality(A)
  PROVE  \E g : Layered(A, S, g, n)
<1>3. PICK g : g = CHOOSE h : LayersOf(A, S, h, n)
  OBVIOUS
<1>4. LayersOf(A, S, g, n)
  BY <1>3, LayersExist
<1>5. \A i \in 0 .. n : g[i] = IF i = 0 THEN Next1(A, S)
                                ELSE UNION {found \cup Next1(A, found) : found \in {g[i - 1]}}
  BY <1>4 DEF LayersOf
<1>6. g[0] = Next1(A, S)
  <2>1. 0 \in 0 .. n
    OBVIOUS
  <2> QED
    BY <1>5, <2>1
<1>7. ASSUME NEW i \in 1 .. n PROVE g[i] = g[i - 1] \cup Next1(A, g[i - 1])
  <2>1. i \in 0 .. n /\ i # 0
    OBVIOUS
  <2>2. PICK h : h = g[i - 1]
    OBVIOUS
  <2>3. g[i] = UNION {found \cup Next1(A, found) : found \in {h}}
    BY <1>5, <2>1, <2>2
  <2> QED
    BY <2>2, <2>3
<1>8. Reached(A, S) = g[n]
  BY <1>3 DEF Reached, LayersOf
<1> QED
  BY <1>6, <1>7, <1>8 DEF Layered

Closed(A, T) == Next1(A, T) \subseteq T

LEMMA ReachedLeast ==
  ASSUME NEW A, IsFiniteSet(A), NEW S, NEW T, Next1(A, S) \subseteq T, Closed(A, T)
  PROVE  Reached(A, S) \subseteq T
<1>1. Cardinality(A) \in Nat
  BY FS_CardinalityType
<1>2. PICK n \in Nat : n = Cardinality(A)
  BY <1>1
<1> PICK g : Layered(A, S, g, n)
  BY <1>2, Layers
<1>3. /\ g[0] = Next1(A, S) /\ Reached(A, S) = g[n]
      /\ \A i \in 1 .. n : g[i] = g[i - 1] \cup Next1(A, g[i - 1])
  BY DEF Layered
<1> DEFINE Out == {i \in 0 .. n : ~(g[i] \subseteq T)}
<1>4. Out = {}
  <2> SUFFICES ASSUME Out # {} PROVE FALSE
    OBVIOUS
  <2>1. PICK m \in Out : \A k \in Out : m <= k
    <3>1. Out \in SUBSET Nat
      OBVIOUS
    <3> HIDE DEF Out
    <3> QED
      BY <3>1, Least
  <2>2. m # 0
    BY <1>3, <2>1
  <2>3. m - 1 \in 0 .. n /\ m \in 1 .. n /\ ~(m <= m - 1) /\ ~(g[m] \subseteq T)
    BY <2>1, <2>2
  <2>4. g[m - 1] \subseteq T
    BY <2>1, <2>3
  <2>5. g[m] = g[m - 1] \cup Next1(A, g[m - 1])
    BY <1>3, <2>3
  <2> QED
    BY <2>3, <2>4, <2>5 DEF Closed, Next1
<1>5. n \in 0 .. n
  OBVIOUS
<1> QED
  BY <1>3, <1>4, <1>5

(* Each layer has something new, until one has not and is the last; there are no
   more ends of edges than there are edges. *)
LEMMA ReachedClosed ==
  ASSUME NEW A, IsFiniteSet(A), NEW S
  PROVE  Next1(A, S) \subseteq Reached(A, S) /\ Closed(A, Reached(A, S))
<1>1. Cardinality(A) \in Nat
  BY FS_CardinalityType
<1>2. PICK n \in Nat : n = Cardinality(A)
  BY <1>1
<1> PICK g : Layered(A, S, g, n)
  BY <1>2, Layers
<1>3. /\ g[0] = Next1(A, S) /\ Reached(A, S) = g[n]
      /\ \A i \in 1 .. n : g[i] = g[i - 1] \cup Next1(A, g[i - 1])
  BY DEF Layered
<1> DEFINE ends == {a[2] : a \in A}
<1>4. IsFiniteSet(ends) /\ Cardinality(ends) <= n /\ Cardinality(ends) \in Nat
  <2> DEFINE f == [a \in A |-> a[2]]
  <2>1. f \in Surjection(A, ends)
    BY DEF Surjection
  <2> HIDE DEF f, ends
  <2> QED
    BY <1>2, <2>1, FS_Surjection, FS_CardinalityType
<1>5. \A T : Next1(A, T) \subseteq ends
  BY DEF Next1
<1>6. Next1(A, S) \subseteq Reached(A, S) /\ \A i \in 0 .. n : g[i] \subseteq ends /\ Next1(A, S) \subseteq g[i]
  <2> DEFINE Wrong == {i \in 0 .. n : ~(g[i] \subseteq ends /\ Next1(A, S) \subseteq g[i])}
  <2>1. Wrong = {}
    <3> SUFFICES ASSUME Wrong # {} PROVE FALSE
      OBVIOUS
    <3>1. PICK m \in Wrong : \A k \in Wrong : m <= k
      <4>1. Wrong \in SUBSET Nat
        OBVIOUS
      <4> HIDE DEF Wrong
      <4> QED
        BY <4>1, Least
    <3>2. m # 0
      BY <1>3, <1>5, <3>1
    <3>3. m - 1 \in 0 .. n /\ m \in 1 .. n /\ ~(m <= m - 1)
          /\ ~(g[m] \subseteq ends /\ Next1(A, S) \subseteq g[m])
      BY <3>1, <3>2
    <3>4. g[m - 1] \subseteq ends /\ Next1(A, S) \subseteq g[m - 1]
      BY <3>1, <3>3
    <3>5. g[m] = g[m - 1] \cup Next1(A, g[m - 1])
      BY <1>3, <3>3
    <3> HIDE DEF ends
    <3> QED
      BY <1>5, <3>3, <3>4, <3>5
  <2>2. n \in 0 .. n
    OBVIOUS
  <2> QED
    BY <1>3, <2>1, <2>2
<1> HIDE DEF ends
<1>7. \A i \in 0 .. n : IsFiniteSet(g[i]) /\ Cardinality(g[i]) \in Nat /\ Cardinality(g[i]) <= n
  <2> TAKE i \in 0 .. n
  <2>1. IsFiniteSet(g[i]) /\ Cardinality(g[i]) <= Cardinality(ends)
    BY <1>4, <1>6, FS_Subset
  <2> QED
    BY <1>4, <2>1, FS_CardinalityType
(* Once a layer adds nothing, none does. *)
<1>8. ASSUME NEW i \in 0 .. n, Closed(A, g[i]) PROVE Closed(A, g[n])
  <2> DEFINE Open == {k \in 0 .. n : i <= k /\ g[k] # g[i]}
  <2>1. Open = {}
    <3> SUFFICES ASSUME Open # {} PROVE FALSE
      OBVIOUS
    <3>1. PICK m \in Open : \A k \in Open : m <= k
      <4>1. Open \in SUBSET Nat
        OBVIOUS
      <4> HIDE DEF Open
      <4> QED
        BY <4>1, Least
    <3>2. m # i /\ m \in 0 .. n /\ i <= m /\ g[m] # g[i]
      BY <3>1
    <3>3. m - 1 \in 0 .. n /\ m \in 1 .. n /\ ~(m <= m - 1) /\ i <= m - 1
      BY <3>2
    <3>4. g[m - 1] = g[i]
      BY <3>1, <3>3
    <3>5. g[m] = g[m - 1] \cup Next1(A, g[m - 1])
      BY <1>3, <3>3
    <3> QED
      BY <1>8, <3>2, <3>4, <3>5 DEF Closed
  <2>2. n \in 0 .. n /\ i <= n
    OBVIOUS
  <2>3. g[n] = g[i]
    BY <2>1, <2>2
  <2> QED
    BY <1>8, <2>3
(* Until then each has one more than the last. *)
<1>9. ASSUME ~Closed(A, g[n]) PROVE FALSE
  <2> DEFINE Few == {k \in 0 .. n : ~(k + 1 <= Cardinality(g[k]))}
  <2>1. Few = {}
    <3> SUFFICES ASSUME Few # {} PROVE FALSE
      OBVIOUS
    <3>1. PICK m \in Few : \A k \in Few : m <= k
      <4>1. Few \in SUBSET Nat
        OBVIOUS
      <4> HIDE DEF Few
      <4> QED
        BY <4>1, Least
    <3>2. m \in 0 .. n /\ ~(m + 1 <= Cardinality(g[m]))
      BY <3>1
    <3>3. CASE m = 0
      <4>1. g[0] = {}
        <5>1. 0 \in 0 .. n /\ Cardinality(g[0]) = 0 /\ IsFiniteSet(g[0])
          BY <1>7, <3>2, <3>3
        <5> QED
          BY <5>1, FS_EmptySet
      <4>2. Closed(A, g[0]) /\ 0 \in 0 .. n
        BY <4>1 DEF Closed, Next1
      <4> QED
        BY <1>8, <1>9, <4>2
    <3>4. CASE m # 0
      <4>1. m - 1 \in 0 .. n /\ m \in 1 .. n /\ ~(m <= m - 1)
        BY <3>2, <3>4
      <4>2. m <= Cardinality(g[m - 1])
        <5>1. m - 1 \notin Few
          <6> HIDE DEF Few
          <6> QED
            BY <3>1, <4>1
        <5>2. (m - 1) + 1 <= Cardinality(g[m - 1])
          BY <4>1, <5>1
        <5> QED
          BY <4>1, <5>2
      <4>3. g[m] = g[m - 1] \cup Next1(A, g[m - 1])
        BY <1>3, <4>1
      <4>4. ~Closed(A, g[m - 1])
        BY <1>8, <1>9, <4>1
      <4>5. g[m - 1] \subseteq g[m] /\ g[m] # g[m - 1]
        BY <4>3, <4>4 DEF Closed
      <4>6. Cardinality(g[m - 1]) <= Cardinality(g[m]) /\ Cardinality(g[m - 1]) # Cardinality(g[m])
        BY <1>7, <3>2, <4>5, FS_Subset
      <4>7. Cardinality(g[m - 1]) \in Nat /\ Cardinality(g[m]) \in Nat
        BY <1>7, <3>2, <4>1
      <4> QED
        BY <3>2, <4>2, <4>6, <4>7
    <3> QED
      BY <3>3, <3>4
  <2>2. n \in 0 .. n
    OBVIOUS
  <2>3. n + 1 <= Cardinality(g[n])
    BY <2>1, <2>2
  <2>4. Cardinality(g[n]) <= n /\ Cardinality(g[n]) \in Nat
    BY <1>7, <2>2
  <2> QED
    BY <2>3, <2>4
<1> QED
  BY <1>3, <1>6, <1>9

(* What is reached from x through via: the least set that has the successors of x
   and of those of its elements that are in via. *)
LEMMA PassingFacts ==
  ASSUME NEW A, IsFiniteSet(A), NEW x, NEW via
  PROVE  /\ Next1(A, {x}) \subseteq Passing(A, x, via)
         /\ \A z \in Passing(A, x, via) \cap via : Next1(A, {z}) \subseteq Passing(A, x, via)
         /\ \A T : /\ Next1(A, {x}) \subseteq T
                   /\ \A z \in T \cap via : Next1(A, {z}) \subseteq T
                   => Passing(A, x, via) \subseteq T
<1> DEFINE B == {a \in A : a[1] \in via}
           first == Next1(A, {x})
           P == Passing(A, x, via)
<1>1. IsFiniteSet(B)
  BY FS_Subset
<1>2. P = first \cup Reached(B, first)
  BY DEF Passing
<1>3. \A z \in via : Next1(A, {z}) = Next1(B, {z})
  BY DEF Next1
<1>4. \A T, y : y \in Next1(B, T) <=> \E z \in T \cap via : y \in Next1(A, {z})
  BY DEF Next1
<1> HIDE DEF B, first, P
<1>5. Next1(B, first) \subseteq Reached(B, first) /\ Next1(B, Reached(B, first)) \subseteq Reached(B, first)
  BY <1>1, ReachedClosed DEF Closed
<1>6. ASSUME NEW z \in P \cap via PROVE Next1(A, {z}) \subseteq P
  BY <1>2, <1>4, <1>5, <1>6
<1>7. ASSUME NEW T, first \subseteq T, \A z \in T \cap via : Next1(A, {z}) \subseteq T
      PROVE  P \subseteq T
  <2>1. Next1(B, T) \subseteq T
    BY <1>4, <1>7
  <2>2. Next1(B, first) \subseteq T
    BY <1>4, <1>7
  <2>3. Reached(B, first) \subseteq T
    BY <1>1, <2>1, <2>2, ReachedLeast DEF Closed
  <2> QED
    BY <1>2, <1>7, <2>3
<1> QED
  BY <1>2, <1>6, <1>7 DEF first, P

LEMMA PassingNothing ==
  ASSUME NEW A, IsFiniteSet(A), NEW x
  PROVE  Passing(A, x, {}) = Next1(A, {x})
<1>1. Passing(A, x, {}) \subseteq Next1(A, {x}) /\ Next1(A, {x}) \subseteq Passing(A, x, {})
  BY PassingFacts
<1> QED
  BY <1>1

(* Whatever is reached through one more is reached without it, or past it. *)
LEMMA PassingOne ==
  ASSUME NEW A, IsFiniteSet(A), NEW x, NEW via, NEW d
  PROVE  Passing(A, x, via \cup {d}) =
           Passing(A, x, via) \cup IF d \in Passing(A, x, via) THEN Passing(A, d, via) ELSE {}
<1> DEFINE P == Passing(A, x, via)
           Q == Passing(A, d, via)
           R == Passing(A, x, via \cup {d})
<1>1. /\ Next1(A, {x}) \subseteq P /\ \A z \in P \cap via : Next1(A, {z}) \subseteq P
      /\ \A T : Next1(A, {x}) \subseteq T /\ (\A z \in T \cap via : Next1(A, {z}) \subseteq T) => P \subseteq T
  BY PassingFacts
<1>2. /\ Next1(A, {d}) \subseteq Q /\ \A z \in Q \cap via : Next1(A, {z}) \subseteq Q
      /\ \A T : Next1(A, {d}) \subseteq T /\ (\A z \in T \cap via : Next1(A, {z}) \subseteq T) => Q \subseteq T
  BY PassingFacts
<1>3. /\ Next1(A, {x}) \subseteq R /\ \A z \in R \cap (via \cup {d}) : Next1(A, {z}) \subseteq R
      /\ \A T : Next1(A, {x}) \subseteq T /\ (\A z \in T \cap (via \cup {d}) : Next1(A, {z}) \subseteq T) => R \subseteq T
  BY PassingFacts
<1> HIDE DEF P, Q, R
<1>4. P \subseteq R
  BY <1>1, <1>3
<1>5. CASE d \notin P
  <2>1. R \subseteq P
    BY <1>1, <1>3, <1>5
  <2> QED
    BY <1>4, <1>5, <2>1 DEF P, Q, R
<1>6. CASE d \in P
  <2>1. Q \subseteq R
    BY <1>2, <1>3, <1>4, <1>6
  <2>2. \A z \in (P \cup Q) \cap (via \cup {d}) : Next1(A, {z}) \subseteq P \cup Q
    BY <1>1, <1>2
  <2>3. R \subseteq P \cup Q
    BY <1>1, <1>3, <2>2
  <2>4. R = P \cup Q
    BY <1>4, <2>1, <2>3
  <2> QED
    BY <1>6, <2>4 DEF P, Q, R
<1> QED
  BY <1>5, <1>6

(* The packages that are left, in the order the ones taken out give them. *)
Bridged(A, all, live) ==
  /\ live.nodes \subseteq all
  /\ live.arrows \subseteq live.nodes \X live.nodes
  /\ \A x, y \in live.nodes :
       <<x, y>> \in live.arrows <=> y \in Passing(A, x, all \ live.nodes)

LEMMA BridgeBegins ==
  ASSUME NEW A, IsFiniteSet(A), NEW all, A \subseteq all \X all, NEW live,
         live.nodes = all, live.arrows = A
  PROVE  Bridged(A, all, live)
<1>1. \A x : Passing(A, x, {}) = Next1(A, {x})
  BY PassingNothing
<1>2. \A x, y \in all : <<x, y>> \in A <=> y \in Next1(A, {x})
  BY DEF Next1
<1>4. all \ all = {}
  OBVIOUS
<1>5. all \ live.nodes = {} /\ live.nodes \subseteq all /\ live.arrows \subseteq live.nodes \X live.nodes
  OBVIOUS
<1>6. \A x, y \in live.nodes : <<x, y>> \in live.arrows <=> y \in Passing(A, x, {})
  BY <1>1, <1>2
<1>7. \A x, y \in live.nodes : <<x, y>> \in live.arrows <=> y \in Passing(A, x, all \ live.nodes)
  <2>1. PICK gone : gone = all \ live.nodes /\ gone = {}
    BY <1>5
  <2> QED
    BY <1>6, <2>1
<1> QED
  BY <1>5, <1>7 DEF Bridged

LEMMA BridgeStep ==
  ASSUME NEW A, IsFiniteSet(A), NEW all, NEW live, Bridged(A, all, live), NEW d \in live.nodes
  PROVE  Bridged(A, all, Without(live, d)) /\ Without(live, d).nodes = live.nodes \ {d}
<1> DEFINE N == live.nodes
           M == live.nodes \ {d}
           via == all \ N
           next == Without(live, d)
           preds == {a[1] : a \in {b \in live.arrows : b[2] = d}}
           succs == {a[2] : a \in {b \in live.arrows : b[1] = d}}
<1>1. /\ live.arrows \subseteq N \X N
      /\ \A x, y \in N : <<x, y>> \in live.arrows <=> y \in Passing(A, x, via)
  BY DEF Bridged
<1>2. next.nodes = M /\ next.arrows = {a \in live.arrows \cup (preds \X succs) : d \notin {a[1], a[2]}}
  BY DEF Without
<1>3. preds \subseteq N /\ \A x \in N : x \in preds <=> d \in Passing(A, x, via)
  <2>1. \A x : x \in preds <=> <<x, d>> \in live.arrows
    BY <1>1
  <2> QED
    BY <1>1, <2>1
<1>4. succs \subseteq N /\ \A y \in N : y \in succs <=> y \in Passing(A, d, via)
  <2>1. \A y : y \in succs <=> <<d, y>> \in live.arrows
    BY <1>1
  <2> QED
    BY <1>1, <2>1
<1>5. all \ M = via \cup {d}
  BY DEF Bridged
<1> HIDE DEF N, M, via, preds, succs, next
<1>6. ASSUME NEW x \in M, NEW y \in M
      PROVE  <<x, y>> \in next.arrows <=> y \in Passing(A, x, all \ M)
  <2>1. x \in N /\ y \in N /\ x # d /\ y # d
    BY DEF M, N
  <2>2. <<x, y>> \in next.arrows <=> <<x, y>> \in live.arrows \/ (x \in preds /\ y \in succs)
    BY <1>2, <2>1
  <2>3. y \in Passing(A, x, all \ M) <=> y \in Passing(A, x, via) \/ (d \in Passing(A, x, via) /\ y \in Passing(A, d, via))
    BY <1>5, PassingOne
  <2> QED
    BY <1>1, <1>3, <1>4, <2>1, <2>2, <2>3
<1>7. next.arrows \subseteq M \X M
  <2>1. live.arrows \cup (preds \X succs) \subseteq N \X N
    BY <1>1, <1>3, <1>4
  <2> QED
    BY <1>2, <2>1 DEF M, N
<1>9. M \subseteq all
  BY DEF Bridged, M
<1> QED
  BY <1>2, <1>6, <1>7, <1>9 DEF Bridged, next, M

-----------------------------------------------------------------------------
(* What has been loaded is finite and closed: a query chooses among its packages,
   and `dependsOn` names tasks it has. *)

TaskIds(g, disk) ==
  {id \in g.nodes \X UNION {DOMAIN TasksOf(g, disk, d) : d \in g.nodes} : HasTask(g, disk, id)}

GraphShape(g, disk) ==
  /\ IsFiniteSet(g.nodes) /\ g.root \in g.nodes
  /\ \A x \in g.edges : x[1] \in g.nodes /\ x[2] \in g.nodes
  /\ IsFiniteSet(TaskIds(g, disk)) /\ None \notin TaskIds(g, disk)

LEMMA LoadedShape ==
  ASSUME Loading, graph # None
  PROVE  GraphShape(graph, world.disk)
<1> PICK w \in Scenarios : w = world
  BY DEF Loading
<1> PICK dirs : dirs = LoadedDirs(w.disk, workspace)
  OBVIOUS
<1>1. PlacesKnown(w)
  BY WorldAssumption
<1>2. graph = BuildGraph(w.disk, workspace.path, dirs) /\ graph.error = None
  BY DEF Loading, LoadPackageGraph
<1>3. /\ graph.root = workspace.path /\ graph.nodes = dirs
      /\ graph.package = [d \in dirs |-> PackageAt(w.disk, d)]
      /\ \A x \in graph.edges : x[1] \in dirs /\ x[2] \in dirs
  <2>1. "DuplicatedPackageName" # None
    BY WorldAssumption
  <2> DEFINE Named(name) == {d \in dirs : PackageAt(w.disk, d).name = name}
             Asked(d) == {x \in WorkspaceDependencies(PackageAt(w.disk, d)) : x.name # <<>>}
             edges == UNION {UNION {{<<d, e, x.type>> : e \in Named(x.name) \ {d}} : x \in Asked(d)} : d \in dirs}
  <2>2. graph = [error |-> None, root |-> workspace.path, nodes |-> dirs,
                 package |-> [d \in dirs |-> PackageAt(w.disk, d)], edges |-> edges]
    BY <1>2, <2>1, Zenon DEF BuildGraph
  <2>3. \A d : Named(d) \subseteq dirs
    OBVIOUS
  <2> HIDE DEF Named, Asked
  <2>4. \A x \in edges : x[1] \in dirs /\ x[2] \in dirs
    BY <2>3
  <2> HIDE DEF edges
  <2> QED
    BY <2>2, <2>4
<1>4. workspace.path \in dirs /\ dirs \subseteq DOMAIN w.disk
  <2>1. workspace.path \in Prefixes(w.cwd)
    <3>1. workspace = FindWorkspaceRoot(w.disk, w.cwd) /\ workspace # None
      BY DEF Loading
    <3> DEFINE roots == {d \in Prefixes(w.cwd) : IsWorkspaceOf(w.disk, w.cwd, d)}
               up == PackagesUp(w.disk, w.cwd)
    <3>2. w.cwd \in Seq(STRING)
      BY <1>1 DEF PlacesKnown
    <3>3. CASE roots = {}
      <4>1. up # {} /\ workspace.path = Longest(up)
        BY <3>1, <3>3 DEF FindWorkspaceRoot, FindPackageRoot
      <4>2. up \in SUBSET Prefixes(w.cwd)
        BY DEF PackagesUp
      <4> HIDE DEF up
      <4> QED
        BY <3>2, <4>1, <4>2, LongestPrefix
    <3>4. CASE roots # {}
      <4>1. workspace.path = Longest(roots)
        BY <3>1, <3>4 DEF FindWorkspaceRoot
      <4>2. roots \in SUBSET Prefixes(w.cwd)
        OBVIOUS
      <4> HIDE DEF roots
      <4> QED
        BY <3>2, <3>4, <4>1, <4>2, LongestPrefix
    <3> QED
      BY <3>3, <3>4
  <2> QED
    BY <1>1, <2>1 DEF LoadedDirs, PackageDirs, PlacesKnown
<1>5. IsFiniteSet(dirs)
  BY <1>1, <1>4, FS_Subset DEF PlacesKnown
<1>6. ASSUME NEW d \in dirs
      PROVE  IsFiniteSet(DOMAIN TasksOf(graph, w.disk, d)) /\ None \notin {d} \X DOMAIN TasksOf(graph, w.disk, d)
  <2>1. DOMAIN TasksOf(graph, w.disk, d) = DOMAIN ConfigOf(w.disk, d).tasks \cup DOMAIN PackageAt(w.disk, d).scripts
    BY <1>3 DEF TasksOf, ScriptsOf
  <2> QED
    BY <1>1, <1>4, <2>1 DEF PlacesKnown
<1>7. IsFiniteSet(TaskIds(graph, w.disk)) /\ None \notin TaskIds(graph, w.disk)
  <2> DEFINE sets == {DOMAIN TasksOf(graph, w.disk, d) : d \in dirs}
             f == [d \in dirs |-> DOMAIN TasksOf(graph, w.disk, d)]
  <2>1. f \in Surjection(dirs, sets)
    BY DEF Surjection
  <2>2. \A T \in sets : IsFiniteSet(T)
    BY <1>6
  <2>3. TaskIds(graph, w.disk) \subseteq dirs \X UNION sets
    BY <1>3 DEF TaskIds
  <2> HIDE DEF sets, f
  <2>4. IsFiniteSet(UNION sets)
    BY <1>5, <2>1, <2>2, FS_Surjection, FS_UNION
  <2>5. IsFiniteSet(dirs \X UNION sets)
    BY <1>5, <2>4, FS_Product
  <2>6. IsFiniteSet(TaskIds(graph, w.disk))
    BY <2>3, <2>5, FS_Subset
  <2>7. ASSUME NEW id \in TaskIds(graph, w.disk) PROVE id # None
    <3>1. id[1] \in dirs /\ id = <<id[1], id[2]>> /\ id[2] \in DOMAIN TasksOf(graph, w.disk, id[1])
      BY <1>3 DEF TaskIds, HasTask
    <3>2. None \notin {id[1]} \X DOMAIN TasksOf(graph, w.disk, id[1])
      BY <1>6, <3>1
    <3> QED
      BY <3>1, <3>2
  <2> QED
    BY <2>6, <2>7
<1> QED
  BY <1>3, <1>4, <1>5, <1>7 DEF GraphShape

LEMMA ArrowsInGraph ==
  ASSUME NEW g, NEW disk, GraphShape(g, disk)
  PROVE  Arrows(g) \subseteq g.nodes \X g.nodes /\ IsFiniteSet(Arrows(g))
<1>1. Arrows(g) \subseteq g.nodes \X g.nodes
  BY DEF Arrows, GraphShape
<1>2. IsFiniteSet(g.nodes \X g.nodes)
  BY FS_Product DEF GraphShape
<1> QED
  BY <1>1, <1>2, FS_Subset

LEMMA QueryInGraph ==
  ASSUME NEW g, NEW disk, GraphShape(g, disk), NEW packages
  PROVE  ResolveQuery(g, packages) \subseteq g.nodes
<1>1. Arrows(g) \subseteq g.nodes \X g.nodes /\ IsFiniteSet(Arrows(g))
  BY ArrowsInGraph
<1>2. \A selector : Selected(g, selector) \subseteq g.nodes
  BY DEF Selected, PackageFromCwd, GraphShape
<1>3. Reversed(Arrows(g)) \subseteq g.nodes \X g.nodes /\ IsFiniteSet(Reversed(Arrows(g)))
  <2>1. Reversed(Arrows(g)) \subseteq g.nodes \X g.nodes
    BY <1>1 DEF Reversed
  <2>2. IsFiniteSet(g.nodes \X g.nodes)
    BY FS_Product DEF GraphShape
  <2> QED
    BY <2>1, <2>2, FS_Subset
<1>4. ASSUME NEW A, A \subseteq g.nodes \X g.nodes, IsFiniteSet(A), NEW seeds
      PROVE  Reached(A, seeds) \subseteq g.nodes
  <2>1. \A S : Next1(A, S) \subseteq g.nodes
    BY <1>4 DEF Next1
  <2> QED
    BY <1>4, <2>1, ReachedLeast DEF Closed
<1>5. ASSUME NEW seeds, seeds \subseteq g.nodes, NEW traversal
      PROVE  ExpandTraversal(g, seeds, traversal) \subseteq g.nodes
  <2>1. \A S : Reached(Arrows(g), S) \subseteq g.nodes /\ Reached(Reversed(Arrows(g)), S) \subseteq g.nodes
    BY <1>1, <1>3, <1>4
  <2> QED
    BY <1>5, <2>1 DEF ExpandTraversal
<1>6. \A filter : Expanded(g, filter) \subseteq g.nodes
  BY <1>2, <1>5 DEF Expanded
<1> QED
  BY <1>6 DEF ResolveQuery, ResolveFilters

LEMMA DependenciesInGraph ==
  ASSUME NEW g, NEW disk, GraphShape(g, disk), NEW id, id[1] \in g.nodes
  PROVE  Dependencies(g, disk, id) \subseteq TaskIds(g, disk)
<1>1. \A entry : EntryPackages(g, entry, id[1]) \subseteq g.nodes
  BY DEF EntryPackages, SpecifierPackages, IndicesByName, DependencyPackages, GraphShape
<1>2. ASSUME NEW e \in Dependencies(g, disk, id) PROVE e \in TaskIds(g, disk)
  <2>1. PICK entry, d : e = <<d, entry.task>> /\ d \in EntryPackages(g, entry, id[1]) /\ HasTask(g, disk, e)
    BY <1>2 DEF Dependencies
  <2>2. e[1] = d /\ e[2] = entry.task /\ d \in g.nodes /\ e[2] \in DOMAIN TasksOf(g, disk, d)
    BY <1>1, <2>1 DEF HasTask
  <2> QED
    BY <2>1, <2>2 DEF TaskIds
<1> QED
  BY <1>2

-----------------------------------------------------------------------------
(* The tasks a query wants and what they depend on, and how it finds them. *)

Selection(g, q) == ResolveQuery(g, q.packages)

Having(g, disk, q) == {d \in Selection(g, q) : HasTask(g, disk, <<d, q.task>>)}

AskedIds(g, disk, q) == Having(g, disk, q) \X {q.task}

PackageDeps(g, disk, q, id) ==
  {e \in AskedIds(g, disk, q) :
     e[1] \in Passing(Induced(g, Selection(g, q)).arrows, id[1], Selection(g, q) \ Having(g, disk, q))}

Explicit(g, disk, q) ==
  IF q.explicit THEN UNION {{<<i, e>> : e \in Dependencies(g, disk, i)} : i \in TaskIds(g, disk)} ELSE {}

WantedIds(g, disk, q) ==
  AskedIds(g, disk, q) \cup Reached(Explicit(g, disk, q), AskedIds(g, disk, q))

(* The dependencies of a task, before and after its `dependsOn` is followed. *)
DepsOf(g, disk, q, id, followed) ==
  (IF id \in AskedIds(g, disk, q) THEN PackageDeps(g, disk, q, id) ELSE {})
    \cup (IF q.explicit /\ followed THEN Dependencies(g, disk, id) ELSE {})

TasksFound(g, disk, q, tasks, frontier) ==
  /\ AskedIds(g, disk, q) \subseteq DOMAIN tasks /\ DOMAIN tasks \subseteq WantedIds(g, disk, q)
  /\ frontier \subseteq DOMAIN tasks /\ (~q.explicit => frontier = {})
  /\ \A id \in DOMAIN tasks :
       /\ DOMAIN tasks[id] = {"deps", "requested"}
       /\ tasks[id].deps = DepsOf(g, disk, q, id, id \notin frontier)
       /\ q.explicit /\ id \notin frontier => Dependencies(g, disk, id) \subseteq DOMAIN tasks

LEMMA WantedFacts ==
  ASSUME NEW g, NEW disk, GraphShape(g, disk), NEW q
  PROVE  /\ AskedIds(g, disk, q) \subseteq WantedIds(g, disk, q)
         /\ WantedIds(g, disk, q) \subseteq TaskIds(g, disk)
         /\ q.explicit => \A i \in WantedIds(g, disk, q) : Dependencies(g, disk, i) \subseteq WantedIds(g, disk, q)
         /\ \A T \in SUBSET TaskIds(g, disk) :
              /\ AskedIds(g, disk, q) \subseteq T
              /\ q.explicit => \A i \in T : Dependencies(g, disk, i) \subseteq T
              => WantedIds(g, disk, q) \subseteq T
<1> DEFINE asked == AskedIds(g, disk, q)
           ids == TaskIds(g, disk)
           E == Explicit(g, disk, q)
<1>1. asked \subseteq ids
  <2>1. Selection(g, q) \subseteq g.nodes
    BY QueryInGraph DEF Selection
  <2>2. ASSUME NEW id \in asked PROVE id \in ids
    <3>1. id = <<id[1], id[2]>> /\ id[1] \in g.nodes /\ HasTask(g, disk, id)
      BY <2>1 DEF AskedIds, Having
    <3>2. id[2] \in DOMAIN TasksOf(g, disk, id[1])
      BY <3>1 DEF HasTask
    <3> QED
      BY <3>1, <3>2 DEF TaskIds
  <2> QED
    BY <2>2
<1>2. \A i \in ids : Dependencies(g, disk, i) \subseteq ids
  <2>1. \A i \in ids : i[1] \in g.nodes
    BY DEF TaskIds
  <2> QED
    BY <2>1, DependenciesInGraph
<1>3. E \subseteq ids \X ids
  BY <1>2 DEF Explicit
<1>4. IsFiniteSet(E)
  <2>1. IsFiniteSet(ids)
    BY DEF GraphShape
  <2>2. IsFiniteSet(ids \X ids)
    BY <2>1, FS_Product
  <2> QED
    BY <1>3, <2>2, FS_Subset
<1>5. \A T \in SUBSET ids : \A e :
        e \in Next1(E, T) <=> q.explicit /\ \E i \in T : e \in Dependencies(g, disk, i)
  <2>1. \A i, e : <<i, e>> \in E <=> q.explicit /\ i \in ids /\ e \in Dependencies(g, disk, i)
    BY DEF Explicit
  <2> HIDE DEF ids, E
  <2>2. ASSUME NEW T, NEW e PROVE e \in Next1(E, T) <=> \E i \in T : <<i, e>> \in E
    <3>1. \A a \in E : a = <<a[1], a[2]>>
      BY <1>3
    <3>2. e \in Next1(E, T) <=> \E a \in E : a[1] \in T /\ a[2] = e
      BY DEF Next1
    <3> QED
      BY <3>1, <3>2
  <2> QED
    BY <2>1, <2>2
<1> HIDE DEF asked, ids, E
<1>6. Next1(E, asked) \subseteq Reached(E, asked) /\ Next1(E, Reached(E, asked)) \subseteq Reached(E, asked)
  BY <1>4, ReachedClosed DEF Closed
<1>7. Reached(E, asked) \subseteq ids
  <2>1. \A T : Next1(E, T) \subseteq ids
    BY <1>3 DEF Next1
  <2> QED
    BY <1>4, <2>1, ReachedLeast DEF Closed
<1>8. WantedIds(g, disk, q) = asked \cup Reached(E, asked)
  BY DEF WantedIds, asked, E
<1>9. ASSUME q.explicit, NEW i \in WantedIds(g, disk, q) PROVE Dependencies(g, disk, i) \subseteq WantedIds(g, disk, q)
  BY <1>1, <1>5, <1>6, <1>7, <1>8, <1>9
<1>10. ASSUME NEW T \in SUBSET ids, asked \subseteq T,
              q.explicit => \A i \in T : Dependencies(g, disk, i) \subseteq T
       PROVE  WantedIds(g, disk, q) \subseteq T
  <2>1. Next1(E, T) \subseteq T /\ Next1(E, asked) \subseteq T
    BY <1>1, <1>5, <1>10
  <2>2. Reached(E, asked) \subseteq T
    BY <1>4, <2>1, ReachedLeast DEF Closed
  <2> QED
    BY <1>8, <1>10, <2>2
<1> QED
  BY <1>1, <1>7, <1>8, <1>9, <1>10 DEF asked, ids

LEMMA FoundAll ==
  ASSUME NEW g, NEW disk, GraphShape(g, disk), NEW q, NEW tasks, TasksFound(g, disk, q, tasks, {})
  PROVE  DOMAIN tasks = WantedIds(g, disk, q)
<1>1. DOMAIN tasks \subseteq WantedIds(g, disk, q) /\ AskedIds(g, disk, q) \subseteq DOMAIN tasks
  BY DEF TasksFound
<1>2. q.explicit => \A i \in DOMAIN tasks : Dependencies(g, disk, i) \subseteq DOMAIN tasks
  BY DEF TasksFound
<1>3. DOMAIN tasks \in SUBSET TaskIds(g, disk)
  BY <1>1, WantedFacts
<1>4. WantedIds(g, disk, q) \subseteq DOMAIN tasks
  BY <1>1, <1>2, <1>3, WantedFacts
<1> QED
  BY <1>1, <1>4

(* The packages that have the task, in their bridged order. *)
LEMMA MappedFinds ==
  ASSUME NEW g, NEW disk, GraphShape(g, disk), NEW q, NEW live,
         Bridged(Induced(g, Selection(g, q)).arrows, Selection(g, q), live),
         Having(g, disk, q) \subseteq live.nodes,
         \A d \in live.nodes : HasTask(g, disk, <<d, q.task>>),
         NEW tasks,
         tasks = [id \in live.nodes \X {q.task} |->
                    [deps |-> {<<a[2], q.task>> : a \in {b \in live.arrows : b[1] = id[1]}}, requested |-> TRUE]]
  PROVE  TasksFound(g, disk, q, tasks, IF q.explicit THEN DOMAIN tasks ELSE {})
<1> DEFINE A == Induced(g, Selection(g, q)).arrows
           all == Selection(g, q)
           N == Having(g, disk, q)
           asked == AskedIds(g, disk, q)
<1>1. live.nodes = N
  BY DEF Bridged, Having
<1>2. /\ live.arrows \subseteq N \X N
      /\ \A x, y \in N : <<x, y>> \in live.arrows <=> y \in Passing(A, x, all \ N)
  BY <1>1 DEF Bridged
<1>3. asked = N \X {q.task}
  BY DEF AskedIds
<1>4. asked \subseteq WantedIds(g, disk, q)
  BY WantedFacts
<1> HIDE DEF A, all, N
<1>5. DOMAIN tasks = asked
  BY <1>1, <1>3
<1>6. ASSUME NEW id \in asked
      PROVE  DOMAIN tasks[id] = {"deps", "requested"} /\ tasks[id].deps = PackageDeps(g, disk, q, id)
  <2>1. tasks[id] = [deps |-> {<<a[2], q.task>> : a \in {b \in live.arrows : b[1] = id[1]}}, requested |-> TRUE]
    BY <1>1, <1>3
  <2>2. PICK deps : /\ deps = {<<a[2], q.task>> : a \in {b \in live.arrows : b[1] = id[1]}}
                    /\ DOMAIN tasks[id] = {"deps", "requested"} /\ tasks[id].deps = deps
    <3>1. PICK deps : deps = {<<a[2], q.task>> : a \in {b \in live.arrows : b[1] = id[1]}}
      OBVIOUS
    <3>2. tasks[id] = [deps |-> deps, requested |-> TRUE]
      BY <2>1, <3>1
    <3> QED
      BY <3>1, <3>2
  <2>3. id[1] \in N
    BY <1>3
  <2>4. PackageDeps(g, disk, q, id) = {e \in asked : e[1] \in Passing(A, id[1], all \ N)}
    BY DEF PackageDeps, A, all, N
  <2>5. ASSUME NEW e \in PackageDeps(g, disk, q, id) PROVE e \in deps
    <3>1. e = <<e[1], q.task>> /\ e[1] \in N /\ e[1] \in Passing(A, id[1], all \ N)
      BY <1>3, <2>4
    <3>2. <<id[1], e[1]>> \in live.arrows
      BY <1>2, <2>3, <3>1
    <3> QED
      BY <2>2, <3>1, <3>2
  <2>6. ASSUME NEW e \in deps PROVE e \in PackageDeps(g, disk, q, id)
    <3>1. PICK a \in live.arrows : e = <<a[2], q.task>> /\ a[1] = id[1]
      BY <2>2
    <3>2. a = <<id[1], a[2]>> /\ a[2] \in N
      BY <1>2, <3>1
    <3>3. a[2] \in Passing(A, id[1], all \ N)
      BY <1>2, <2>3, <3>2
    <3> QED
      BY <1>3, <2>4, <3>1, <3>2, <3>3
  <2> QED
    BY <2>2, <2>5, <2>6
<1> QED
  BY <1>4, <1>5, <1>6 DEF TasksFound, DepsOf

(* One round of `dependsOn`. *)
LEMMA RoundFinds ==
  ASSUME NEW g, NEW disk, GraphShape(g, disk), NEW q, NEW tasks, NEW frontier,
         TasksFound(g, disk, q, tasks, frontier), frontier # {}, NEW reached,
         reached = (UNION {Dependencies(g, disk, id) : id \in frontier}) \ DOMAIN tasks,
         NEW more,
         more = [id \in DOMAIN tasks \cup reached |->
                   IF id \in reached THEN [deps |-> {}, requested |-> FALSE]
                   ELSE [tasks[id] EXCEPT !.deps = @ \cup IF id \in frontier THEN Dependencies(g, disk, id) ELSE {}]]
  PROVE  TasksFound(g, disk, q, more, reached)
<1>1. /\ AskedIds(g, disk, q) \subseteq DOMAIN tasks /\ DOMAIN tasks \subseteq WantedIds(g, disk, q)
      /\ frontier \subseteq DOMAIN tasks /\ q.explicit
      /\ \A id \in DOMAIN tasks :
           /\ DOMAIN tasks[id] = {"deps", "requested"}
           /\ tasks[id].deps = DepsOf(g, disk, q, id, id \notin frontier)
           /\ id \notin frontier => Dependencies(g, disk, id) \subseteq DOMAIN tasks
  BY DEF TasksFound
<1>2. DOMAIN more = DOMAIN tasks \cup reached /\ reached \cap DOMAIN tasks = {}
  OBVIOUS
<1>3. \A id \in frontier : Dependencies(g, disk, id) \subseteq DOMAIN more
  BY <1>2
<1>4. DOMAIN more \subseteq WantedIds(g, disk, q)
  BY <1>1, <1>2, WantedFacts
<1>5. ASSUME NEW id \in DOMAIN more
      PROVE  /\ DOMAIN more[id] = {"deps", "requested"}
             /\ more[id].deps = DepsOf(g, disk, q, id, id \notin reached)
             /\ id \notin reached => Dependencies(g, disk, id) \subseteq DOMAIN more
  <2>1. CASE id \in reached
    <3>1. more[id] = [deps |-> {}, requested |-> FALSE]
      BY <2>1
    <3>2. id \notin AskedIds(g, disk, q)
      BY <1>1, <1>2, <2>1
    <3> QED
      BY <2>1, <3>1, <3>2 DEF DepsOf
  <2>2. CASE id \notin reached
    <3>1. id \in DOMAIN tasks
      BY <1>2, <2>2
    <3> DEFINE added == IF id \in frontier THEN Dependencies(g, disk, id) ELSE {}
    <3>2. more[id] = [tasks[id] EXCEPT !.deps = @ \cup added]
      BY <2>2, <3>1
    <3> HIDE DEF added
    <3>3. DOMAIN more[id] = {"deps", "requested"} /\ more[id].deps = tasks[id].deps \cup added
      BY <1>1, <3>1, <3>2
    <3>4. more[id].deps = DepsOf(g, disk, q, id, TRUE)
      <4>1. CASE id \in frontier
        <5>1. tasks[id].deps = DepsOf(g, disk, q, id, FALSE) /\ added = Dependencies(g, disk, id)
          BY <1>1, <3>1, <4>1 DEF added
        <5> QED
          BY <1>1, <3>3, <5>1 DEF DepsOf
      <4>2. CASE id \notin frontier
        <5>1. tasks[id].deps = DepsOf(g, disk, q, id, TRUE) /\ added = {}
          BY <1>1, <3>1, <4>2 DEF added
        <5> QED
          BY <3>3, <5>1
      <4> QED
        BY <4>1, <4>2
    <3>5. Dependencies(g, disk, id) \subseteq DOMAIN more
      BY <1>1, <1>2, <1>3, <3>1
    <3> QED
      BY <2>2, <3>3, <3>4, <3>5
  <2> QED
    BY <2>1, <2>2
<1> QED
  BY <1>1, <1>2, <1>4, <1>5 DEF TasksFound

(* The order of the tasks a query wants. *)
OrderOf(g, disk, q) ==
  LET asked == AskedIds(g, disk, q)
  IN {p \in asked \X asked : p[2][1] \in Passing(Induced(g, Selection(g, q)).arrows, p[1][1],
                                                 Selection(g, q) \ Having(g, disk, q))}
       \cup {e \in Explicit(g, disk, q) : e[1] \in WantedIds(g, disk, q)}

LEMMA OrderIsDeps ==
  ASSUME NEW g, NEW disk, GraphShape(g, disk), NEW q, NEW tasks, TasksFound(g, disk, q, tasks, {})
  PROVE  /\ OrderOf(g, disk, q) \subseteq (DOMAIN tasks) \X (DOMAIN tasks)
         /\ \A x \in DOMAIN tasks : \A e : <<x, e>> \in OrderOf(g, disk, q) <=> e \in tasks[x].deps
         /\ IsFiniteSet(OrderOf(g, disk, q))
<1> DEFINE asked == AskedIds(g, disk, q)
           D == DOMAIN tasks
           Near(x, y) == y[1] \in Passing(Induced(g, Selection(g, q)).arrows, x[1],
                                          Selection(g, q) \ Having(g, disk, q))
           E == Explicit(g, disk, q)
           ids == TaskIds(g, disk)
           order == OrderOf(g, disk, q)
<1>1. D = WantedIds(g, disk, q) /\ D \subseteq ids /\ asked \subseteq D /\ IsFiniteSet(ids)
  BY FoundAll, WantedFacts DEF GraphShape
<1>2. q.explicit => \A i \in D : Dependencies(g, disk, i) \subseteq D
  BY <1>1, WantedFacts
<1>3. \A i, e : <<i, e>> \in E <=> q.explicit /\ i \in ids /\ e \in Dependencies(g, disk, i)
  BY DEF Explicit
<1>4. \A e \in E : e = <<e[1], e[2]>>
  BY DEF Explicit
<1>5. order = {p \in asked \X asked : Near(p[1], p[2])} \cup {e \in E : e[1] \in D}
  BY <1>1 DEF OrderOf
<1>6. \A x : PackageDeps(g, disk, q, x) = {y \in asked : Near(x, y)}
  BY DEF PackageDeps
<1>7. \A x \in D : tasks[x].deps = (IF x \in asked THEN PackageDeps(g, disk, q, x) ELSE {})
                                     \cup (IF q.explicit THEN Dependencies(g, disk, x) ELSE {})
  BY DEF TasksFound, DepsOf
<1> HIDE DEF asked, D, Near, E, ids, order
<1>8. \A x, y : <<x, y>> \in order <=> \/ x \in asked /\ y \in asked /\ Near(x, y)
                                       \/ <<x, y>> \in E /\ x \in D
  BY <1>5
<1>9. \A p \in order : p = <<p[1], p[2]>>
  BY <1>4, <1>5
<1>10. ASSUME NEW x \in D, NEW e PROVE <<x, e>> \in order <=> e \in tasks[x].deps
  <2>1. e \in tasks[x].deps <=> \/ x \in asked /\ e \in asked /\ Near(x, e)
                                \/ q.explicit /\ e \in Dependencies(g, disk, x)
    BY <1>6, <1>7
  <2> QED
    BY <1>1, <1>3, <1>8, <2>1
<1>11. order \subseteq D \X D
  <2>1. ASSUME NEW p \in order PROVE p[1] \in D /\ p[2] \in D
    <3>1. \/ p[1] \in asked /\ p[2] \in asked
          \/ <<p[1], p[2]>> \in E /\ p[1] \in D
      BY <1>8, <1>9
    <3> QED
      BY <1>1, <1>2, <1>3, <3>1
  <2> QED
    BY <1>9, <2>1
<1>12. IsFiniteSet(order)
  <2>1. IsFiniteSet(D)
    BY <1>1, FS_Subset
  <2>2. IsFiniteSet(D \X D)
    BY <2>1, FS_Product
  <2> QED
    BY <1>11, <2>2, FS_Subset
<1> QED
  BY <1>10, <1>11, <1>12 DEF D, order

(* The edges among the tasks kept are those of the order, also past the one taken
   out. *)
Direct(tasks, kept) == UNION {{<<id, e>> : e \in tasks[id].deps \cap kept} : id \in kept}

Through(tasks, kept, pruned) ==
  IF pruned = None THEN {}
  ELSE {id \in kept : pruned \in tasks[id].deps} \X (tasks[pruned].deps \cap kept)

InOrder(g, disk, q, kept, pruned) ==
  {e \in kept \X kept : e[2] \in Passing(OrderOf(g, disk, q), e[1], {pruned})}

LEMMA WiredInOrder ==
  ASSUME NEW g, NEW disk, GraphShape(g, disk), NEW q, NEW tasks, TasksFound(g, disk, q, tasks, {}),
         NEW pruned, pruned # None => pruned \in DOMAIN tasks,
         NEW kept, kept = DOMAIN tasks \ {pruned}
  PROVE  Direct(tasks, kept) \cup Through(tasks, kept, pruned) = InOrder(g, disk, q, kept, pruned)
<1> PICK direct : direct = Direct(tasks, kept)
  OBVIOUS
<1> PICK through : through = Through(tasks, kept, pruned)
  OBVIOUS
<1> PICK order : order = OrderOf(g, disk, q)
  OBVIOUS
<1> PICK D : D = DOMAIN tasks
  OBVIOUS
<1>1. /\ order \subseteq D \X D /\ IsFiniteSet(order)
      /\ \A x \in D : \A e : <<x, e>> \in order <=> e \in tasks[x].deps
  BY OrderIsDeps
<1>2. pruned = None => pruned \notin D
  <2>1. D \subseteq TaskIds(g, disk)
    BY FoundAll, WantedFacts
  <2> QED
    BY <2>1 DEF GraphShape
<1>3. ASSUME NEW x PROVE \A e : e \in Next1(order, {x}) <=> <<x, e>> \in order
  <2>1. \A a \in order : a = <<a[1], a[2]>>
    BY <1>1
  <2> QED
    BY <2>1 DEF Next1
<1>4. \A x : Passing(order, x, {pruned}) =
               Next1(order, {x}) \cup IF pruned \in Next1(order, {x}) THEN Next1(order, {pruned}) ELSE {}
  <2> TAKE x
  <2> DEFINE P == Next1(order, {x})
             Q == IF pruned \in P THEN Next1(order, {pruned}) ELSE {}
             R == Passing(order, x, {pruned})
  <2>1. /\ P \subseteq R /\ \A z \in R \cap {pruned} : Next1(order, {z}) \subseteq R
        /\ \A T : P \subseteq T /\ (\A z \in T \cap {pruned} : Next1(order, {z}) \subseteq T) => R \subseteq T
    BY <1>1, PassingFacts
  <2>2. Q \subseteq R
    <3> HIDE DEF P, R
    <3> QED
      BY <2>1
  <2>3. \A z \in (P \cup Q) \cap {pruned} : Next1(order, {z}) \subseteq P \cup Q
    <3> HIDE DEF P
    <3> QED
      OBVIOUS
  <2> HIDE DEF P, Q, R
  <2>4. R \subseteq P \cup Q
    BY <2>1, <2>3
  <2> QED
    BY <2>1, <2>2, <2>4 DEF P, Q, R
<1>5. \A x, y : y \in Passing(order, x, {pruned}) <=>
                  <<x, y>> \in order \/ (<<x, pruned>> \in order /\ <<pruned, y>> \in order)
  BY <1>3, <1>4
<1>6. kept \subseteq D /\ \A x \in kept, y \in kept : <<x, y>> \in direct <=> y \in tasks[x].deps
  BY DEF Direct
<1>7. direct \subseteq kept \X kept /\ through \subseteq kept \X kept
  BY DEF Direct, Through
<1>8. \A x \in kept, y \in kept : <<x, y>> \in through <=>
        pruned # None /\ pruned \in tasks[x].deps /\ y \in tasks[pruned].deps
  BY DEF Through
<1>9. ASSUME NEW x \in kept, NEW y \in kept
      PROVE  <<x, y>> \in direct \cup through <=> y \in Passing(order, x, {pruned})
  <2>1. CASE pruned = None
    <3>1. <<x, pruned>> \notin order
      BY <1>1, <1>2, <2>1
    <3> QED
      BY <1>1, <1>5, <1>6, <1>8, <2>1, <3>1
  <2>2. CASE pruned # None
    <3>1. pruned \in D /\ x \in D
      BY <1>6, <2>2
    <3> QED
      BY <1>1, <1>5, <1>6, <1>8, <2>2, <3>1
  <2> QED
    BY <2>1, <2>2
<1> HIDE DEF Passing
<1>10. direct \cup through = {e \in kept \X kept : e[2] \in Passing(order, e[1], {pruned})}
  <2> DEFINE right == {e \in kept \X kept : e[2] \in Passing(order, e[1], {pruned})}
  <2>1. ASSUME NEW e \in direct \cup through PROVE e \in right
    <3>0. e \in kept \X kept
      BY <1>7, <2>1
    <3>1. PICK x \in kept, y \in kept : e = <<x, y>>
      BY ONLY <3>0
    <3>2. y \in Passing(order, x, {pruned})
      BY <1>9, <2>1, <3>1
    <3>3. e[1] = x /\ e[2] = y
      BY <3>1
    <3> QED
      BY <3>1, <3>2, <3>3
  <2>2. ASSUME NEW e \in right PROVE e \in direct \cup through
    <3>1. PICK x \in kept, y \in kept : e = <<x, y>> /\ e[2] \in Passing(order, e[1], {pruned})
      BY <2>2
    <3>2. y \in Passing(order, x, {pruned})
      BY <3>1
    <3> QED
      BY <1>9, <3>1, <3>2
  <2> QED
    BY <2>1, <2>2
<1> QED
  BY <1>10 DEF InOrder

-----------------------------------------------------------------------------
(* The order of the tasks, step by step of a query. *)

(* What a query knows at each of its stages. *)
Ordered(g, disk, f) ==
  /\ f.stage \notin {"plan", "wired"} => f.planned = <<>>
  /\ f.stage = "map" =>
       /\ Bridged(Induced(g, Selection(g, f.query)).arrows, Selection(g, f.query), f.live)
       /\ Having(g, disk, f.query) \subseteq f.live.nodes
  /\ f.stage = "expand" => TasksFound(g, disk, f.query, f.tasks, f.frontier)
  /\ f.stage \in {"plan", "wired"} =>
       /\ TasksFound(g, disk, f.query, f.tasks, {})
       /\ f.pruned # None => f.pruned \in DOMAIN f.tasks
       /\ DOMAIN f.planned \subseteq (DOMAIN f.tasks) \ {f.pruned}
  /\ f.stage = "wired" =>
       /\ DOMAIN f.planned = (DOMAIN f.tasks) \ {f.pruned}
       /\ f.edges = IF f.args.parallel THEN {} ELSE InOrder(g, disk, f.query, DOMAIN f.planned, f.pruned)

OrderSound(f) == f.kind = "query" => Ordered(graph, world.disk, f)

(* A task that a query plans is one it has found and not pruned. *)
PlannedBy(caller, f) ==
  f.kind = "task" /\ caller.kind = "query" =>
    caller.stage = "plan" /\ f.id \in (DOMAIN caller.tasks) \ {caller.pruned}

Orders ==
  /\ \A i \in 1 .. Len(frames) : OrderSound(frames[i])
  /\ \A i \in 1 .. Len(frames) : i # 1 => PlannedBy(frames[i - 1], frames[i])

(* A query on top, and what its next step is about. *)
QueryOnTop(stage) ==
  /\ frames # <<>> /\ Top.kind = "query" /\ Top.stage = stage /\ DOMAIN Top = QueryFields
  /\ GraphShape(graph, world.disk) /\ Ordered(graph, world.disk, Top)

GoesInOrder == Ends \/ \E f : Become(f) /\ f.kind = "query" /\ OrderSound(f)


LEMMA InducedFacts ==
  ASSUME NEW g, NEW disk, GraphShape(g, disk), NEW q
  PROVE  /\ IsFiniteSet(Induced(g, Selection(g, q)).arrows)
         /\ Induced(g, Selection(g, q)).arrows \subseteq Selection(g, q) \X Selection(g, q)
         /\ Induced(g, Selection(g, q)).nodes = Selection(g, q)
<1> PICK all : all = Selection(g, q)
  OBVIOUS
<1>1. Arrows(g) \subseteq g.nodes \X g.nodes /\ IsFiniteSet(Arrows(g))
  BY ArrowsInGraph
<1>2. /\ Induced(g, all).nodes = all
      /\ Induced(g, all).arrows = {a \in Arrows(g) : a[1] \in all /\ a[2] \in all}
  BY DEF Induced
<1>3. Induced(g, all).arrows \subseteq Arrows(g) /\ Induced(g, all).arrows \subseteq all \X all
  BY <1>1, <1>2
<1>4. IsFiniteSet(Induced(g, all).arrows)
  BY <1>1, <1>3, FS_Subset
<1> QED
  BY <1>2, <1>3, <1>4

LEMMA OpenOrdered ==
  ASSUME QueryOnTop("open"), OpenQuery
  PROVE  GoesInOrder
<1>1. \/ \E error : Fail(error)
      \/ \E ctx : Become([Top EXCEPT !.ctx = ctx, !.stage = "select"])
  BY DEF OpenQuery
<1>2. ASSUME NEW ctx, Become([Top EXCEPT !.ctx = ctx, !.stage = "select"]) PROVE GoesInOrder
  <2> PICK f : f = [Top EXCEPT !.ctx = ctx, !.stage = "select"]
    OBVIOUS
  <2>1. f.kind = "query" /\ f.stage = "select" /\ f.planned = Top.planned
    BY DEF QueryOnTop, QueryFields
  <2>2. OrderSound(f)
    BY <2>1 DEF QueryOnTop, OrderSound, Ordered
  <2> QED
    BY <1>2, <2>1, <2>2 DEF GoesInOrder
<1> QED
  BY <1>1, <1>2, Failing DEF GoesInOrder

LEMMA SelectOrdered ==
  ASSUME QueryOnTop("select"), SelectPackages
  PROVE  GoesInOrder
<1> PICK all : all = Selection(graph, Top.query)
  OBVIOUS
<1>1. \/ \E error : Fail(error)
      \/ Become([Top EXCEPT !.live = Induced(graph, all), !.stage = "map"])
  BY DEF SelectPackages, Selection
<1>2. ASSUME Become([Top EXCEPT !.live = Induced(graph, all), !.stage = "map"]) PROVE GoesInOrder
  <2> PICK live : live = Induced(graph, all)
    OBVIOUS
  <2> PICK f : f = [Top EXCEPT !.live = live, !.stage = "map"]
    OBVIOUS
  <2>1. /\ f.kind = "query" /\ f.stage = "map" /\ f.planned = Top.planned /\ f.query = Top.query
        /\ f.live = live
    BY DEF QueryOnTop, QueryFields
  <2>2. /\ IsFiniteSet(live.arrows) /\ live.arrows \subseteq all \X all /\ live.nodes = all
    BY InducedFacts DEF QueryOnTop
  <2>3. Bridged(live.arrows, all, live)
    BY <2>2, BridgeBegins
  <2>4. Having(graph, world.disk, f.query) \subseteq live.nodes
    BY <2>1, <2>2 DEF Having
  <2>5. OrderSound(f)
    BY <2>1, <2>3, <2>4 DEF QueryOnTop, OrderSound, Ordered
  <2> QED
    BY <1>2, <2>1, <2>5 DEF GoesInOrder
<1> QED
  BY <1>1, <1>2, Failing DEF GoesInOrder

LEMMA BridgeOrdered ==
  ASSUME QueryOnTop("map"), BridgePackage
  PROVE  GoesInOrder
<1> PICK all : all = Selection(graph, Top.query)
  OBVIOUS
<1> PICK A : A = Induced(graph, all).arrows
  OBVIOUS
<1>1. PICK d \in Lacking : Become([Top EXCEPT !.live = Without(Top.live, d)])
  BY DEF BridgePackage
<1> PICK live : live = Without(Top.live, d)
  OBVIOUS
<1> PICK f : f = [Top EXCEPT !.live = live]
  OBVIOUS
<1>2. /\ f.kind = "query" /\ f.stage = "map" /\ f.planned = Top.planned /\ f.query = Top.query
      /\ f.live = live
  BY DEF QueryOnTop, QueryFields
<1>3. d \in Top.live.nodes /\ d \notin Having(graph, world.disk, Top.query)
  BY DEF Lacking, Having
<1>4. IsFiniteSet(A)
  BY InducedFacts DEF QueryOnTop
<1>5. Bridged(A, all, Top.live) /\ Having(graph, world.disk, Top.query) \subseteq Top.live.nodes
  BY DEF QueryOnTop, Ordered
<1>6. Bridged(A, all, live) /\ live.nodes = Top.live.nodes \ {d}
  BY <1>3, <1>4, <1>5, BridgeStep
<1>7. OrderSound(f)
  BY <1>2, <1>3, <1>5, <1>6 DEF QueryOnTop, OrderSound, Ordered
<1> QED
  BY <1>1, <1>2, <1>7 DEF GoesInOrder

LEMMA MapOrdered ==
  ASSUME QueryOnTop("map"), MapToTasks
  PROVE  GoesInOrder
<1> PICK q : q = Top.query
  OBVIOUS
<1> PICK live : live = Top.live
  OBVIOUS
<1> PICK tasks : tasks = [id \in live.nodes \X {q.task} |->
                            [deps |-> {<<a[2], q.task>> : a \in {b \in live.arrows : b[1] = id[1]}},
                             requested |-> TRUE]]
  OBVIOUS
<1> PICK frontier : frontier = IF q.explicit THEN DOMAIN tasks ELSE {}
  OBVIOUS
<1> PICK f : f = [Top EXCEPT !.tasks = tasks, !.stage = "expand", !.frontier = frontier]
  OBVIOUS
<1>1. Become(f) /\ Lacking = {}
  BY DEF MapToTasks
<1>2. /\ f.kind = "query" /\ f.stage = "expand" /\ f.planned = Top.planned /\ f.query = q
      /\ f.tasks = tasks /\ f.frontier = frontier
  BY DEF QueryOnTop, QueryFields
<1>3. /\ Bridged(Induced(graph, Selection(graph, q)).arrows, Selection(graph, q), live)
      /\ Having(graph, world.disk, q) \subseteq live.nodes
  BY DEF QueryOnTop, Ordered
<1>4. \A d \in live.nodes : HasTask(graph, world.disk, <<d, q.task>>)
  BY <1>1 DEF Lacking
<1>5. TasksFound(graph, world.disk, q, tasks, frontier)
  <2>1. /\ GraphShape(graph, world.disk)
        /\ tasks = [id \in live.nodes \X {q.task} |->
                      [deps |-> {<<a[2], q.task>> : a \in {b \in live.arrows : b[1] = id[1]}},
                       requested |-> TRUE]]
    BY DEF QueryOnTop
  <2>2. TasksFound(graph, world.disk, q, tasks, IF q.explicit THEN DOMAIN tasks ELSE {})
    BY ONLY <1>3, <1>4, <2>1, MappedFinds, Zenon
  <2> QED
    BY <2>2
<1>6. OrderSound(f)
  BY <1>2, <1>5 DEF QueryOnTop, OrderSound, Ordered
<1> QED
  BY <1>1, <1>2, <1>6 DEF GoesInOrder

LEMMA AddOrdered ==
  ASSUME QueryOnTop("expand"), AddDependencies
  PROVE  GoesInOrder
<1> PICK q : q = Top.query
  OBVIOUS
<1> PICK tasks : tasks = Top.tasks
  OBVIOUS
<1> PICK frontier : frontier = Top.frontier
  OBVIOUS
<1> PICK reached : reached = (UNION {Dependencies(graph, world.disk, id) : id \in frontier}) \ DOMAIN tasks
  OBVIOUS
<1> PICK more : more = [id \in DOMAIN tasks \cup reached |->
                   IF id \in reached THEN [deps |-> {}, requested |-> FALSE]
                   ELSE [tasks[id] EXCEPT !.deps = @ \cup IF id \in frontier THEN Dependencies(graph, world.disk, id) ELSE {}]]
  OBVIOUS
<1> PICK f : f = [Top EXCEPT !.tasks = more, !.frontier = reached]
  OBVIOUS
<1>1. frontier # {} /\ ((\E error : Fail(error)) \/ Become(f))
  BY DEF AddDependencies, NotYetQueried, DependsOnOf
<1>2. /\ f.kind = "query" /\ f.stage = "expand" /\ f.planned = Top.planned /\ f.query = q
      /\ f.tasks = more /\ f.frontier = reached
  BY DEF QueryOnTop, QueryFields
<1>3. TasksFound(graph, world.disk, q, tasks, frontier)
  BY DEF QueryOnTop, Ordered
<1>4. TasksFound(graph, world.disk, q, more, reached)
  <2>1. /\ GraphShape(graph, world.disk)
        /\ reached = (UNION {Dependencies(graph, world.disk, id) : id \in frontier}) \ DOMAIN tasks
        /\ more = [id \in DOMAIN tasks \cup reached |->
                     IF id \in reached THEN [deps |-> {}, requested |-> FALSE]
                     ELSE [tasks[id] EXCEPT !.deps = @ \cup IF id \in frontier
                                                            THEN Dependencies(graph, world.disk, id) ELSE {}]]
        /\ frontier # {}
    BY <1>1 DEF QueryOnTop
  <2> QED
    BY ONLY <1>3, <2>1, RoundFinds, Zenon
<1>5. OrderSound(f)
  BY <1>2, <1>4 DEF QueryOnTop, OrderSound, Ordered
<1> QED
  BY <1>1, <1>2, <1>5, Failing DEF GoesInOrder

LEMMA StartOrdered ==
  ASSUME QueryOnTop("expand"), StartPlanning
  PROVE  GoesInOrder
<1> PICK pruned : pruned = Pruned(Top)
  OBVIOUS
<1> PICK f : f = [Top EXCEPT !.pruned = pruned, !.stage = "plan"]
  OBVIOUS
<1>1. Top.frontier = {} /\ ((\E error : Fail(error)) \/ Become(f))
  BY DEF StartPlanning
<1>2. /\ f.kind = "query" /\ f.stage = "plan" /\ f.planned = Top.planned /\ f.query = Top.query
      /\ f.tasks = Top.tasks /\ f.pruned = pruned
  BY DEF QueryOnTop, QueryFields
<1>3. pruned # None => pruned \in DOMAIN Top.tasks
  BY DEF Pruned
<1>4. f.planned = <<>> /\ TasksFound(graph, world.disk, f.query, f.tasks, {})
  BY <1>1, <1>2 DEF QueryOnTop, Ordered
<1>5. DOMAIN f.planned = {}
  BY <1>4
<1>6. OrderSound(f)
  BY <1>2, <1>3, <1>4, <1>5 DEF OrderSound, Ordered
<1> QED
  BY <1>1, <1>2, <1>6, Failing DEF GoesInOrder

LEMMA WireOrdered ==
  ASSUME QueryOnTop("plan"), WireTasks
  PROVE  GoesInOrder
<1> PICK q : q = Top.query
  OBVIOUS
<1> PICK tasks : tasks = Top.tasks
  OBVIOUS
<1> PICK pruned : pruned = Top.pruned
  OBVIOUS
<1> PICK kept : kept = DOMAIN Top.planned
  OBVIOUS
<1> PICK edges : edges = IF Top.args.parallel THEN {} ELSE Direct(tasks, kept) \cup Through(tasks, kept, pruned)
  OBVIOUS
<1> PICK f : f = [Top EXCEPT !.stage = "wired", !.edges = edges]
  OBVIOUS
<1>1. Become(f) /\ kept = DOMAIN tasks \ {pruned}
  BY DEF WireTasks, Direct, Through
<1>2. /\ f.kind = "query" /\ f.stage = "wired" /\ f.planned = Top.planned /\ f.query = q
      /\ f.tasks = tasks /\ f.pruned = pruned /\ f.edges = edges /\ f.args = Top.args
  BY DEF QueryOnTop, QueryFields
<1>3. TasksFound(graph, world.disk, q, tasks, {}) /\ (pruned # None => pruned \in DOMAIN tasks)
  BY DEF QueryOnTop, Ordered
<1>4. Direct(tasks, kept) \cup Through(tasks, kept, pruned) = InOrder(graph, world.disk, q, kept, pruned)
  BY <1>1, <1>3, WiredInOrder DEF QueryOnTop
<1>5. OrderSound(f)
  BY <1>1, <1>2, <1>3, <1>4 DEF OrderSound, Ordered
<1> QED
  BY <1>1, <1>2, <1>5 DEF GoesInOrder

LEMMA QueryOrdered ==
  ASSUME StackShape, Orders, frames # <<>>, GraphShape(graph, world.disk), QueryAction
  PROVE  GoesInOrder
<1>1. \E stage : Querying(stage)
  BY DEF QueryAction, OpenQuery, SelectPackages, BridgePackage, MapToTasks, AddDependencies, StartPlanning,
         WireTasks
<1>2. /\ Top.kind = "query" /\ DOMAIN Top = QueryFields /\ Len(frames) \in Nat \ {0}
  BY <1>1, TopShape DEF Querying, FrameShape
<1>3. Ordered(graph, world.disk, Top)
  BY <1>2 DEF Orders, OrderSound, Top
<1>4. \A stage : Querying(stage) => QueryOnTop(stage)
  BY <1>2, <1>3 DEF Querying, QueryOnTop
<1> QED
  BY <1>4, OpenOrdered, SelectOrdered, BridgeOrdered, MapOrdered, AddOrdered, StartOrdered, WireOrdered
     DEF QueryAction, OpenQuery, SelectPackages, BridgePackage, MapToTasks, AddDependencies,
         StartPlanning, WireTasks

LEMMA OrdersStay ==
  ASSUME NEW f, UNCHANGED session
  PROVE  /\ OrderSound(f) => OrderSound(f)'
         /\ \A g : PlannedBy(f, g) => PlannedBy(f, g)'
BY DEF session, OrderSound, PlannedBy

LEMMA OrdersCarried ==
  ASSUME UNCHANGED session,
         \A i \in 1 .. Len(frames') : OrderSound(frames'[i]),
         \A i \in 1 .. Len(frames') : i # 1 => PlannedBy(frames'[i - 1], frames'[i])
  PROVE  Orders'
<1>1. ASSUME NEW i \in 1 .. Len(frames') PROVE OrderSound(frames[i])'
  <2>1. PICK h : h = frames'[i]
    OBVIOUS
  <2>2. OrderSound(h)'
    BY <2>1, OrdersStay
  <2> QED
    BY <2>1, <2>2 DEF OrderSound
<1>2. ASSUME NEW i \in 1 .. Len(frames'), i # 1 PROVE PlannedBy(frames'[i - 1], frames'[i])
  BY <1>2
<1>3. ASSUME NEW i \in 1 .. Len(frames'), i # 1 PROVE PlannedBy(frames[i - 1], frames[i])'
  BY <1>2, <1>3 DEF PlannedBy
<1> QED
  BY <1>1, <1>3 DEF Orders

LEMMA BecomeOrders ==
  ASSUME StackShape, Orders, frames # <<>>, NEW f, Become(f), OrderSound(f),
         f.kind = Top.kind, f.kind = "task" => f.id = Top.id
  PROVE  Orders'
<1> PICK n : n = Len(frames)
  OBVIOUS
<1>1. /\ Len(frames') = n /\ n \in Nat \ {0} /\ frames'[n] = f
      /\ \A i \in 1 .. (n - 1) : frames'[i] = frames[i]
  BY Becoming DEF StackShape
<1>2. UNCHANGED session
  BY DEF Become
<1>3. ASSUME NEW i \in 1 .. n PROVE OrderSound(frames'[i])
  <2>1. i = n \/ i \in 1 .. (n - 1)
    BY <1>1
  <2> QED
    BY <1>1, <2>1 DEF Orders
<1>4. ASSUME NEW i \in 1 .. n, i # 1 PROVE PlannedBy(frames'[i - 1], frames'[i])
  <2>1. PlannedBy(frames[i - 1], frames[i]) /\ i - 1 \in 1 .. (n - 1) /\ (i = n \/ i \in 1 .. (n - 1))
    BY <1>1, <1>4 DEF Orders
  <2>2. CASE i = n
    <3>1. frames'[i - 1] = frames[i - 1] /\ frames'[i] = f /\ frames[i] = Top
      BY <1>1, <2>1, <2>2 DEF Top
    <3> QED
      BY <2>1, <3>1 DEF PlannedBy
  <2> QED
    BY <1>1, <2>1, <2>2
<1> QED
  BY <1>1, <1>2, <1>3, <1>4, OrdersCarried

LEMMA CallOrders ==
  ASSUME StackShape, Orders, frames # <<>>, NEW f, NEW g, Call(f, g), OrderSound(f), OrderSound(g),
         PlannedBy(f, g), f.kind = Top.kind, f.kind = "task" => f.id = Top.id
  PROVE  Orders'
<1> PICK n : n = Len(frames)
  OBVIOUS
<1>1. /\ Len(frames') = n + 1 /\ n \in Nat \ {0} /\ frames'[n] = f /\ frames'[n + 1] = g
      /\ \A i \in 1 .. (n - 1) : frames'[i] = frames[i]
  BY Calling DEF StackShape
<1>2. UNCHANGED session
  BY DEF Call
<1>3. ASSUME NEW i \in 1 .. (n + 1) PROVE OrderSound(frames'[i])
  <2>1. i = n + 1 \/ i = n \/ i \in 1 .. (n - 1)
    BY <1>1
  <2> QED
    BY <1>1, <2>1 DEF Orders
<1>4. ASSUME NEW i \in 1 .. (n + 1), i # 1 PROVE PlannedBy(frames'[i - 1], frames'[i])
  <2>1. CASE i = n + 1
    BY <1>1, <2>1
  <2>2. CASE i = n
    <3>1. PlannedBy(frames[i - 1], frames[i]) /\ i - 1 \in 1 .. (n - 1)
      BY <1>1, <1>4, <2>2 DEF Orders
    <3>2. frames'[i - 1] = frames[i - 1] /\ frames'[i] = f /\ frames[i] = Top
      BY <1>1, <2>2, <3>1 DEF Top
    <3> QED
      BY <3>1, <3>2 DEF PlannedBy
  <2>3. CASE i \in 1 .. (n - 1)
    <3>1. PlannedBy(frames[i - 1], frames[i]) /\ i - 1 \in 1 .. (n - 1)
      BY <1>1, <1>4, <2>3 DEF Orders
    <3> QED
      BY <1>1, <2>3, <3>1
  <2> QED
    BY <1>1, <2>1, <2>2, <2>3
<1> QED
  BY <1>1, <1>2, <1>3, <1>4, OrdersCarried

LEMMA ResumeOrders ==
  ASSUME StackShape, Orders, Len(frames) > 1, NEW f, Resume(f), OrderSound(f),
         f.kind = Caller.kind, f.kind = "task" => f.id = Caller.id
  PROVE  Orders'
<1> PICK n : n = Len(frames)
  OBVIOUS
<1>1. /\ Len(frames') = n - 1 /\ n \in Nat /\ frames'[n - 1] = f
      /\ \A i \in 1 .. (n - 2) : frames'[i] = frames[i]
  BY Resuming DEF StackShape
<1>2. UNCHANGED session
  BY DEF Resume
<1>3. ASSUME NEW i \in 1 .. (n - 1) PROVE OrderSound(frames'[i])
  <2>1. i = n - 1 \/ i \in 1 .. (n - 2)
    BY <1>1
  <2> QED
    BY <1>1, <2>1 DEF Orders
<1>4. ASSUME NEW i \in 1 .. (n - 1), i # 1 PROVE PlannedBy(frames'[i - 1], frames'[i])
  <2>0. i \in 1 .. n /\ i - 1 \in 1 .. (n - 2) /\ (i = n - 1 \/ i \in 1 .. (n - 2))
    BY <1>1, <1>4
  <2>1. PlannedBy(frames[i - 1], frames[i])
    BY <1>4, <2>0 DEF Orders
  <2>2. CASE i = n - 1
    <3>1. frames'[i - 1] = frames[i - 1] /\ frames'[i] = f /\ frames[i] = Caller
      BY <1>1, <2>0, <2>2 DEF Caller
    <3> QED
      BY <2>1, <3>1 DEF PlannedBy
  <2> QED
    BY <1>1, <2>0, <2>1, <2>2
<1> QED
  BY <1>1, <1>2, <1>3, <1>4, OrdersCarried

LEMMA OrdersStep ==
  ASSUME StackShape, Loading, Orders, [Next]_vars
  PROVE  Orders'
<1>1. CASE Starts
  <2>1. PICK args, cwd : frames' = <<QueryCall(SessionContext, args, cwd)>> /\ UNCHANGED session
    BY <1>1 DEF Starts
  <2>2. PICK f : f = QueryCall(SessionContext, args, cwd)
    OBVIOUS
  <2>3. f.kind = "query" /\ f.stage = "open" /\ f.planned = <<>>
    BY <2>2, SessionFacts, QueryCallFacts
  <2>4. OrderSound(f)
    BY <2>3 DEF OrderSound, Ordered
  <2>5. Len(frames') = 1 /\ frames'[1] = f
    BY <2>1, <2>2
  <2> QED
    BY <2>1, <2>4, <2>5, OrdersCarried
<1>2. CASE Ends
  BY <1>2 DEF Ends, Orders
<1>3. CASE Waits
  <2>1. CASE UNCHANGED frames /\ UNCHANGED session
    BY <2>1, OrdersCarried DEF Orders
  <2>2. CASE UNCHANGED frames /\ frames = <<>>
    BY <2>2 DEF Orders
  <2> QED
    BY <1>3, <2>1, <2>2 DEF Waits
<1>4. CASE frames # <<>> /\ Step
  <2> USE <1>4
  <2>1. FrameShape(Top) /\ CallerShape(Len(frames)) /\ Len(frames) \in Nat \ {0}
    BY TopShape
  <2>2. OrderSound(Top)
    BY <2>1 DEF Orders, Top
  <2>3. CASE QueryGoesOn
    <3>1. QueryAction /\ Top.kind = "query"
      BY <2>3 DEF QueryGoesOn
    <3>2. GraphShape(graph, world.disk)
      BY LoadedShape DEF StackShape
    <3>3. GoesInOrder
      BY <3>1, <3>2, QueryOrdered
    <3> QED
      BY <1>2, <3>1, <3>3, BecomeOrders DEF GoesInOrder
  <2>4. CASE TaskMoves \/ TaskEmits
    <3>1. PICK f : TaskGoesOn(f)
      BY <2>4 DEF TaskMoves, TaskEmits
    <3>2. f.kind = "task" /\ f.id = Top.id /\ Become(f) /\ Top.kind = "task"
      BY <3>1 DEF TaskGoesOn, SameTaskFrame
    <3> QED
      BY <3>2, BecomeOrders DEF OrderSound
  <2>5. ASSUME NEW f, SameCaller(f)
        PROVE  OrderSound(f) /\ f.kind = Top.kind /\ (f.kind = "task" => f.id = Top.id)
    BY <2>2, <2>5 DEF SameCaller, SameTaskFrame, OrderSound
  <2>6. CASE CallsTask
    <3>1. PICK f, id, ctx, hooks :
            /\ Call(f, TaskCall(id, ctx, hooks)) /\ SameCaller(f) /\ Passed(id, ctx, hooks)
            /\ DOMAIN ctx = ContextFields /\ ctx.calls = Top.ctx.calls
      BY <2>6 DEF CallsTask
    <3>2. PICK g : g = TaskCall(id, ctx, hooks)
      OBVIOUS
    <3>3. g.kind = "task" /\ g.id = id
      BY <2>1, <3>1, <3>2, TaskCallFacts DEF FrameShape, ContextShape
    <3>4. OrderSound(g) /\ PlannedBy(f, g)
      BY <3>1, <3>3 DEF OrderSound, PlannedBy, SameCaller, SameTaskFrame, Passed
    <3>5. Call(f, g)
      BY <3>1, <3>2
    <3> QED
      BY <2>5, <3>1, <3>4, <3>5, CallOrders
  <2>7. CASE CallsQuery
    <3>1. PICK f, args, cwd : /\ Call(f, QueryCall(StepContext, args, cwd)) /\ Top.kind = "task"
                              /\ SameTaskFrame(f) /\ f.items = Top.items
      BY <2>7 DEF CallsQuery
    <3>2. PICK g : g = QueryCall(StepContext, args, cwd)
      OBVIOUS
    <3>3. g.kind = "query" /\ g.stage = "open" /\ g.planned = <<>>
      BY <2>1, <3>2, StepContextShape, QueryCallFacts DEF FrameShape
    <3>4. OrderSound(g) /\ PlannedBy(f, g)
      BY <3>3 DEF OrderSound, Ordered, PlannedBy
    <3>5. Call(f, g) /\ SameCaller(f)
      BY <3>1, <3>2 DEF SameCaller
    <3> QED
      BY <2>5, <3>4, <3>5, CallOrders
  <2>8. ASSUME Len(frames) > 1
        PROVE  FrameShape(Caller) /\ OrderSound(Caller) /\ PlannedBy(Caller, Top)
    BY <2>1, <2>8 DEF StackShape, Orders, Caller, Top
  <2>9. CASE TaskReturns
    <3>1. Len(frames) > 1 /\ Top.kind = "task"
      BY <2>1, <2>9, CallerOf DEF TaskReturns
    <3>2. CASE Caller.kind = "query"
      <4>1. PICK more : more = Over(Only(Top.id, Top.items), Caller.planned)
        OBVIOUS
      <4>2. PICK f : f = [Caller EXCEPT !.planned = more]
        OBVIOUS
      <4>3. Resume(f)
        BY <2>9, <3>2, <4>1, <4>2 DEF TaskReturns
      <4>4. /\ f.kind = "query" /\ f.query = Caller.query /\ f.stage = Caller.stage
            /\ f.tasks = Caller.tasks /\ f.pruned = Caller.pruned /\ f.planned = more
        BY <2>8, <3>1, <3>2, <4>2 DEF FrameShape, QueryFields
      <4>5. DOMAIN more = (DOMAIN Caller.planned) \cup {Top.id}
        BY <4>1 DEF Over, Only
      <4>6. Caller.stage = "plan" /\ Top.id \in (DOMAIN Caller.tasks) \ {Caller.pruned}
        BY <2>8, <3>1, <3>2 DEF PlannedBy
      <4>7. Ordered(graph, world.disk, Caller)
        BY <2>8, <3>1, <3>2 DEF OrderSound
      <4>8. OrderSound(f)
        BY <4>4, <4>5, <4>6, <4>7 DEF OrderSound, Ordered
      <4> QED
        BY <3>1, <3>2, <4>3, <4>4, <4>8, ResumeOrders
    <3>3. CASE Caller.kind # "query"
      <4>1. PICK f : f = [Caller EXCEPT !.items = @ \o Top.items]
        OBVIOUS
      <4>2. Resume(f)
        BY <2>9, <3>3, <4>1 DEF TaskReturns
      <4>3. Caller.kind = "task"
        BY <2>8, <3>1, <3>3 DEF FrameShape
      <4>4. f.kind = "task" /\ f.id = Caller.id
        BY <2>8, <3>1, <4>1, <4>3 DEF FrameShape, TaskFields
      <4> QED
        BY <3>1, <4>2, <4>3, <4>4, ResumeOrders DEF OrderSound
    <3> QED
      BY <3>2, <3>3
  <2>10. CASE QueryReturns
    <3>1. Len(frames) > 1 /\ Caller.kind = "task"
      BY <2>1, <2>10, CallerOf DEF QueryReturns
    <3>2. PICK item : item.kind = "expanded" /\ Resume([Caller EXCEPT !.items = Append(@, item)])
      BY <2>10 DEF QueryReturns
    <3>3. PICK f : f = [Caller EXCEPT !.items = Append(@, item)]
      OBVIOUS
    <3>4. f.kind = "task" /\ f.id = Caller.id
      BY <2>8, <3>1, <3>3 DEF FrameShape, TaskFields
    <3> QED
      BY <3>1, <3>2, <3>3, <3>4, ResumeOrders DEF OrderSound
  <2> QED
    BY <1>1, <1>2, <1>3, <2>3, <2>4, <2>6, <2>7, <2>9, <2>10 DEF Step
<1> QED
  BY <1>1, <1>2, <1>3, <1>4, Steps

(* What the property asks of a query, in the words of the proof. *)
LEMMA WantedIs ==
  ASSUME NEW f
  PROVE  /\ Wanted(f).nodes = WantedIds(graph, world.disk, f.query)
         /\ Wanted(f).order = OrderOf(graph, world.disk, f.query)
BY Zenon DEF Wanted, WantedIds, OrderOf, AskedIds, Having, Selection, Explicit, TaskIds, DependsOnOf, Induced

(* The tasks of a query and the order it gives them are what its packages and
   `dependsOn` ask for, in any workspace: whichever way the packages without the
   task are taken out, however the dependencies are followed, and past the task
   that is pruned (resolve_package_query, query_tasks, plan_query_request). *)
THEOREM OrderIsKept == Spec => []OrderKept
<1>1. Init => Orders /\ Loading
  BY EmptySeq DEF Init, Orders, Loading
<1>2. StackShape /\ Loading /\ Orders /\ [Next]_vars => Loading' /\ Orders'
  BY LoadingStep, OrdersStep
<1>3. ASSUME StackShape, Loading, Orders PROVE OrderKept
  <2>1. DOMAIN frames = 1 .. Len(frames)
    BY <1>3, ListFacts DEF StackShape, IsList
  <2>2. ASSUME NEW i \in DOMAIN frames, frames[i].kind = "query", frames[i].stage = "wired"
        PROVE  LET due == Wanted(frames[i])
                   kept == due.nodes \ {frames[i].pruned}
               IN /\ DOMAIN frames[i].planned = kept
                  /\ frames[i].edges =
                       IF frames[i].args.parallel THEN {}
                       ELSE {e \in kept \X kept : e[2] \in Passing(due.order, e[1], {frames[i].pruned})}
    <3> PICK f : f = frames[i]
      OBVIOUS
    <3>1. Ordered(graph, world.disk, f)
      BY <1>3, <2>1, <2>2 DEF Orders, OrderSound
    <3>2. GraphShape(graph, world.disk)
      <4>1. frames # <<>>
        BY <2>1
      <4> QED
        BY <1>3, <4>1, LoadedShape DEF StackShape
    <3>3. DOMAIN f.tasks = WantedIds(graph, world.disk, f.query)
      BY <2>2, <3>1, <3>2, FoundAll DEF Ordered
    <3>4. DOMAIN f.planned = Wanted(f).nodes \ {f.pruned}
      BY <2>2, <3>1, <3>3, WantedIs DEF Ordered
    <3>5. f.edges = IF f.args.parallel THEN {} ELSE InOrder(graph, world.disk, f.query, DOMAIN f.planned, f.pruned)
      BY <2>2, <3>1 DEF Ordered
    <3>6. OrderOf(graph, world.disk, f.query) = Wanted(f).order
      BY WantedIs
    <3> QED
      BY <3>4, <3>5, <3>6, Zenon DEF InOrder
  <2> QED
    BY <2>2 DEF OrderKept
<1> QED
  BY <1>1, <1>2, <1>3, PlanStack, PTL DEF Spec
-----------------------------------------------------------------------------
(* The task graph in its lazy form, for any graph, partitioning and number of
   readers.  What the readers do agrees with the permits they hold and the cells
   that are filled. *)

USE LazyAssumption

LazyTypeOK ==
  /\ present \subseteq Known
  /\ permit \in [Cells -> Readers \cup {Nobody}]
  /\ loads \in [Partitions -> Nat]
  /\ reading \in [Readers -> {"idle", "partition", "edges", "load"}]
  /\ wanted \in [Readers -> Keys]
  /\ resolved \in [Readers -> Nat]

(* A partition has been loaded as often as its cell has been filled. *)
LoadFills == \A p \in Partitions : loads[p] = IF [partition |-> p] \in filled THEN 1 ELSE 0

(* Who loads holds the permit of a cell that is not filled. *)
LoaderAlone(r) ==
  reading[r] = "load" => permit[PartitionCell(r)] = r /\ PartitionCell(r) \notin filled

(* What a reader has resolved so far is there. *)
ResolvedPresent(r) ==
  /\ Resolving(r) =>
       /\ resolved[r] < Len(Targets[wanted[r]])
       /\ \A i \in 1 .. resolved[r] : Targets[wanted[r]][i] \in present
  /\ ~Resolving(r) => resolved[r] = 0

(* A reader that is idle holds no permit. *)
IdleHoldsNothing(r) == reading[r] = "idle" => \A c \in Cells : permit[c] # r

(* A reader holds the permits of the node it wants and of the partition it
   loads, and no other. *)
HoldsWhatItReads(r) ==
  \A c \in Cells : permit[c] = r =>
    \/ wanted[r] \in Known /\ c = EdgesCell(r)
    \/ reading[r] = "load" /\ c = PartitionCell(r)

(* A reader that waits for edges does not hold them. *)
WaitsForOthers(r) == reading[r] = "edges" => wanted[r] \in Known /\ ~Resolving(r)

LazyIInv ==
  /\ LazyTypeOK /\ LoadFills /\ HandedOutLoaded
  /\ \A r \in Readers :
       /\ LoaderAlone(r) /\ ResolvedPresent(r) /\ IdleHoldsNothing(r)
       /\ HoldsWhatItReads(r) /\ WaitsForOthers(r)

-----------------------------------------------------------------------------
(* Cells. *)

LEMMA CellsApart ==
  ASSUME NEW p, NEW n
  PROVE  [partition |-> p] # [node |-> n]
OBVIOUS

LEMMA CellsDistinct ==
  ASSUME NEW x, NEW y
  PROVE  /\ [partition |-> x] = [partition |-> y] => x = y
         /\ [node |-> x] = [node |-> y] => x = y
OBVIOUS

LEMMA NodeCell ==
  ASSUME NEW n \in Known
  PROVE  [node |-> n] \in Cells
BY DEF Cells

(* The key a reader needs next is a key, and its partition has a cell. *)
LEMMA NeededType ==
  ASSUME LazyTypeOK, NEW r \in Readers, ResolvedPresent(r)
  PROVE  /\ Needed(r) \in Keys
         /\ PartitionOf[Needed(r)] \in Partitions
         /\ PartitionCell(r) \in Cells
         /\ PartitionCell(r) = [partition |-> PartitionOf[Needed(r)]]
<1>1. Needed(r) \in Keys
  <2>1. CASE Resolving(r)
    <3>1. Targets[wanted[r]] \in Seq(Known)
      BY <2>1 DEF Resolving
    <3>2. resolved[r] + 1 \in 1 .. Len(Targets[wanted[r]])
      BY <2>1, <3>1 DEF LazyTypeOK, ResolvedPresent
    <3>3. Targets[wanted[r]][resolved[r] + 1] \in Known
      BY <3>1, <3>2, ElementOfSeq
    <3> QED
      BY <2>1, <3>3 DEF Needed
  <2>2. CASE ~Resolving(r)
    BY <2>2 DEF Needed, LazyTypeOK
  <2> QED
    BY <2>1, <2>2
<1> QED
  BY <1>1 DEF Partitions, PartitionCell, Cells

-----------------------------------------------------------------------------
(* What a step of reader r leaves to reader u. *)

StepOf(r) ==
  /\ \A c \in Cells : \/ permit'[c] = permit[c]
                      \/ permit[c] \in {r, Nobody} /\ permit'[c] \in {r, Nobody}
  /\ \A c \in Cells : c \in filled' => c \in filled \/ permit[c] \in {r, Nobody}
  /\ present \subseteq present'
  /\ \A u \in Readers \ {r} :
       reading'[u] = reading[u] /\ wanted'[u] = wanted[u] /\ resolved'[u] = resolved[u]

ReaderOK(r) ==
  /\ LoaderAlone(r) /\ ResolvedPresent(r) /\ IdleHoldsNothing(r)
  /\ HoldsWhatItReads(r) /\ WaitsForOthers(r)

LEMMA OthersKeep ==
  ASSUME LazyIInv, NEW r \in Readers, StepOf(r), NEW u \in Readers, u # r
  PROVE  ReaderOK(u)'
<1>1. /\ LazyTypeOK /\ ReaderOK(u) /\ u # Nobody
      /\ reading'[u] = reading[u] /\ wanted'[u] = wanted[u] /\ resolved'[u] = resolved[u]
  BY DEF LazyIInv, ReaderOK, StepOf
<1>2. \A c \in Cells : permit'[c] = u <=> permit[c] = u
  BY <1>1 DEF StepOf
<1>3. \A c \in Cells : permit[c] = u /\ c \notin filled => c \notin filled'
  BY <1>1 DEF StepOf
<1>4. Resolving(u)' <=> Resolving(u)
  BY <1>1, <1>2, NodeCell DEF Resolving, EdgesCell
<1>5. Needed(u)' = Needed(u)
  BY <1>1, <1>4 DEF Needed
<1>6. PartitionCell(u)' = PartitionCell(u) /\ EdgesCell(u)' = EdgesCell(u)
  BY <1>1, <1>5 DEF PartitionCell, EdgesCell
<1>7. PartitionCell(u) \in Cells
  BY <1>1, NeededType DEF ReaderOK
<1>8. LoaderAlone(u)'
  BY <1>1, <1>2, <1>3, <1>6, <1>7 DEF ReaderOK, LoaderAlone
<1>9. ResolvedPresent(u)'
  BY <1>1, <1>4 DEF ReaderOK, ResolvedPresent, StepOf
<1>10. IdleHoldsNothing(u)'
  BY <1>1, <1>2 DEF ReaderOK, IdleHoldsNothing
<1>11. HoldsWhatItReads(u)'
  BY <1>1, <1>2, <1>6 DEF ReaderOK, HoldsWhatItReads
<1>12. WaitsForOthers(u)'
  BY <1>1, <1>4 DEF ReaderOK, WaitsForOthers
<1> QED
  BY <1>8, <1>9, <1>10, <1>11, <1>12 DEF ReaderOK

-----------------------------------------------------------------------------
(* What reader r's own steps do to the graph and to r. *)

Good(r) == LazyTypeOK' /\ LoadFills' /\ HandedOutLoaded' /\ StepOf(r) /\ ReaderOK(r)'

(* Who is idle holds nothing, so it resolves nothing. *)
LEMMA NeighborsStep ==
  ASSUME LazyIInv, NEW r \in Readers, NEW k \in Keys, Neighbors(r, k)
  PROVE  Good(r)
<1>1. /\ LazyTypeOK /\ LoadFills /\ HandedOutLoaded /\ ReaderOK(r) /\ reading[r] = "idle"
      /\ wanted' = [wanted EXCEPT ![r] = k] /\ reading' = [reading EXCEPT ![r] = "partition"]
      /\ UNCHANGED <<present, filled, permit, loads, resolved>>
  BY DEF LazyIInv, ReaderOK, Neighbors, Arrives
<1>2. LazyTypeOK' /\ LoadFills' /\ HandedOutLoaded' /\ StepOf(r)
  BY <1>1 DEF LazyTypeOK, LoadFills, HandedOutLoaded, StepOf
<1>3. \A c \in Cells : permit[c] # r
  BY <1>1 DEF ReaderOK, IdleHoldsNothing
<1>4. ~Resolving(r) /\ ~Resolving(r)'
  BY <1>1, <1>3, NodeCell DEF Resolving, EdgesCell
<1>5. reading'[r] = "partition"
  BY <1>1 DEF LazyTypeOK
<1> QED
  BY <1>1, <1>2, <1>3, <1>4, <1>5
     DEF Good, ReaderOK, LoaderAlone, ResolvedPresent, IdleHoldsNothing, HoldsWhatItReads,
         WaitsForOthers

(* The permit of the partition's cell goes to the reader. *)
LEMMA BeginLoadStep ==
  ASSUME LazyIInv, NEW r \in Readers, BeginLoad(r)
  PROVE  Good(r)
<1> DEFINE c == PartitionCell(r)
<1>1. /\ LazyTypeOK /\ LoadFills /\ HandedOutLoaded /\ ReaderOK(r)
      /\ reading[r] = "partition" /\ c \notin filled /\ permit[c] = Nobody
      /\ permit' = [permit EXCEPT ![c] = r] /\ reading' = [reading EXCEPT ![r] = "load"]
      /\ UNCHANGED <<present, filled, loads, wanted, resolved>>
  BY DEF LazyIInv, ReaderOK, BeginLoad, MayInitialise, Awaited, Departs
<1>2. c \in Cells /\ c = [partition |-> PartitionOf[Needed(r)]]
  BY <1>1, NeededType DEF ReaderOK
<1>3. \A d \in Cells : permit'[d] = IF d = c THEN r ELSE permit[d]
  BY <1>1, <1>2 DEF LazyTypeOK
<1>4. LazyTypeOK' /\ LoadFills' /\ HandedOutLoaded'
  BY <1>1, <1>2 DEF LazyTypeOK, LoadFills, HandedOutLoaded
<1>5. StepOf(r)
  BY <1>1, <1>3 DEF StepOf, LazyTypeOK
<1>6. \A n : [node |-> n] # c
  BY <1>2, CellsApart
<1>7. Resolving(r)' <=> Resolving(r)
  BY <1>1, <1>3, <1>6, NodeCell DEF Resolving, EdgesCell
<1>8. PartitionCell(r)' = c
  BY <1>1, <1>7 DEF PartitionCell, Needed
<1>9. reading'[r] = "load"
  BY <1>1 DEF LazyTypeOK
<1> QED
  BY <1>1, <1>2, <1>3, <1>4, <1>5, <1>7, <1>8, <1>9
     DEF Good, ReaderOK, LoaderAlone, ResolvedPresent, IdleHoldsNothing, HoldsWhatItReads,
         WaitsForOthers, EdgesCell

(* The partition's nodes go in, and its cell is filled for the first time. *)
LEMMA LoadedStep ==
  ASSUME LazyIInv, NEW r \in Readers, Loaded(r)
  PROVE  Good(r)
<1> DEFINE c == PartitionCell(r)
<1> DEFINE p == PartitionOf[Needed(r)]
<1>1. /\ LazyTypeOK /\ LoadFills /\ HandedOutLoaded /\ ReaderOK(r) /\ reading[r] = "load"
      /\ present' = present \cup {n \in Known : PartitionOf[n] = p}
      /\ filled' = filled \cup {c}
      /\ permit' = [permit EXCEPT ![c] = Nobody]
      /\ loads' = [loads EXCEPT ![p] = @ + 1]
      /\ reading' = [reading EXCEPT ![r] = "partition"]
      /\ UNCHANGED <<wanted, resolved>>
  BY DEF LazyIInv, ReaderOK, Loaded, Arrives
<1>2. c \in Cells /\ c = [partition |-> p] /\ p \in Partitions
  BY <1>1, NeededType DEF ReaderOK
<1>3. permit[c] = r /\ c \notin filled
  BY <1>1 DEF ReaderOK, LoaderAlone
<1>4. \A d \in Cells : permit'[d] = IF d = c THEN Nobody ELSE permit[d]
  BY <1>1, <1>2 DEF LazyTypeOK
<1>5. \A n : [node |-> n] # c
  BY <1>2, CellsApart
<1>6. LazyTypeOK'
  <2>1. loads' \in [Partitions -> Nat] /\ present' \subseteq Known
    BY <1>1, <1>2 DEF LazyTypeOK
  <2> QED
    BY <1>1, <1>2, <2>1 DEF LazyTypeOK
<1>7. LoadFills'
  <2>1. ASSUME NEW q \in Partitions
        PROVE  loads'[q] = IF [partition |-> q] \in filled' THEN 1 ELSE 0
    <3>1. CASE q = p
      <4>1. loads[p] = 0 /\ loads'[p] = loads[p] + 1
        BY <1>1, <1>2, <1>3 DEF LoadFills, LazyTypeOK
      <4> QED
        BY <1>1, <1>2, <3>1, <4>1
    <3>2. CASE q # p
      <4>1. [partition |-> q] # c
        BY <1>2, <3>2, CellsDistinct
      <4>2. loads'[q] = loads[q]
        BY <1>1, <3>2 DEF LazyTypeOK
      <4> QED
        BY <1>1, <4>1, <4>2 DEF LoadFills
    <3> QED
      BY <3>1, <3>2
  <2> QED
    BY <2>1 DEF LoadFills
<1>8. HandedOutLoaded'
  <2>1. ASSUME NEW n \in Known, [node |-> n] \in filled'
        PROVE  \A i \in DOMAIN Targets[n] : Targets[n][i] \in present'
    BY <1>1, <1>5, <2>1 DEF HandedOutLoaded
  <2>2. ASSUME NEW n \in Known, [partition |-> PartitionOf[n]] \in filled'
        PROVE  n \in present'
    <3>1. CASE [partition |-> PartitionOf[n]] \in filled
      BY <1>1, <3>1 DEF HandedOutLoaded
    <3>2. CASE [partition |-> PartitionOf[n]] = c
      BY <1>1, <1>2, <3>2, CellsDistinct
    <3> QED
      BY <1>1, <2>2, <3>1, <3>2
  <2> QED
    BY <2>1, <2>2 DEF HandedOutLoaded
<1>9. StepOf(r)
  BY <1>1, <1>3, <1>4 DEF StepOf, LazyTypeOK
<1>10. Resolving(r)' <=> Resolving(r)
  BY <1>1, <1>4, <1>5, NodeCell DEF Resolving, EdgesCell
<1>11. reading'[r] = "partition"
  BY <1>1 DEF LazyTypeOK
<1>12. ResolvedPresent(r)'
  BY <1>1, <1>10 DEF ReaderOK, ResolvedPresent
<1>13. HoldsWhatItReads(r)'
  BY <1>1, <1>4 DEF ReaderOK, HoldsWhatItReads, EdgesCell
<1> QED
  BY <1>6, <1>7, <1>8, <1>9, <1>11, <1>12, <1>13
     DEF Good, ReaderOK, LoaderAlone, IdleHoldsNothing, WaitsForOthers

(* A load that fails, and a future that is dropped, give every permit back. *)
LEMMA GiveUpStep ==
  ASSUME LazyIInv, NEW r \in Readers, GiveUp(r)
  PROVE  Good(r)
<1>1. /\ LazyTypeOK /\ LoadFills /\ HandedOutLoaded /\ ReaderOK(r)
      /\ permit' = [c \in Cells |-> IF permit[c] = r THEN Nobody ELSE permit[c]]
      /\ reading' = [reading EXCEPT ![r] = "idle"]
      /\ resolved' = [resolved EXCEPT ![r] = 0]
      /\ UNCHANGED <<present, filled, loads, wanted>>
  BY DEF LazyIInv, ReaderOK, GiveUp, ReleaseAll, Departs
<1>2. \A c \in Cells : permit'[c] = IF permit[c] = r THEN Nobody ELSE permit[c]
  BY <1>1
<1>3. LazyTypeOK' /\ LoadFills' /\ HandedOutLoaded'
  BY <1>1 DEF LazyTypeOK, LoadFills, HandedOutLoaded
<1>4. StepOf(r)
  BY <1>1, <1>2 DEF StepOf, LazyTypeOK
<1>5. \A c \in Cells : permit'[c] # r
  BY <1>2
<1>6. ~Resolving(r)' /\ reading'[r] = "idle" /\ resolved'[r] = 0
  BY <1>1, <1>5, NodeCell DEF Resolving, EdgesCell, LazyTypeOK
<1> QED
  BY <1>3, <1>4, <1>5, <1>6
     DEF Good, ReaderOK, LoaderAlone, ResolvedPresent, IdleHoldsNothing, HoldsWhatItReads,
         WaitsForOthers

(* A reader that only goes on, or is done, holds no permit. *)
LEMMA PlainSteps ==
  ASSUME LazyIInv, NEW r \in Readers, NoSuchNode(r) \/ GoToEdges(r) \/ HandOut(r)
  PROVE  Good(r)
<1>1. /\ LazyTypeOK /\ LoadFills /\ HandedOutLoaded /\ ReaderOK(r)
      /\ reading[r] # "load" /\ ~Resolving(r)
      /\ UNCHANGED <<present, filled, permit, loads, wanted, resolved>>
  BY DEF LazyIInv, ReaderOK, NoSuchNode, GoToEdges, HandOut, PartitionReady, WaitsForOthers
<1>2. \/ reading' = [reading EXCEPT ![r] = "idle"]
      \/ reading' = [reading EXCEPT ![r] = "edges"] /\ wanted[r] \in Known
  BY <1>1 DEF NoSuchNode, GoToEdges, HandOut, Arrives, Departs, LazyTypeOK
<1>3. LazyTypeOK' /\ LoadFills' /\ HandedOutLoaded' /\ StepOf(r)
  BY <1>1, <1>2 DEF LazyTypeOK, LoadFills, HandedOutLoaded, StepOf
<1>4. \A c \in Cells : permit[c] # r
  BY <1>1 DEF ReaderOK, HoldsWhatItReads, Resolving
<1>5. ~Resolving(r)'
  BY <1>1 DEF Resolving, EdgesCell
<1>6. reading'[r] \in {"idle", "edges"} /\ (reading'[r] = "edges" => wanted[r] \in Known)
  BY <1>1, <1>2 DEF LazyTypeOK
<1> QED
  BY <1>1, <1>3, <1>4, <1>5, <1>6
     DEF Good, ReaderOK, LoaderAlone, ResolvedPresent, IdleHoldsNothing, HoldsWhatItReads,
         WaitsForOthers

(* The edges of a node are filled in when each of them is there. *)
LEMMA FillEdgesStep ==
  ASSUME LazyIInv, NEW r \in Readers, FillEdges(r), UNCHANGED <<present, loads, wanted>>,
         wanted[r] \in Known, permit[EdgesCell(r)] \in {r, Nobody}, reading[r] # "load",
         \A i \in DOMAIN Targets[wanted[r]] : Targets[wanted[r]][i] \in present
  PROVE  Good(r)
<1> DEFINE c == EdgesCell(r)
<1>1. /\ LazyTypeOK /\ LoadFills /\ HandedOutLoaded /\ ReaderOK(r)
      /\ filled' = filled \cup {c}
      /\ permit' = [permit EXCEPT ![c] = Nobody]
      /\ resolved' = [resolved EXCEPT ![r] = 0]
      /\ reading' = [reading EXCEPT ![r] = "edges"]
  BY DEF LazyIInv, ReaderOK, FillEdges, Arrives
<1>2. c \in Cells /\ c = [node |-> wanted[r]]
  BY NodeCell DEF EdgesCell
<1>3. \A d \in Cells : permit'[d] = IF d = c THEN Nobody ELSE permit[d]
  BY <1>1, <1>2 DEF LazyTypeOK
<1>4. LazyTypeOK'
  BY <1>1, <1>2 DEF LazyTypeOK
<1>5. LoadFills'
  BY <1>1, <1>2, CellsApart DEF LoadFills
<1>6. HandedOutLoaded'
  BY <1>1, <1>2, CellsApart, CellsDistinct DEF HandedOutLoaded
<1>7. StepOf(r)
  BY <1>1, <1>3 DEF StepOf, LazyTypeOK
<1>8. ~Resolving(r)' /\ reading'[r] = "edges" /\ resolved'[r] = 0
  BY <1>1, <1>2, <1>3 DEF Resolving, EdgesCell, LazyTypeOK
<1>9. \A d \in Cells : permit'[d] # r
  BY <1>1, <1>3 DEF ReaderOK, HoldsWhatItReads
<1> QED
  BY <1>4, <1>5, <1>6, <1>7, <1>8, <1>9
     DEF Good, ReaderOK, LoaderAlone, ResolvedPresent, IdleHoldsNothing, HoldsWhatItReads,
         WaitsForOthers

(* The first reader at a node's edges resolves them. *)
LEMMA BeginResolveStep ==
  ASSUME LazyIInv, NEW r \in Readers, BeginResolve(r)
  PROVE  Good(r)
<1> DEFINE c == EdgesCell(r)
<1>1. /\ LazyTypeOK /\ LoadFills /\ HandedOutLoaded /\ ReaderOK(r)
      /\ reading[r] = "edges" /\ wanted[r] \in Known /\ ~Resolving(r)
      /\ c \notin filled /\ permit[c] = Nobody /\ UNCHANGED <<present, loads, wanted>>
  BY DEF LazyIInv, ReaderOK, BeginResolve, MayInitialise, Awaited, WaitsForOthers
<1>2. CASE Targets[wanted[r]] = <<>>
  <2>1. FillEdges(r)
    BY <1>2 DEF BeginResolve
  <2>2. \A i \in DOMAIN Targets[wanted[r]] : Targets[wanted[r]][i] \in present
    BY <1>2
  <2> QED
    BY <1>1, <2>1, <2>2, FillEdgesStep
<1>3. CASE Targets[wanted[r]] # <<>>
  <2>1. /\ permit' = [permit EXCEPT ![c] = r]
        /\ reading' = [reading EXCEPT ![r] = "partition"]
        /\ UNCHANGED <<filled, resolved>>
    BY <1>3 DEF BeginResolve, Arrives
  <2>2. c \in Cells
    BY <1>1, NodeCell DEF EdgesCell
  <2>3. \A d \in Cells : permit'[d] = IF d = c THEN r ELSE permit[d]
    BY <1>1, <2>1, <2>2 DEF LazyTypeOK
  <2>4. LazyTypeOK' /\ LoadFills' /\ HandedOutLoaded'
    BY <1>1, <2>1, <2>2 DEF LazyTypeOK, LoadFills, HandedOutLoaded
  <2>5. StepOf(r)
    BY <1>1, <2>1, <2>3 DEF StepOf, LazyTypeOK
  <2>6. resolved[r] = 0 /\ Len(Targets[wanted[r]]) > 0
    <3>1. Targets[wanted[r]] \in Seq(Known)
      BY <1>1
    <3>2. Len(Targets[wanted[r]]) \in Nat /\ Len(Targets[wanted[r]]) # 0
      BY <1>3, <3>1, EmptySeq
    <3> QED
      BY <1>1, <3>2 DEF ReaderOK, ResolvedPresent
  <2>7. reading'[r] = "partition" /\ Resolving(r)'
    BY <1>1, <2>1, <2>2, <2>3 DEF LazyTypeOK, Resolving, EdgesCell
  <2>8. ResolvedPresent(r)'
    BY <1>1, <2>1, <2>6, <2>7 DEF ResolvedPresent
  <2>9. HoldsWhatItReads(r)'
    BY <1>1, <2>3 DEF ReaderOK, HoldsWhatItReads, EdgesCell
  <2> QED
    BY <2>4, <2>5, <2>7, <2>8, <2>9
       DEF Good, ReaderOK, LoaderAlone, IdleHoldsNothing, WaitsForOthers
<1> QED
  BY <1>2, <1>3

(* One more target is there. *)
LEMMA TargetFoundStep ==
  ASSUME LazyIInv, NEW r \in Readers, TargetFound(r)
  PROVE  Good(r)
<1> DEFINE edges == Targets[wanted[r]]
<1>1. /\ LazyTypeOK /\ LoadFills /\ HandedOutLoaded /\ ReaderOK(r)
      /\ reading[r] = "partition" /\ Resolving(r) /\ Needed(r) \in present
      /\ UNCHANGED <<present, loads, wanted>>
  BY DEF LazyIInv, ReaderOK, TargetFound, PartitionReady
<1>2. /\ wanted[r] \in Known /\ permit[EdgesCell(r)] = r /\ edges \in Seq(Known)
      /\ Needed(r) = edges[resolved[r] + 1]
  BY <1>1 DEF Resolving, Needed
<1>3. /\ Len(edges) \in Nat /\ resolved[r] \in Nat /\ resolved[r] < Len(edges)
      /\ DOMAIN edges = 1 .. Len(edges)
  BY <1>1, <1>2, LenProperties DEF ReaderOK, ResolvedPresent, LazyTypeOK
<1>4. \A i \in 1 .. resolved[r] + 1 : edges[i] \in present
  <2>1. \A i \in 1 .. resolved[r] : edges[i] \in present
    BY <1>1 DEF ReaderOK, ResolvedPresent
  <2> QED
    BY <1>1, <1>2, <1>3, <2>1
<1>5. CASE resolved[r] + 1 = Len(edges)
  <2>1. FillEdges(r)
    BY <1>5 DEF TargetFound
  <2> QED
    BY <1>1, <1>2, <1>3, <1>4, <1>5, <2>1, FillEdgesStep
<1>6. CASE resolved[r] + 1 # Len(edges)
  <2>1. /\ resolved' = [resolved EXCEPT ![r] = @ + 1]
        /\ reading' = [reading EXCEPT ![r] = "partition"]
        /\ UNCHANGED <<filled, permit>>
    BY <1>6 DEF TargetFound, Arrives
  <2>2. LazyTypeOK' /\ LoadFills' /\ HandedOutLoaded' /\ StepOf(r)
    BY <1>1, <2>1 DEF LazyTypeOK, LoadFills, HandedOutLoaded, StepOf
  <2>3. /\ Resolving(r)' /\ reading'[r] = "partition" /\ wanted'[r] = wanted[r]
        /\ resolved'[r] = resolved[r] + 1
    BY <1>1, <2>1 DEF Resolving, EdgesCell, LazyTypeOK
  <2>4. ResolvedPresent(r)'
    BY <1>1, <1>3, <1>4, <1>6, <2>3 DEF ResolvedPresent
  <2>5. HoldsWhatItReads(r)'
    BY <1>1, <2>1 DEF ReaderOK, HoldsWhatItReads, EdgesCell
  <2> QED
    BY <2>2, <2>3, <2>4, <2>5
       DEF Good, ReaderOK, LoaderAlone, IdleHoldsNothing, WaitsForOthers
<1> QED
  BY <1>5, <1>6

-----------------------------------------------------------------------------
(* The theorems. *)

(* The conjunction of these parts is inductive. *)
THEOREM LazyInvariant == LazySpec => []LazyIInv
<1>1. LazyInit => LazyIInv
  <2> SUFFICES ASSUME LazyInit PROVE LazyIInv
    OBVIOUS
  <2>1. \A r \in Readers : ~Resolving(r)
    BY NodeCell DEF LazyInit, Resolving, EdgesCell
  <2>2. LazyTypeOK
    <3>1. (CHOOSE k \in Keys : TRUE) \in Keys
      OBVIOUS
    <3> QED
      BY <3>1 DEF LazyInit, LazyTypeOK, Cells, Partitions
  <2> QED
    BY <2>1, <2>2 DEF LazyInit, LazyIInv, LoadFills, HandedOutLoaded, LoaderAlone, ResolvedPresent,
       IdleHoldsNothing, HoldsWhatItReads, WaitsForOthers
<1>2. LazyIInv /\ [LazyNext]_lazyVars => LazyIInv'
  <2> SUFFICES ASSUME LazyIInv, [LazyNext]_lazyVars
               PROVE  LazyIInv'
    OBVIOUS
  <2>1. CASE UNCHANGED lazyVars
    BY <2>1 DEF lazyVars, LazyIInv, LazyTypeOK, LoadFills, HandedOutLoaded, LoaderAlone,
       ResolvedPresent, IdleHoldsNothing, HoldsWhatItReads, WaitsForOthers, PartitionCell,
       EdgesCell, Needed, Resolving
  <2>2. ASSUME NEW r \in Readers,
               (\E k \in Keys : Neighbors(r, k)) \/ Proceed(r) \/ DropReader(r)
        PROVE  LazyIInv'
    <3>1. Good(r)
      BY <2>2, NeighborsStep, BeginLoadStep, LoadedStep, GiveUpStep, PlainSteps,
         BeginResolveStep, TargetFoundStep DEF Proceed, LoadFails, DropReader
    <3>2. \A u \in Readers : ReaderOK(u)'
      BY <3>1, OthersKeep DEF Good
    <3> QED
      BY <3>1, <3>2 DEF Good, LazyIInv, ReaderOK
  <2> QED
    BY <2>1, <2>2 DEF LazyNext
<1> QED
  BY <1>1, <1>2, PTL DEF LazySpec

(* No partition is loaded a second time once it has been loaded, and what
   can be handed out is there. *)
THEOREM LoadsOnceAndFirst == LazySpec => []LoadedAndHandedOut
<1>1. LazyIInv => LoadedOnce
  <2> SUFFICES ASSUME LazyIInv, NEW p \in Partitions
               PROVE  loads[p] <= 1
    BY DEF LoadedOnce
  <2>1. loads[p] = 1 \/ loads[p] = 0
    BY DEF LazyIInv, LoadFills
  <2> QED
    BY <2>1
<1>2. LazyIInv => HandedOutLoaded
  BY DEF LazyIInv
<1>3. LazyIInv => LoadedAndHandedOut
  BY <1>1, <1>2 DEF LoadedAndHandedOut
<1> QED
  BY <1>3, LazyInvariant, PTL
=============================================================================
