---------------------------- MODULE WindowsProofs ----------------------------
(***************************************************************************)
(* Proofs about WindowsTracking, for any number of processes, threads and  *)
(* calls, whichever of them fail, are killed or race: no process that a    *)
(* detoured one started runs without the library and its payload, none is  *)
(* left waiting that nobody asked to wait, and what their calls did is     *)
(* recorded before it is done.                                             *)
(*                                                                         *)
(* The argument rests on what a creator is told.  A child of a detoured    *)
(* call is suspended until its creator is told of it, which comes after    *)
(* the payload and the library; a call that goes past the detour is the    *)
(* one by which Detours starts its helper, or is made by a process that    *)
(* has no detours and will not have any, because it has begun to run.      *)
(***************************************************************************)
EXTENDS WindowsTracking, SequenceTheorems, WellFoundedInduction, TLAPS

-----------------------------------------------------------------------------
(* The inductive invariant.                                                *)

States == {"suspended", "running", "exiting", "dead"}
Clients == {"none", "sends", "over"}
Answers == {"pending", "yes", "no"}
Images == {None, <<"image">>, <<"rundll32">>}
Steps == {"called", "created", "prepared", "helping", "unhelped", "loaded"}

ProcessSet ==
  [parent : Pids \cup {None}, image : Images, state : States, asked : BOOLEAN, foreign : BOOLEAN,
   for : Pids \cup {None}, library : BOOLEAN, payload : BOOLEAN, client : Clients,
   hooked : BOOLEAN, told : Answers]

(* What the proofs need of the constants: processes are numbered from 1,   *)
(* None is none, and the shared implementation of CreateProcess has its    *)
(* symbols.                                                                *)
WindowsConstants ==
  /\ 1 \in Pids /\ Pids \subseteq Nat
  /\ None \notin Pids /\ None \notin ProcessSet /\ None # "kernelbase"
  /\ {"CreateProcessW", "CreateProcessA"} \subseteq Exports.kernelbase

Nt(f) == f.step = "nt"

(* A call to CreateProcess that is under way.                              *)
Creations ==
  [step : Steps, child : Pids \cup {None}, detoured : BOOLEAN, asked : BOOLEAN,
   foreign : BOOLEAN, for : Pids \cup {None}]

(* A thread is in no call, in one, or in one whose Detours starts a helper.*)
FramesOK(p, t) ==
  \/ frames[p][t] = <<>>
  \/ \E f : frames[p][t] = <<f>> /\ (Nt(f) \/ f \in Creations)
  \/ \E f, g \in Creations :
       /\ frames[p][t] = <<f, g>>
       /\ f.step = "helping"
       /\ g.step = "called" /\ g.child = None /\ ~g.detoured /\ g.for # None

Runners == {"idle", "spawned", "injected", "prepared", "waiting", "failed", "closed"}

WindowsTypeOK ==
  /\ runner \in Runners
  /\ DOMAIN procs = Pids
  /\ \A c \in Pids : procs[c] # None => procs[c] \in ProcessSet
  /\ DOMAIN frames = Pids /\ \A p \in Pids : DOMAIN frames[p] = Threads
  /\ \A p \in Pids, t \in Threads : FramesOK(p, t)
  /\ hooking \in [Pids -> [Threads -> BOOLEAN]]

InCreation(p, t) == frames[p][t] # <<>> /\ ~Nt(frames[p][t][1])

(* The runner's own: the first process waits until it is prepared.         *)
RootHeld ==
  /\ runner = "idle" => \A c \in Pids : procs[c] = None
  /\ runner # "idle" => procs[1] # None /\ procs[1].parent = None /\ procs[1].for = None
  /\ runner \in {"spawned", "injected", "prepared"} =>
       procs[1].told = "pending" /\ procs[1].state = "suspended"
  /\ runner \in {"injected", "prepared", "waiting", "closed"} => procs[1].library
  /\ runner \in {"prepared", "waiting", "closed"} => procs[1].payload
  /\ runner = "failed" => procs[1].state = "dead" /\ procs[1].told = "no"

(* Who has been told nothing of, or of a failure, has never run: it has    *)
(* called nothing and made nothing.                                        *)
Unborn(c) ==
  procs[c].told # "yes" =>
    /\ procs[c].state \in {"suspended", "dead"}
    /\ procs[c].client = "none" /\ ~procs[c].hooked
    /\ \A t \in Threads : frames[c][t] = <<>>
    /\ \A d \in Pids : procs[d] # None => procs[d].parent # c

(* Who has called or made something has been through its library's attach. *)
Begun(c) == procs[c].told = "yes" /\ (procs[c].library => procs[c].client # "none")

(* A process whose creator was told of it is tracked, unless it is a       *)
(* helper or its creator is not; and it waits only if it was asked to.     *)
Raised(c) ==
  /\ procs[c].for # None => ~procs[c].library /\ ~procs[c].payload
  /\ procs[c].told = "yes" /\ procs[c].for = None
       /\ (procs[c].parent = None \/ procs[procs[c].parent].hooked)
       => procs[c].library /\ procs[c].payload
  /\ procs[c].told = "yes" /\ procs[c].state = "suspended" => procs[c].asked
  /\ procs[c].parent = None => c = 1
  /\ procs[c].parent # None =>
       c # 1 /\ procs[procs[c].parent] # None /\ Begun(procs[c].parent)

(* A call under way, and the child that it has made.                       *)
Creating(p, t) ==
  /\ frames[p][t] # <<>> => procs[p] # None /\ Begun(p)
  /\ hooking[p][t] = (InCreation(p, t) /\ frames[p][t][1].detoured)
  /\ InCreation(p, t) =>
       LET f == frames[p][t][1] IN
       /\ f.for = None /\ f.detoured = procs[p].hooked
       /\ f.step # "called" => f.detoured /\ f.child # None
       /\ f.step = "called" => f.child = None
       /\ f.child # None =>
            LET c == f.child IN
            /\ procs[c] # None /\ procs[c].parent = p /\ procs[c].for = None
            /\ procs[c].told = "pending" /\ procs[c].asked = f.asked
            /\ f.step # "created" => procs[c].payload
            /\ f.step = "loaded" => procs[c].library
            /\ \A u \in Threads : InCreation(p, u) /\ frames[p][u][1].child = c => u = t

WindowsIInv ==
  /\ WindowsTypeOK
  /\ RootHeld
  /\ \A c \in Pids : procs[c] # None => Unborn(c) /\ Raised(c)
  /\ \A p \in Pids, t \in Threads : Creating(p, t)

-----------------------------------------------------------------------------
(* Sequences of at most two calls.                                         *)
LEMMA OneCall ==
  ASSUME NEW f
  PROVE  /\ Last(<<f>>) = f /\ Front(<<f>>) = <<>> /\ Append(<<>>, f) = <<f>>
         /\ <<f>> # <<>> /\ <<f>>[1] = f /\ Len(<<f>>) = 1
BY DEF Last, Front

LEMMA TwoCalls ==
  ASSUME NEW f, NEW g
  PROVE  /\ Last(<<f, g>>) = g /\ Front(<<f, g>>) = <<f>> /\ Append(<<f>>, g) = <<f, g>>
         /\ <<f, g>> # <<>> /\ <<f, g>>[1] = f /\ <<f, g>>[2] = g /\ Len(<<f, g>>) = 2
<1>1. /\ <<f, g>> # <<>> /\ <<f, g>>[1] = f /\ <<f, g>>[2] = g /\ Len(<<f, g>>) = 2
      /\ <<f, g>> \in Seq({f, g}) /\ <<f>> \in Seq({f, g}) /\ Len(<<f>>) = 1 /\ <<f>>[1] = f
  OBVIOUS
<1>2. Append(<<f>>, g) = <<f, g>>
  <2>1. /\ Append(<<f>>, g) \in Seq({f, g}) /\ Len(Append(<<f>>, g)) = 2
        /\ Append(<<f>>, g)[1] = f /\ Append(<<f>>, g)[2] = g
    BY <1>1, AppendProperties
  <2>2. \A i \in 1 .. 2 : Append(<<f>>, g)[i] = <<f, g>>[i]
    BY <1>1, <2>1
  <2> QED BY <1>1, <2>1, <2>2, SeqEqual
<1>3. SubSeq(<<f, g>>, 1, 1) = <<f>>
  <2>1. \A i \in 1 .. 1 : <<f, g>>[i] \in {f, g}
    BY <1>1
  <2>2. /\ SubSeq(<<f, g>>, 1, 1) \in Seq({f, g}) /\ Len(SubSeq(<<f, g>>, 1, 1)) = 1
        /\ SubSeq(<<f, g>>, 1, 1)[1] = f
    BY <1>1, <2>1, SubSeqProperties
  <2>3. \A i \in 1 .. 1 : SubSeq(<<f, g>>, 1, 1)[i] = <<f>>[i]
    BY <1>1, <2>2
  <2> QED BY <1>1, <2>2, <2>3, SeqEqual
<1> QED BY <1>1, <1>2, <1>3 DEF Last, Front

(* One thread's calls change.                                              *)
LEMMA CallsSet ==
  ASSUME WindowsTypeOK, NEW p \in Pids, NEW t \in Threads, NEW v,
         frames' = [frames EXCEPT ![p][t] = v]
  PROVE  /\ frames'[p][t] = v
         /\ \A q \in Pids, u \in Threads : q # p \/ u # t => frames'[q][u] = frames[q][u]
         /\ DOMAIN frames' = Pids /\ \A q \in Pids : DOMAIN frames'[q] = Threads
BY DEF WindowsTypeOK

LEMMA HookingSet ==
  ASSUME WindowsTypeOK, NEW p \in Pids, NEW t \in Threads, NEW v \in BOOLEAN,
         hooking' = [hooking EXCEPT ![p][t] = v]
  PROVE  /\ hooking'[p][t] = v
         /\ \A q \in Pids, u \in Threads : q # p \/ u # t => hooking'[q][u] = hooking[q][u]
         /\ hooking' \in [Pids -> [Threads -> BOOLEAN]]
BY DEF WindowsTypeOK

(* One process changes.                                                    *)
LEMMA ProcessSetTo ==
  ASSUME WindowsTypeOK, NEW c \in Pids, NEW x \in ProcessSet, procs' = [procs EXCEPT ![c] = x]
  PROVE  /\ procs'[c] = x /\ \A d \in Pids \ {c} : procs'[d] = procs[d]
         /\ DOMAIN procs' = Pids
         /\ \A d \in Pids : procs'[d] # None => procs'[d] \in ProcessSet
BY DEF WindowsTypeOK

-----------------------------------------------------------------------------
(* What a step keeps that changes the processes of C and the calls of one  *)
(* thread, or ends a process's calls: everything, if it keeps what is said *)
(* of those, unhooks or hooks nobody who has begun, and leaves a child to  *)
(* the call that has made it.                                              *)
Shifts(C, p, t) ==
  /\ \A d \in Pids \ C : procs'[d] = procs[d]
  /\ \A c \in C :
       /\ procs'[c] # None
       /\ procs[c] = None => /\ procs'[c].parent = p /\ Begun(p)
                             /\ \A d \in Pids : procs[d] # None => procs[d].parent # c
       /\ procs[c] # None =>
            /\ procs'[c].parent = procs[c].parent /\ procs'[c].for = procs[c].for
            /\ procs'[c].asked = procs[c].asked
            /\ Begun(c) => Begun(c)' /\ procs'[c].hooked = procs[c].hooked
            /\ \A q \in Pids, u \in Threads :
                 (q # p \/ u # t) /\ InCreation(q, u) /\ frames[q][u][1].child = c =>
                   /\ procs'[c].told = procs[c].told
                   /\ procs[c].payload => procs'[c].payload
                   /\ procs[c].library => procs'[c].library
  /\ \A q \in Pids, u \in Threads :
       q # p \/ u # t =>
         \/ frames'[q][u] = frames[q][u] /\ hooking'[q][u] = hooking[q][u]
         \/ frames'[q][u] = <<>> /\ hooking'[q][u] = FALSE
  /\ p \in Pids /\ t \in Threads =>
       /\ frames'[p][t] # <<>> => procs[p] # None /\ Begun(p)
       /\ InCreation(p, t)' =>
            \A d \in Pids : procs[d] # None /\ frames'[p][t][1].child = d =>
              InCreation(p, t) /\ frames[p][t][1].child = d

LEMMA ShiftsKeep ==
  ASSUME WindowsConstants, WindowsIInv, NEW C \in SUBSET Pids, NEW p, NEW t, Shifts(C, p, t),
         WindowsTypeOK', RootHeld',
         \A c \in C : Unborn(c)' /\ Raised(c)',
         p \in Pids /\ t \in Threads => Creating(p, t)'
  PROVE  WindowsIInv'
<1>1. ASSUME NEW d \in Pids, d \notin C, procs'[d] # None PROVE Unborn(d)'
  <2> SUFFICES ASSUME procs[d].told # "yes"
               PROVE  /\ procs[d].state \in {"suspended", "dead"}
                      /\ procs[d].client = "none" /\ ~procs[d].hooked
                      /\ \A u \in Threads : frames'[d][u] = <<>>
                      /\ \A e \in Pids : procs'[e] # None => procs'[e].parent # d
    BY <1>1 DEF Unborn, Shifts
  <2>1. procs[d] # None /\ procs'[d] = procs[d]
    BY <1>1 DEF Shifts
  <2>2. /\ procs[d].state \in {"suspended", "dead"}
        /\ procs[d].client = "none" /\ ~procs[d].hooked
        /\ \A u \in Threads : frames[d][u] = <<>>
        /\ \A e \in Pids : procs[e] # None => procs[e].parent # d
    BY <2>1 DEF WindowsIInv, Unborn
  <2>3. ~Begun(d)
    BY DEF Begun
  <2>4. ASSUME NEW u \in Threads PROVE frames'[d][u] = <<>>
    BY <2>1, <2>2, <2>3 DEF Shifts
  <2>5. ASSUME NEW e \in Pids, procs'[e] # None PROVE procs'[e].parent # d
    BY <2>1, <2>2, <2>3, <2>5 DEF Shifts
  <2> QED BY <2>2, <2>4, <2>5
<1>2. ASSUME NEW q \in Pids, procs[q] # None, Begun(q)
      PROVE  procs'[q] # None /\ Begun(q)' /\ procs'[q].hooked = procs[q].hooked
  BY <1>2 DEF Shifts, Begun
<1>3. ASSUME NEW d \in Pids, d \notin C, procs'[d] # None PROVE Raised(d)'
  <2>1. procs[d] # None /\ procs'[d] = procs[d] /\ Raised(d)
    BY <1>3 DEF WindowsIInv, Shifts
  <2>2. CASE procs[d].parent = None
    BY <2>1, <2>2 DEF Raised
  <2>3. CASE procs[d].parent # None
    <3>1. procs[d].parent \in Pids
      BY <2>1, <2>3 DEF WindowsIInv, WindowsTypeOK, ProcessSet
    <3>2. procs[procs[d].parent] # None /\ Begun(procs[d].parent)
      BY <2>1, <2>3 DEF Raised
    <3>3. PICK q \in Pids : q = procs[d].parent
      BY <3>1
    <3>4. procs'[q] # None /\ Begun(q)' /\ procs'[q].hooked = procs[q].hooked
      BY <1>2, <3>2, <3>3
    <3> QED BY <2>1, <3>3, <3>4 DEF Raised, Begun
  <2> QED BY <2>2, <2>3
<1>4. ASSUME NEW q \in Pids, NEW u \in Threads, q # p \/ u # t PROVE Creating(q, u)'
  <2>1. Creating(q, u)
    BY DEF WindowsIInv
  <2>2. CASE frames'[q][u] = <<>> /\ hooking'[q][u] = FALSE
    BY <2>2 DEF Creating, InCreation
  <2>3. CASE frames'[q][u] = frames[q][u] /\ hooking'[q][u] = hooking[q][u] /\ frames[q][u] # <<>>
    <3>1. /\ procs[q] # None /\ Begun(q)
          /\ procs'[q] # None /\ Begun(q)' /\ procs'[q].hooked = procs[q].hooked
      BY <1>2, <2>1, <2>3 DEF Creating
    <3>2. InCreation(q, u)' = InCreation(q, u)
      BY <2>3 DEF InCreation
    <3>3. CASE ~InCreation(q, u)
      BY <2>1, <2>3, <3>1, <3>2, <3>3 DEF Creating
    <3>4. CASE InCreation(q, u)
      <4>1. PICK f : f = frames[q][u][1]
        OBVIOUS
      <4>2. frames'[q][u][1] = f
        BY <2>3, <4>1
      <4>3. CASE f.child = None
        BY <2>1, <2>3, <3>1, <3>2, <4>1, <4>2, <4>3 DEF Creating
      <4>4. CASE f.child # None
        <5>1. PICK d : d = f.child
          OBVIOUS
        <5>2. /\ procs[d] # None /\ procs[d].parent = q /\ procs[d].for = None
              /\ procs[d].told = "pending" /\ procs[d].asked = f.asked
              /\ f.step # "created" => procs[d].payload
              /\ f.step = "loaded" => procs[d].library
              /\ \A w \in Threads : InCreation(q, w) /\ frames[q][w][1].child = d => w = u
          BY <2>1, <3>4, <4>1, <4>4, <5>1 DEF Creating
        <5>3. d \in Pids
          <6>1. f \in Creations
            BY <3>4, <4>1, OneCall, TwoCalls DEF WindowsIInv, WindowsTypeOK, FramesOK, InCreation
          <6> QED BY <4>4, <5>1, <6>1 DEF Creations
        <5>4. /\ procs'[d] # None /\ procs'[d].parent = q /\ procs'[d].for = None
              /\ procs'[d].told = "pending" /\ procs'[d].asked = f.asked
              /\ f.step # "created" => procs'[d].payload
              /\ f.step = "loaded" => procs'[d].library
          <6>1. CASE d \in C
            BY <1>4, <3>4, <4>1, <5>1, <5>2, <5>3, <6>1 DEF Shifts
          <6>2. CASE d \notin C
            BY <5>2, <5>3, <6>2 DEF Shifts
          <6> QED BY <6>1, <6>2
        <5>5. ASSUME NEW w \in Threads, InCreation(q, w)', frames'[q][w][1].child = d
              PROVE  w = u
          <6>1. CASE q = p /\ w = t
            <7>1. InCreation(q, w) /\ frames[q][w][1].child = d
              BY <5>2, <5>3, <5>5, <6>1 DEF Shifts
            <7> QED BY <5>2, <7>1
          <6>2. CASE q # p \/ w # t
            <7>1. frames'[q][w] = frames[q][w]
              BY <5>5, <6>2 DEF Shifts, InCreation
            <7> QED BY <5>2, <5>5, <7>1 DEF InCreation
          <6> QED BY <6>1, <6>2
        <5>6. /\ f.for = None /\ f.detoured = procs'[q].hooked
              /\ f.step # "called" => f.detoured /\ f.child # None
              /\ f.step = "called" => f.child = None
              /\ hooking'[q][u] = (InCreation(q, u) /\ f.detoured)
          BY <2>1, <2>3, <3>1, <3>4, <4>1 DEF Creating
        <5> QED BY <3>1, <3>2, <4>2, <5>1, <5>4, <5>5, <5>6 DEF Creating
      <4> QED BY <4>3, <4>4
    <3> QED BY <3>3, <3>4
  <2>4. CASE frames'[q][u] = frames[q][u] /\ hooking'[q][u] = hooking[q][u] /\ frames[q][u] = <<>>
    BY <2>1, <2>4 DEF Creating, InCreation
  <2>5. \/ frames'[q][u] = frames[q][u] /\ hooking'[q][u] = hooking[q][u]
        \/ frames'[q][u] = <<>> /\ hooking'[q][u] = FALSE
    BY <1>4 DEF Shifts
  <2> QED BY <2>2, <2>3, <2>4, <2>5
<1> QED BY <1>1, <1>3, <1>4 DEF WindowsIInv
-----------------------------------------------------------------------------
(* A process's fields change.                                              *)
Same(y, x) ==
  /\ y.parent = x.parent /\ y.image = x.image /\ y.for = x.for
  /\ y.asked = x.asked /\ y.foreign = x.foreign

LEMMA StateSet ==
  ASSUME NEW x \in ProcessSet, NEW s \in States
  PROVE  LET y == [x EXCEPT !.state = s] IN
         /\ y \in ProcessSet /\ Same(y, x) /\ y.state = s /\ y.library = x.library
         /\ y.payload = x.payload /\ y.client = x.client /\ y.hooked = x.hooked /\ y.told = x.told
BY DEF ProcessSet, Same

LEMMA ToldSet ==
  ASSUME NEW x \in ProcessSet, NEW a \in Answers
  PROVE  LET y == [x EXCEPT !.told = a] IN
         /\ y \in ProcessSet /\ Same(y, x) /\ y.state = x.state /\ y.library = x.library
         /\ y.payload = x.payload /\ y.client = x.client /\ y.hooked = x.hooked /\ y.told = a
BY DEF ProcessSet, Same

LEMMA LibrarySet ==
  ASSUME NEW x \in ProcessSet
  PROVE  LET y == [x EXCEPT !.library = TRUE] IN
         /\ y \in ProcessSet /\ Same(y, x) /\ y.state = x.state /\ y.library
         /\ y.payload = x.payload /\ y.client = x.client /\ y.hooked = x.hooked /\ y.told = x.told
BY DEF ProcessSet, Same

LEMMA PayloadSet ==
  ASSUME NEW x \in ProcessSet
  PROVE  LET y == [x EXCEPT !.payload = TRUE] IN
         /\ y \in ProcessSet /\ Same(y, x) /\ y.state = x.state /\ y.library = x.library
         /\ y.payload /\ y.client = x.client /\ y.hooked = x.hooked /\ y.told = x.told
BY DEF ProcessSet, Same

LEMMA ClientSet ==
  ASSUME NEW x \in ProcessSet, NEW k \in Clients
  PROVE  LET y == [x EXCEPT !.client = k] IN
         /\ y \in ProcessSet /\ Same(y, x) /\ y.state = x.state /\ y.library = x.library
         /\ y.payload = x.payload /\ y.client = k /\ y.hooked = x.hooked /\ y.told = x.told
BY DEF ProcessSet, Same

LEMMA HookedSet ==
  ASSUME NEW x \in ProcessSet, NEW b \in BOOLEAN
  PROVE  LET y == [x EXCEPT !.hooked = b] IN
         /\ y \in ProcessSet /\ Same(y, x) /\ y.state = x.state /\ y.library = x.library
         /\ y.payload = x.payload /\ y.client = x.client /\ y.hooked = b /\ y.told = x.told
BY DEF ProcessSet, Same

(* The types are kept by a step that keeps them of what it changes.        *)
LEMMA TypesKept ==
  ASSUME WindowsTypeOK, NEW p, NEW t, runner' \in Runners,
         DOMAIN procs' = Pids, \A d \in Pids : procs'[d] # None => procs'[d] \in ProcessSet,
         DOMAIN frames' = Pids, \A q \in Pids : DOMAIN frames'[q] = Threads,
         hooking' \in [Pids -> [Threads -> BOOLEAN]],
         \A q \in Pids, u \in Threads :
           q # p \/ u # t => frames'[q][u] = frames[q][u] \/ frames'[q][u] = <<>>,
         p \in Pids /\ t \in Threads => FramesOK(p, t)'
  PROVE  WindowsTypeOK'
<1>1. ASSUME NEW q \in Pids, NEW u \in Threads PROVE FramesOK(q, u)'
  <2>1. CASE q = p /\ u = t
    BY <2>1
  <2>2. CASE frames'[q][u] = frames[q][u]
    BY <2>2 DEF WindowsTypeOK, FramesOK
  <2>3. CASE frames'[q][u] = <<>>
    BY <2>3 DEF FramesOK
  <2> QED BY <2>1, <2>2, <2>3
<1> QED BY <1>1 DEF WindowsTypeOK

(* The first process is another than any that a call makes.                *)
LEMMA RootKept ==
  ASSUME WindowsConstants, WindowsIInv, UNCHANGED runner,
         procs[1] # None => procs'[1] = procs[1],
         procs[1] = None => runner = "idle" /\ \A c \in Pids : procs'[c] = None
  PROVE  RootHeld'
BY DEF WindowsConstants, WindowsIInv, RootHeld

-----------------------------------------------------------------------------
(* The calls under way, as the invariant has them.                         *)

(* A call f of a thread has made the child c.                              *)
Made(p, t, f, c) ==
  /\ frames[p][t] # <<>> /\ frames[p][t][1] = f
  /\ f \in Creations /\ f.child = c /\ f.step # "called"
  /\ f.for = None /\ f.detoured /\ hooking[p][t]
  /\ procs[p] # None /\ procs[p].hooked /\ Begun(p)
  /\ procs[c] # None /\ procs[c].parent = p /\ procs[c].for = None
  /\ procs[c].told = "pending" /\ procs[c].asked = f.asked
  /\ f.step # "created" => procs[c].payload
  /\ f.step = "loaded" => procs[c].library
  /\ c # 1 /\ c # p

LEMMA Shape ==
  ASSUME WindowsConstants, WindowsIInv, NEW p \in Pids, NEW t \in Threads, NEW s \in Steps,
         Stands(p, t, s)
  PROVE  \/ \E f \in Creations : frames[p][t] = <<f>> /\ f.step = s
         \/ /\ s = "called"
            /\ \E f, g \in Creations :
                 /\ frames[p][t] = <<f, g>> /\ f.step = "helping"
                 /\ g.step = "called" /\ g.child = None /\ ~g.detoured /\ g.for # None
<1>1. FramesOK(p, t) /\ frames[p][t] # <<>> /\ Last(frames[p][t]).step = s
  BY DEF WindowsIInv, WindowsTypeOK, Stands
<1>2. ASSUME NEW f, frames[p][t] = <<f>>, Nt(f) \/ f \in Creations
      PROVE  f \in Creations /\ f.step = s
  <2>1. f.step = s
    BY <1>1, <1>2, OneCall
  <2> QED BY <1>2, <2>1 DEF Nt, Steps
<1>3. ASSUME NEW f \in Creations, NEW g \in Creations, frames[p][t] = <<f, g>>, g.step = "called"
      PROVE  s = "called"
  <2>1. Last(<<f, g>>) = g
    BY TwoCalls
  <2>2. Last(frames[p][t]) = g
    BY <1>3, <2>1
  <2> QED BY <1>1, <1>3, <2>2
<1> QED BY <1>1, <1>2, <1>3 DEF FramesOK

LEMMA MadeBy ==
  ASSUME WindowsConstants, WindowsIInv, NEW p \in Pids, NEW t \in Threads,
         NEW f \in Creations, frames[p][t] # <<>>, frames[p][t][1] = f, f.step # "called"
  PROVE  \E c \in Pids : Made(p, t, f, c)
<1>2. PICK c : c = f.child
  OBVIOUS
<1>3. Creating(p, t) /\ frames[p][t] # <<>> /\ frames[p][t][1] = f /\ InCreation(p, t)
  <2>1. Creating(p, t)
    BY DEF WindowsIInv
  <2>2. ~Nt(f)
    BY DEF Nt, Creations, Steps
  <2> QED BY <2>1, <2>2 DEF InCreation
<1>4. f.step # "called" /\ f.detoured /\ c # None /\ f.for = None /\ f.detoured = procs[p].hooked
  BY <1>2, <1>3 DEF Creating
<1>5. c \in Pids
  BY <1>2, <1>4 DEF Creations
<1>6. /\ procs[p] # None /\ Begun(p) /\ hooking[p][t]
      /\ procs[c] # None /\ procs[c].parent = p /\ procs[c].for = None
      /\ procs[c].told = "pending" /\ procs[c].asked = f.asked
      /\ f.step # "created" => procs[c].payload
      /\ f.step = "loaded" => procs[c].library
  BY <1>2, <1>3, <1>4 DEF Creating
<1>7. c # 1 /\ c # p
  <2>1. Raised(c) /\ p # None
    BY <1>5, <1>6 DEF WindowsIInv, WindowsConstants
  <2> QED BY <1>6, <2>1 DEF Raised, Begun
<1>8. Made(p, t, f, c)
  BY <1>2, <1>3, <1>4, <1>6, <1>7 DEF Made
<1> QED BY <1>5, <1>8

LEMMA Waiting ==
  ASSUME WindowsConstants, WindowsIInv, NEW p \in Pids, NEW t \in Threads,
         NEW s \in Steps \ {"called"}, Stands(p, t, s)
  PROVE  \E f \in Creations, c \in Pids :
           frames[p][t] = <<f>> /\ f.step = s /\ Made(p, t, f, c)
<1>1. PICK f \in Creations : frames[p][t] = <<f>> /\ f.step = s
  BY Shape
<1>2. frames[p][t] # <<>> /\ frames[p][t][1] = f /\ f.step # "called"
  BY <1>1, OneCall
<1>3. PICK c \in Pids : Made(p, t, f, c)
  BY <1>2, MadeBy
<1> QED BY <1>1, <1>3

LEMMA MadeOnce ==
  ASSUME WindowsIInv, NEW p \in Pids, NEW t \in Threads, NEW f \in Creations, NEW c \in Pids,
         Made(p, t, f, c), NEW q \in Pids, NEW u \in Threads, InCreation(q, u),
         frames[q][u][1].child = c, c # None
  PROVE  q = p /\ u = t
<1>1. Creating(p, t) /\ Creating(q, u)
  BY DEF WindowsIInv
<1>2. procs[c].parent = q
  <2>1. PICK g : g = frames[q][u][1]
    OBVIOUS
  <2> QED BY <1>1, <2>1 DEF Creating
<1>3. q = p
  BY <1>2 DEF Made
<1>4. InCreation(p, t) /\ frames[p][t][1] = f
  <2>1. ~Nt(f)
    BY DEF Made, Nt, Creations, Steps
  <2> QED BY <2>1, OneCall DEF Made, InCreation
<1>5. f.child = c /\ f.child # None
  BY DEF Made
<1>6. \A w \in Threads : InCreation(p, w) /\ frames[p][w][1].child = c => w = t
  BY <1>1, <1>4, <1>5 DEF Creating
<1> QED BY <1>3, <1>6

(* A step of a call that has made a child, which becomes x, while helpers  *)
(* end; and the call goes on or returns.                                   *)
ChildBecomes(c, x, H) ==
  /\ c \notin H /\ DOMAIN procs' = Pids /\ procs'[c] = x
  /\ \A d \in Pids \ (H \cup {c}) : procs'[d] = procs[d]
  /\ \A h \in H : /\ procs[h] # None /\ procs[h].for # None
                  /\ procs'[h] = [procs[h] EXCEPT !.state = "dead"]
  /\ x \in ProcessSet /\ Same(x, procs[c])
  /\ x.client = procs[c].client /\ x.hooked = procs[c].hooked
  /\ procs[c].payload => x.payload
  /\ procs[c].library => x.library
  /\ x.told # "yes" => x.state \in {"suspended", "dead"}
  /\ x.told = "yes" => x.library /\ x.payload /\ (x.state = "suspended" => x.asked)

GoesOn(p, t, f, c, x, g) ==
  /\ frames' = [frames EXCEPT ![p][t] = <<g>>] /\ UNCHANGED hooking
  /\ x.told = "pending"
  /\ g \in Creations /\ g.child = c /\ g.for = None /\ g.detoured /\ g.asked = f.asked
  /\ g.step # "called"
  /\ g.step # "created" => x.payload
  /\ g.step = "loaded" => x.library

GivesBack(p, t) ==
  frames' = [frames EXCEPT ![p][t] = <<>>] /\ hooking' = [hooking EXCEPT ![p][t] = FALSE]

(* A call goes on with its child, or returns.                              *)
ChildMoves(p, t) ==
  \E f \in Creations, c \in Pids, H \in SUBSET Pids : \E x :
    /\ Made(p, t, f, c) /\ ChildBecomes(c, x, H) /\ runner' = runner
    /\ GivesBack(p, t) \/ \E g : GoesOn(p, t, f, c, x, g)

LEMMA ChildStep ==
  ASSUME WindowsConstants, WindowsIInv, NEW p \in Pids, NEW t \in Threads,
         NEW f \in Creations, NEW c \in Pids, Made(p, t, f, c),
         NEW H \in SUBSET Pids, NEW x, ChildBecomes(c, x, H), UNCHANGED runner,
         GivesBack(p, t) \/ \E g : GoesOn(p, t, f, c, x, g)
  PROVE  WindowsIInv'
<1>b. /\ c \notin H /\ DOMAIN procs' = Pids /\ procs'[c] = x
      /\ \A d \in Pids \ (H \cup {c}) : procs'[d] = procs[d]
      /\ \A h \in H : /\ procs[h] # None /\ procs[h].for # None
                      /\ procs'[h] = [procs[h] EXCEPT !.state = "dead"]
      /\ x \in ProcessSet /\ Same(x, procs[c])
      /\ x.client = procs[c].client /\ x.hooked = procs[c].hooked
      /\ procs[c].payload => x.payload
      /\ procs[c].library => x.library
      /\ x.told # "yes" => x.state \in {"suspended", "dead"}
      /\ x.told = "yes" => x.library /\ x.payload /\ (x.state = "suspended" => x.asked)
  BY DEF ChildBecomes
<1>v. PICK v :
        /\ frames' = [frames EXCEPT ![p][t] = v]
        /\ \/ v = <<>> /\ hooking' = [hooking EXCEPT ![p][t] = FALSE]
           \/ /\ UNCHANGED hooking /\ x.told = "pending"
              /\ \E g \in Creations :
                   /\ v = <<g>> /\ g.child = c /\ g.for = None /\ g.detoured /\ g.asked = f.asked
                   /\ g.step # "called"
                   /\ g.step # "created" => x.payload
                   /\ g.step = "loaded" => x.library
  <2>1. CASE GivesBack(p, t)
    BY <2>1 DEF GivesBack
  <2>2. CASE \E g : GoesOn(p, t, f, c, x, g)
    <3>1. PICK g : GoesOn(p, t, f, c, x, g)
      BY <2>2
    <3>2. PICK v : v = <<g>>
      OBVIOUS
    <3> QED BY <3>1, <3>2 DEF GoesOn
  <2> QED BY <2>1, <2>2
<1>t. WindowsTypeOK
  BY DEF WindowsIInv
<1>m. /\ procs[c] # None /\ procs[c].parent = p /\ procs[c].for = None /\ procs[c].told = "pending"
      /\ procs[p] # None /\ procs[p].hooked /\ Begun(p) /\ c # 1 /\ c # p /\ procs[c].asked = f.asked
      /\ hooking[p][t] /\ None \notin ProcessSet /\ None \notin Pids
  BY DEF Made, WindowsConstants
<1>c. Unborn(c) /\ Raised(c)
  BY <1>m DEF WindowsIInv
<1>1. ASSUME NEW h \in H
      PROVE  /\ procs[h] \in ProcessSet /\ procs'[h] \in ProcessSet /\ Same(procs'[h], procs[h])
             /\ procs'[h].state = "dead" /\ procs'[h].library = procs[h].library
             /\ procs'[h].payload = procs[h].payload /\ procs'[h].client = procs[h].client
             /\ procs'[h].hooked = procs[h].hooked /\ procs'[h].told = procs[h].told
             /\ procs[h] # None /\ procs'[h] # None
  <2>1. procs[h] \in ProcessSet /\ procs[h] # None
    BY <1>b, <1>t DEF WindowsTypeOK
  <2>2. PICK y : y = procs[h]
    OBVIOUS
  <2>3. procs'[h] = [y EXCEPT !.state = "dead"] /\ "dead" \in States
    BY <1>b, <2>2 DEF States
  <2> QED BY <1>m, <2>1, <2>2, <2>3, StateSet
<1>2. x # None /\ Same(x, procs[c])
  BY <1>b, <1>m
<1>3. /\ frames'[p][t] = v
      /\ \A q \in Pids, u \in Threads : q # p \/ u # t => frames'[q][u] = frames[q][u]
      /\ DOMAIN frames' = Pids /\ \A q \in Pids : DOMAIN frames'[q] = Threads
  BY <1>v, <1>t, CallsSet
<1>4. /\ hooking' \in [Pids -> [Threads -> BOOLEAN]]
      /\ \A q \in Pids, u \in Threads : q # p \/ u # t => hooking'[q][u] = hooking[q][u]
      /\ v = <<>> => ~hooking'[p][t]
      /\ v # <<>> => hooking'[p][t]
  <2>1. CASE v = <<>> /\ hooking' = [hooking EXCEPT ![p][t] = FALSE]
    <3>1. FALSE \in BOOLEAN
      OBVIOUS
    <3>2. /\ hooking'[p][t] = FALSE
          /\ \A q \in Pids, u \in Threads : q # p \/ u # t => hooking'[q][u] = hooking[q][u]
          /\ hooking' \in [Pids -> [Threads -> BOOLEAN]]
      BY <1>t, <2>1, <3>1, HookingSet
    <3>3. v = <<>>
      BY <2>1
    <3>4. ~hooking'[p][t]
      BY <3>2
    <3> QED BY <3>2, <3>3, <3>4
  <2>2. CASE UNCHANGED hooking /\ \E g : v = <<g>>
    BY <1>t, <1>m, <2>2, OneCall DEF WindowsTypeOK
  <2> QED BY <1>v, <2>1, <2>2
<1>5. WindowsTypeOK'
  <2>1. \A d \in Pids : procs'[d] # None => procs'[d] \in ProcessSet
    BY <1>b, <1>t, <1>1 DEF WindowsTypeOK
  <2>2. FramesOK(p, t)'
    BY <1>v, <1>3 DEF FramesOK
  <2>3. runner' \in Runners
    BY <1>t DEF WindowsTypeOK
  <2> QED BY <1>b, <1>t, <1>3, <1>4, <2>1, <2>2, <2>3, TypesKept
<1>6. RootHeld'
  <2>1. runner # "idle" /\ procs[1] # None /\ procs[1].for = None /\ 1 \in Pids
    BY <1>m DEF WindowsIInv, RootHeld, WindowsConstants
  <2>2. 1 \notin H
    BY <1>b, <2>1
  <2> QED BY <1>b, <1>m, <2>1, <2>2, RootKept
<1>7. ASSUME NEW d \in Pids
      PROVE  procs'[d] # None <=> procs[d] # None
  BY <1>b, <1>1, <1>2, <1>m
<1>8. ASSUME NEW d \in Pids, procs[d] # None
      PROVE  Same(procs'[d], procs[d]) /\ procs'[d].hooked = procs[d].hooked
  BY <1>b, <1>1, <1>2, <1>8 DEF Same
<1>9. Begun(p)' /\ procs'[p].hooked
  BY <1>b, <1>1, <1>m DEF Begun
<1>10. ASSUME NEW e \in H \cup {c} PROVE Unborn(e)'
  <2>1. CASE e = c
    <3>1. \A u \in Threads : frames'[c][u] = <<>>
      BY <1>c, <1>m, <1>3 DEF Unborn
    <3>2. \A d \in Pids : procs'[d] # None => procs'[d].parent # c
      BY <1>c, <1>m, <1>7, <1>8 DEF Unborn, Same
    <3> QED BY <1>b, <1>c, <1>m, <2>1, <3>1, <3>2 DEF Unborn
  <2>2. CASE e \in H /\ procs[e].told # "yes"
    <3>1. Unborn(e)
      BY <1>1, <2>2 DEF WindowsIInv
    <3>2. e # p
      BY <1>m, <2>2 DEF Begun
    <3>3. \A u \in Threads : frames'[e][u] = <<>>
      BY <3>1, <3>2, <2>2, <1>3 DEF Unborn
    <3>4. \A d \in Pids : procs'[d] # None => procs'[d].parent # e
      BY <3>1, <2>2, <1>7, <1>8 DEF Unborn, Same
    <3> QED BY <1>1, <2>2, <3>1, <3>3, <3>4 DEF Unborn
  <2>3. CASE e \in H /\ procs[e].told = "yes"
    BY <1>1, <2>3 DEF Unborn
  <2> QED BY <2>1, <2>2, <2>3
<1>11. ASSUME NEW e \in H \cup {c} PROVE Raised(e)'
  <2>1. CASE e = c
    BY <1>b, <1>c, <1>m, <1>7, <1>9, <2>1 DEF Raised, Same
  <2>2. CASE e \in H
    <3>1. Raised(e) /\ procs[e].for # None
      BY <1>b, <1>1, <2>2 DEF WindowsIInv
    <3>2. /\ procs'[e].for = procs[e].for /\ procs'[e].parent = procs[e].parent
          /\ procs'[e].state = "dead" /\ procs'[e].library = procs[e].library
          /\ procs'[e].payload = procs[e].payload
      BY <1>1, <2>2 DEF Same
    <3>3. CASE procs[e].parent = None
      BY <3>1, <3>2, <3>3 DEF Raised
    <3>4. CASE procs[e].parent # None
      <4>1. PICK q : q = procs[e].parent
        OBVIOUS
      <4>2. q \in Pids
        BY <1>1, <2>2, <3>4, <4>1 DEF ProcessSet
      <4>3. procs[q] # None /\ Begun(q) /\ e # 1
        BY <3>1, <3>4, <4>1 DEF Raised
      <4>4. q # c
        BY <4>3, <1>m DEF Begun
      <4>5. procs'[q] # None /\ Begun(q)'
        BY <1>b, <1>1, <1>7, <4>2, <4>3, <4>4 DEF Begun
      <4> QED BY <3>1, <3>2, <3>4, <4>1, <4>3, <4>5 DEF Raised
    <3> QED BY <3>3, <3>4
  <2> QED BY <2>1, <2>2
<1>12. Creating(p, t)'
  <2>1. CASE v = <<>>
    BY <1>3, <1>4, <2>1 DEF Creating, InCreation
  <2>2. CASE v # <<>>
    <3>1. PICK g \in Creations :
            /\ v = <<g>> /\ g.child = c /\ g.for = None /\ g.detoured /\ g.asked = f.asked
            /\ g.step # "called"
            /\ g.step # "created" => x.payload
            /\ g.step = "loaded" => x.library
      BY <1>v, <2>2
    <3>2. x.told = "pending"
      BY <1>v, <2>2
    <3>3. frames'[p][t] # <<>> /\ frames'[p][t][1] = g /\ InCreation(p, t)'
      <4>1. ~Nt(g)
        BY DEF Nt, Creations, Steps
      <4> QED BY <1>3, <3>1, <4>1, OneCall DEF InCreation
    <3>4. ASSUME NEW u \in Threads, InCreation(p, u)', frames'[p][u][1].child = c PROVE u = t
      <4>1. CASE u # t
        <5>1. frames'[p][u] = frames[p][u]
          BY <1>3, <4>1
        <5>2. InCreation(p, u) /\ frames[p][u][1].child = c
          BY <3>4, <5>1 DEF InCreation
        <5> QED BY <1>m, <5>2, MadeOnce
      <4> QED BY <4>1
    <3>5. /\ procs'[c] # None /\ procs'[c].parent = p /\ procs'[c].for = None
          /\ procs'[c].told = "pending" /\ procs'[c].asked = g.asked
      BY <1>b, <1>m, <1>2, <3>1, <3>2 DEF Same
    <3>6. procs'[p] # None /\ hooking'[p][t]
      BY <1>m, <1>4, <1>7, <2>2
    <3>7. c # None
      BY <1>m
    <3>8. hooking'[p][t] = (InCreation(p, t)' /\ g.detoured)
      <4>1. hooking'[p][t] \in BOOLEAN /\ g.detoured \in BOOLEAN
        BY <1>4 DEF Creations
      <4> QED BY <3>1, <3>3, <3>6, <4>1
    <3>9. g.detoured = procs'[p].hooked
      <4>1. procs'[p] \in ProcessSet /\ g.detoured \in BOOLEAN
        BY <1>5, <3>6 DEF WindowsTypeOK, Creations
      <4>2. procs'[p].hooked \in BOOLEAN
        BY <4>1 DEF ProcessSet
      <4> QED BY <1>9, <3>1, <4>1, <4>2
    <3> QED BY <1>b, <1>9, <3>1, <3>3, <3>4, <3>5, <3>6, <3>7, <3>8, <3>9 DEF Creating
  <2> QED BY <2>1, <2>2
<1>13. Shifts(H \cup {c}, p, t)
  <2>1. ASSUME NEW e \in H \cup {c}
        PROVE  /\ procs'[e] # None /\ procs[e] # None
               /\ procs'[e].parent = procs[e].parent /\ procs'[e].for = procs[e].for
               /\ procs'[e].asked = procs[e].asked
               /\ Begun(e) => Begun(e)' /\ procs'[e].hooked = procs[e].hooked
    <3>1. CASE e = c
      BY <1>b, <1>m, <1>2, <3>1 DEF Same, Begun
    <3>2. CASE e \in H
      BY <1>1, <3>2 DEF Same, Begun
    <3> QED BY <3>1, <3>2
  <2>2. ASSUME NEW e \in H \cup {c}, NEW q \in Pids, NEW u \in Threads,
               q # p \/ u # t, InCreation(q, u), frames[q][u][1].child = e
        PROVE  /\ procs'[e].told = procs[e].told
               /\ procs[e].payload => procs'[e].payload
               /\ procs[e].library => procs'[e].library
    <3>1. CASE e = c
      BY <1>m, <2>2, <3>1, MadeOnce
    <3>2. CASE e \in H
      BY <1>1, <3>2
    <3> QED BY <3>1, <3>2
  <2>3. ASSUME InCreation(p, t)', NEW d \in Pids, frames'[p][t][1].child = d
        PROVE  InCreation(p, t) /\ frames[p][t][1].child = d
    <3>1. PICK g \in Creations : v = <<g>> /\ g.child = c
      BY <1>v, <1>3, <2>3 DEF InCreation
    <3>2. frames'[p][t][1] = g
      BY <1>3, <3>1, OneCall
    <3>3. frames[p][t] # <<>> /\ frames[p][t][1] = f /\ f.child = c /\ ~Nt(f)
      BY OneCall DEF Made, Nt, Creations, Steps
    <3> QED BY <2>3, <3>1, <3>2, <3>3 DEF InCreation
  <2> QED BY <1>b, <1>m, <1>3, <1>4, <2>1, <2>2, <2>3 DEF Shifts
<1> QED BY <1>5, <1>6, <1>10, <1>11, <1>12, <1>13, ShiftsKeep

-----------------------------------------------------------------------------
(* A call goes on to its next step, or returns.                            *)
LEMMA StepSet ==
  ASSUME NEW f \in Creations, NEW s \in Steps
  PROVE  LET g == [f EXCEPT !.step = s] IN
         /\ g \in Creations /\ g.step = s /\ g.child = f.child /\ g.for = f.for
         /\ g.detoured = f.detoured /\ g.asked = f.asked
BY DEF Creations

LEMMA GoesTo ==
  ASSUME NEW p \in Pids, NEW t \in Threads, NEW f \in Creations, NEW c \in Pids,
         frames[p][t] = <<f>>, Made(p, t, f, c), NEW s \in Steps \ {"called"}, Goes(p, t, s)
  PROVE  \E g \in Creations :
           /\ frames' = [frames EXCEPT ![p][t] = <<g>>]
           /\ g.step = s /\ g.child = c /\ g.for = None /\ g.detoured /\ g.asked = f.asked
<1>1. PICK v : v = frames[p][t]
  OBVIOUS
<1>2. PICK w : w = [Last(v) EXCEPT !.step = s]
  OBVIOUS
<1>3. Last(v) = f /\ Front(v) = <<>> /\ Append(<<>>, w) = <<w>>
  BY <1>1, OneCall
<1>4. Append(Front(v), w) = <<w>> /\ w = [f EXCEPT !.step = s]
  BY <1>2, <1>3
<1>5. frames' = [frames EXCEPT ![p][t] = Append(Front(v), w)]
  BY <1>1, <1>2 DEF Goes
<1>6. frames' = [frames EXCEPT ![p][t] = <<w>>]
  BY <1>4, <1>5
<1>7. /\ w \in Creations /\ w.step = s /\ w.child = f.child /\ w.for = f.for
      /\ w.detoured = f.detoured /\ w.asked = f.asked
  BY <1>4, StepSet
<1>8. f.child = c /\ f.for = None /\ f.detoured
  BY DEF Made
<1>9. w.detoured
  BY <1>7, <1>8
<1> QED BY <1>6, <1>7, <1>8, <1>9

LEMMA ReturnsTo ==
  ASSUME NEW p \in Pids, NEW t \in Threads, NEW f \in Creations, NEW c \in Pids,
         frames[p][t] = <<f>>, Made(p, t, f, c), Returns(p, t)
  PROVE  /\ frames' = [frames EXCEPT ![p][t] = <<>>]
         /\ hooking' = [hooking EXCEPT ![p][t] = FALSE]
<1>1. Last(<<f>>) = f /\ Front(<<f>>) = <<>> /\ f.detoured
  BY OneCall DEF Made
<1> QED BY <1>1 DEF Returns

-----------------------------------------------------------------------------
(* What a call does of its child.                                          *)
LEMMA PrepareChildMoves ==
  ASSUME WindowsConstants, WindowsIInv, NEW p \in Pids, NEW t \in Threads, PrepareChild(p, t)
  PROVE  ChildMoves(p, t)
<1>1. /\ Stands(p, t, "created") /\ Goes(p, t, "prepared") /\ UNCHANGED <<runner, hooking>>
      /\ "created" \in Steps \ {"called"} /\ "prepared" \in Steps \ {"called"}
  BY DEF PrepareChild, Steps
<1>2. PICK f \in Creations, c \in Pids : frames[p][t] = <<f>> /\ Made(p, t, f, c)
  BY <1>1, Waiting
<1>3. PICK g \in Creations :
        /\ frames' = [frames EXCEPT ![p][t] = <<g>>]
        /\ g.step = "prepared" /\ g.child = c /\ g.for = None /\ g.detoured /\ g.asked = f.asked
  BY <1>1, <1>2, GoesTo
<1>4. procs[c] \in ProcessSet /\ DOMAIN procs = Pids /\ procs[c].told = "pending"
      /\ procs[c].for = None /\ WindowsTypeOK
  BY <1>2 DEF Made, WindowsIInv, WindowsTypeOK
<1>5. Last(frames[p][t]).child = c
  <2>1. Last(frames[p][t]) = f
    BY <1>2, OneCall
  <2> QED BY <1>2, <2>1 DEF Made
<1>6. PICK y : y = procs[c]
  OBVIOUS
<1>7. PICK x : x = [y EXCEPT !.payload = TRUE]
  OBVIOUS
<1>8. /\ x \in ProcessSet /\ Same(x, y) /\ x.state = y.state /\ x.library = y.library
      /\ x.payload /\ x.client = y.client /\ x.hooked = y.hooked /\ x.told = y.told
  BY <1>4, <1>6, <1>7, PayloadSet
<1>9. procs' = [procs EXCEPT ![c] = x]
  <2>1. procs' = [procs EXCEPT ![c].payload = TRUE, ![c].state = @]
    BY <1>5 DEF PrepareChild, ResumesEarly
  <2>2. y \in ProcessSet
    BY <1>4, <1>6
  <2>3. [[y EXCEPT !.payload = TRUE] EXCEPT !.state = y.state] = x
    BY <1>7, <2>2 DEF ProcessSet
  <2> QED BY <1>4, <1>6, <1>7, <2>1, <2>3
<1>10. DOMAIN procs' = Pids /\ procs'[c] = x /\ \A d \in Pids \ {c} : procs'[d] = procs[d]
  BY <1>4, <1>8, <1>9, ProcessSetTo
<1>11. x.told = "pending" /\ x.state \in {"suspended", "dead"}
  <2>1. Unborn(c)
    BY <1>2 DEF WindowsIInv, Made
  <2> QED BY <1>4, <1>6, <1>8, <2>1 DEF Unborn
<1>12. GoesOn(p, t, f, c, x, g)
  BY <1>1, <1>3, <1>8, <1>11 DEF GoesOn
<1>13. ChildBecomes(c, x, {})
  BY <1>6, <1>8, <1>10, <1>11 DEF ChildBecomes
<1> QED BY <1>1, <1>2, <1>12, <1>13 DEF ChildMoves

LEMMA PrepareFailsMoves ==
  ASSUME WindowsConstants, WindowsIInv, NEW p \in Pids, NEW t \in Threads, PrepareFails(p, t)
  PROVE  ChildMoves(p, t)
<1>1. /\ Stands(p, t, "created") /\ Returns(p, t) /\ UNCHANGED runner
      /\ "created" \in Steps \ {"called"}
  BY DEF PrepareFails, Steps
<1>2. PICK f \in Creations, c \in Pids : frames[p][t] = <<f>> /\ Made(p, t, f, c)
  BY <1>1, Waiting
<1>3. frames' = [frames EXCEPT ![p][t] = <<>>] /\ hooking' = [hooking EXCEPT ![p][t] = FALSE]
  BY <1>1, <1>2, ReturnsTo
<1>4. procs[c] \in ProcessSet /\ DOMAIN procs = Pids /\ procs[c].told = "pending" /\ WindowsTypeOK
  BY <1>2 DEF Made, WindowsIInv, WindowsTypeOK
<1>5. Last(frames[p][t]).child = c
  <2>1. Last(frames[p][t]) = f
    BY <1>2, OneCall
  <2> QED BY <1>2, <2>1 DEF Made
<1>6. PICK y : y = procs[c]
  OBVIOUS
<1>7. PICK x : x = [y EXCEPT !.told = "no"]
  OBVIOUS
<1>8. /\ x \in ProcessSet /\ Same(x, y) /\ x.state = y.state /\ x.library = y.library
      /\ x.payload = y.payload /\ x.client = y.client /\ x.hooked = y.hooked /\ x.told = "no"
  <2>1. "no" \in Answers
    BY DEF Answers
  <2> QED BY <1>4, <1>6, <1>7, <2>1, ToldSet
<1>9. procs' = [procs EXCEPT ![c] = x]
  BY <1>4, <1>5, <1>6, <1>7 DEF PrepareFails
<1>10. DOMAIN procs' = Pids /\ procs'[c] = x /\ \A d \in Pids \ {c} : procs'[d] = procs[d]
  BY <1>4, <1>8, <1>9, ProcessSetTo
<1>11. x.state \in {"suspended", "dead"}
  <2>1. Unborn(c)
    BY <1>2 DEF WindowsIInv, Made
  <2> QED BY <1>4, <1>6, <1>8, <2>1 DEF Unborn
<1>12. ChildBecomes(c, x, {})
  BY <1>6, <1>8, <1>10, <1>11 DEF ChildBecomes
<1>13. GivesBack(p, t)
  BY <1>3 DEF GivesBack
<1> QED BY <1>1, <1>2, <1>12, <1>13 DEF ChildMoves

LEMMA WaitingChild ==
  ASSUME WindowsIInv, NEW p \in Pids, NEW t \in Threads, NEW f \in Creations, NEW c \in Pids,
         frames[p][t] = <<f>>, Made(p, t, f, c)
  PROVE  /\ procs[c] \in ProcessSet /\ DOMAIN procs = Pids /\ WindowsTypeOK
         /\ procs[c].told = "pending" /\ procs[c].state \in {"suspended", "dead"}
         /\ procs[c].for = None /\ procs[c].asked = f.asked
         /\ f.step # "created" => procs[c].payload
         /\ f.step = "loaded" => procs[c].library
         /\ Last(frames[p][t]) = f /\ f.child = c
<1>1. WindowsTypeOK /\ (procs[c] # None => Unborn(c))
  BY DEF WindowsIInv
<1>2. Last(frames[p][t]) = f
  BY OneCall
<1> QED BY <1>1, <1>2 DEF Made, Unborn, WindowsTypeOK

LEMMA InjectMoves ==
  ASSUME WindowsConstants, WindowsIInv, NEW p \in Pids, NEW t \in Threads, Inject(p, t)
  PROVE  ChildMoves(p, t)
<1>1. /\ Stands(p, t, "prepared") /\ UNCHANGED <<runner, hooking>>
      /\ "prepared" \in Steps \ {"called"} /\ "helping" \in Steps \ {"called"}
      /\ "loaded" \in Steps \ {"called"}
  BY DEF Inject, Steps
<1>2. PICK f \in Creations, c \in Pids :
        frames[p][t] = <<f>> /\ f.step = "prepared" /\ Made(p, t, f, c)
  BY <1>1, Waiting
<1>3. /\ procs[c] \in ProcessSet /\ DOMAIN procs = Pids /\ WindowsTypeOK
      /\ procs[c].told = "pending" /\ procs[c].state \in {"suspended", "dead"}
      /\ procs[c].payload /\ Last(frames[p][t]).child = c
  BY <1>2, WaitingChild
<1>4. PICK y : y = procs[c]
  OBVIOUS
<1>5. CASE procs[c].foreign
  <2>1. Goes(p, t, "helping") /\ UNCHANGED procs
    BY <1>3, <1>5 DEF Inject
  <2>2. PICK g \in Creations :
          /\ frames' = [frames EXCEPT ![p][t] = <<g>>]
          /\ g.step = "helping" /\ g.child = c /\ g.for = None /\ g.detoured /\ g.asked = f.asked
    BY <1>1, <1>2, <2>1, GoesTo
  <2>3. GoesOn(p, t, f, c, y, g)
    BY <1>1, <1>3, <1>4, <2>2 DEF GoesOn
  <2>4. ChildBecomes(c, y, {})
    BY <1>3, <1>4, <2>1 DEF ChildBecomes, Same
  <2> QED BY <1>1, <1>2, <2>3, <2>4 DEF ChildMoves
<1>6. CASE ~procs[c].foreign
  <2>1. Goes(p, t, "loaded") /\ procs' = [procs EXCEPT ![c].library = TRUE]
    BY <1>3, <1>6 DEF Inject
  <2>2. PICK g \in Creations :
          /\ frames' = [frames EXCEPT ![p][t] = <<g>>]
          /\ g.step = "loaded" /\ g.child = c /\ g.for = None /\ g.detoured /\ g.asked = f.asked
    BY <1>1, <1>2, <2>1, GoesTo
  <2>3. PICK x : x = [y EXCEPT !.library = TRUE]
    OBVIOUS
  <2>4. /\ x \in ProcessSet /\ Same(x, y) /\ x.state = y.state /\ x.library
        /\ x.payload = y.payload /\ x.client = y.client /\ x.hooked = y.hooked /\ x.told = y.told
    BY <1>3, <1>4, <2>3, LibrarySet
  <2>5. procs' = [procs EXCEPT ![c] = x]
    BY <1>3, <1>4, <2>1, <2>3
  <2>6. DOMAIN procs' = Pids /\ procs'[c] = x /\ \A d \in Pids \ {c} : procs'[d] = procs[d]
    BY <1>3, <2>4, <2>5, ProcessSetTo
  <2>7. GoesOn(p, t, f, c, x, g)
    BY <1>1, <1>3, <1>4, <2>2, <2>4 DEF GoesOn
  <2>8. ChildBecomes(c, x, {})
    BY <1>3, <1>4, <2>4, <2>6 DEF ChildBecomes
  <2> QED BY <1>1, <1>2, <2>7, <2>8 DEF ChildMoves
<1> QED BY <1>5, <1>6

LEMMA HelpedMoves ==
  ASSUME WindowsConstants, WindowsIInv, NEW p \in Pids, NEW t \in Threads, Helped(p, t)
  PROVE  ChildMoves(p, t)
<1>1. /\ Stands(p, t, "helping") /\ Goes(p, t, "loaded") /\ UNCHANGED <<runner, hooking>>
      /\ "helping" \in Steps \ {"called"} /\ "loaded" \in Steps \ {"called"}
  BY DEF Helped, Steps
<1>2. PICK f \in Creations, c \in Pids :
        frames[p][t] = <<f>> /\ f.step = "helping" /\ Made(p, t, f, c)
  BY <1>1, Waiting
<1>3. /\ procs[c] \in ProcessSet /\ DOMAIN procs = Pids /\ WindowsTypeOK
      /\ procs[c].told = "pending" /\ procs[c].state \in {"suspended", "dead"}
      /\ procs[c].payload /\ Last(frames[p][t]).child = c /\ procs[c].for = None
  BY <1>2, WaitingChild
<1>4. PICK g \in Creations :
        /\ frames' = [frames EXCEPT ![p][t] = <<g>>]
        /\ g.step = "loaded" /\ g.child = c /\ g.for = None /\ g.detoured /\ g.asked = f.asked
  BY <1>1, <1>2, GoesTo
<1>5. PICK h \in Pids :
        /\ procs[h] # None /\ procs[h].for = c
        /\ procs' = [procs EXCEPT ![c].library = TRUE, ![h].state = "dead"]
  BY <1>3 DEF Helped, IsHelperFor
<1>6. h # c /\ procs[h].for # None
  BY <1>3, <1>5 DEF WindowsConstants
<1>7. PICK y : y = procs[c]
  OBVIOUS
<1>8. PICK x : x = [y EXCEPT !.library = TRUE]
  OBVIOUS
<1>9. /\ x \in ProcessSet /\ Same(x, y) /\ x.state = y.state /\ x.library
      /\ x.payload = y.payload /\ x.client = y.client /\ x.hooked = y.hooked /\ x.told = y.told
  BY <1>3, <1>7, <1>8, LibrarySet
<1>10. /\ DOMAIN procs' = Pids /\ procs'[c] = x /\ procs'[h] = [procs[h] EXCEPT !.state = "dead"]
       /\ \A d \in Pids \ ({h} \cup {c}) : procs'[d] = procs[d]
  BY <1>3, <1>5, <1>6, <1>7, <1>8
<1>11. GoesOn(p, t, f, c, x, g)
  BY <1>1, <1>3, <1>4, <1>7, <1>9 DEF GoesOn
<1>12. ChildBecomes(c, x, {h})
  BY <1>3, <1>5, <1>6, <1>7, <1>9, <1>10 DEF ChildBecomes
<1> QED BY <1>1, <1>2, <1>11, <1>12 DEF ChildMoves

LEMMA InjectFailsMoves ==
  ASSUME WindowsConstants, WindowsIInv, NEW p \in Pids, NEW t \in Threads, InjectFails(p, t)
  PROVE  ChildMoves(p, t)
<1>1. PICK s \in Steps \ {"called", "created"} : Stands(p, t, s)
  BY DEF InjectFails, Steps
<1>2. PICK f \in Creations, c \in Pids : frames[p][t] = <<f>> /\ Made(p, t, f, c)
  BY <1>1, Waiting
<1>3. /\ procs[c] \in ProcessSet /\ DOMAIN procs = Pids /\ WindowsTypeOK
      /\ procs[c].told = "pending" /\ Last(frames[p][t]).child = c
  BY <1>2, WaitingChild
<1>4. GivesBack(p, t) /\ UNCHANGED runner
  BY <1>2, ReturnsTo DEF InjectFails, GivesBack
<1>5. PICK y : y = procs[c]
  OBVIOUS
<1>6. PICK w, x : w = [y EXCEPT !.state = "dead"] /\ x = [w EXCEPT !.told = "no"]
  OBVIOUS
<1>7. /\ x \in ProcessSet /\ Same(x, y) /\ x.state = "dead" /\ x.library = y.library
      /\ x.payload = y.payload /\ x.client = y.client /\ x.hooked = y.hooked /\ x.told = "no"
  <2>1. "dead" \in States /\ "no" \in Answers
    BY DEF States, Answers
  <2>2. /\ w \in ProcessSet /\ Same(w, y) /\ w.state = "dead" /\ w.library = y.library
        /\ w.payload = y.payload /\ w.client = y.client /\ w.hooked = y.hooked
    BY <1>3, <1>5, <1>6, <2>1, StateSet
  <2> QED BY <1>6, <2>1, <2>2, ToldSet DEF Same
<1>8. procs' = [procs EXCEPT ![c] = x]
  BY <1>3, <1>5, <1>6 DEF InjectFails
<1>9. DOMAIN procs' = Pids /\ procs'[c] = x /\ \A d \in Pids \ {c} : procs'[d] = procs[d]
  BY <1>3, <1>7, <1>8, ProcessSetTo
<1>10. ChildBecomes(c, x, {})
  BY <1>5, <1>7, <1>9 DEF ChildBecomes
<1> QED BY <1>2, <1>4, <1>10 DEF ChildMoves

LEMMA ResumeChildMoves ==
  ASSUME WindowsConstants, WindowsIInv, NEW p \in Pids, NEW t \in Threads, ResumeChild(p, t)
  PROVE  ChildMoves(p, t)
<1>1. /\ Stands(p, t, "loaded") /\ Returns(p, t) /\ UNCHANGED runner
      /\ "loaded" \in Steps \ {"called"}
  BY DEF ResumeChild, Steps
<1>2. PICK f \in Creations, c \in Pids :
        frames[p][t] = <<f>> /\ f.step = "loaded" /\ Made(p, t, f, c)
  BY <1>1, Waiting
<1>3. /\ procs[c] \in ProcessSet /\ DOMAIN procs = Pids /\ WindowsTypeOK
      /\ procs[c].told = "pending" /\ procs[c].state \in {"suspended", "dead"}
      /\ procs[c].payload /\ procs[c].library /\ procs[c].asked = f.asked
      /\ Last(frames[p][t]).child = c /\ Last(frames[p][t]).asked = f.asked
  BY <1>2, WaitingChild
<1>4. GivesBack(p, t)
  BY <1>1, <1>2, ReturnsTo DEF GivesBack
<1>5. PICK y : y = procs[c]
  OBVIOUS
<1>6. PICK s : s = IF y.state = "suspended" /\ ~f.asked THEN "running" ELSE y.state
  OBVIOUS
<1>7. PICK w, x : w = [y EXCEPT !.state = s] /\ x = [w EXCEPT !.told = "yes"]
  OBVIOUS
<1>8. /\ x \in ProcessSet /\ Same(x, y) /\ x.state = s /\ x.library = y.library
      /\ x.payload = y.payload /\ x.client = y.client /\ x.hooked = y.hooked /\ x.told = "yes"
  <2>1. s \in States /\ "yes" \in Answers
    BY <1>3, <1>5, <1>6 DEF States, Answers
  <2>2. /\ w \in ProcessSet /\ Same(w, y) /\ w.state = s /\ w.library = y.library
        /\ w.payload = y.payload /\ w.client = y.client /\ w.hooked = y.hooked
    BY <1>3, <1>5, <1>7, <2>1, StateSet
  <2> QED BY <1>7, <2>1, <2>2, ToldSet DEF Same
<1>9. procs' = [procs EXCEPT ![c] = x]
  <2>1. procs' = [procs EXCEPT ![c].told = "yes",
                    ![c].state = IF @ = "suspended" /\ ~f.asked THEN "running" ELSE @]
    BY <1>3 DEF ResumeChild
  <2>2. procs' = [procs EXCEPT ![c].told = "yes", ![c].state = s]
    BY <1>3, <1>5, <1>6, <2>1 DEF ProcessSet
  <2>3. x = [[y EXCEPT !.told = "yes"] EXCEPT !.state = s]
    BY <1>3, <1>5, <1>7 DEF ProcessSet
  <2> QED BY <1>3, <1>5, <2>2, <2>3
<1>10. DOMAIN procs' = Pids /\ procs'[c] = x /\ \A d \in Pids \ {c} : procs'[d] = procs[d]
  BY <1>3, <1>8, <1>9, ProcessSetTo
<1>11. x.state = "suspended" => x.asked
  BY <1>3, <1>5, <1>6, <1>8 DEF Same
<1>12. ChildBecomes(c, x, {})
  BY <1>3, <1>5, <1>8, <1>10, <1>11 DEF ChildBecomes
<1> QED BY <1>1, <1>2, <1>4, <1>12 DEF ChildMoves

LEMMA ChildMovesOn ==
  ASSUME WindowsConstants, WindowsIInv, NEW p \in Pids, NEW t \in Threads,
         \/ PrepareChild(p, t) \/ PrepareFails(p, t)
         \/ Inject(p, t) \/ Helped(p, t) \/ InjectFails(p, t) \/ ResumeChild(p, t)
  PROVE  ChildMoves(p, t)
BY PrepareChildMoves, PrepareFailsMoves, InjectMoves, HelpedMoves, InjectFailsMoves, ResumeChildMoves

LEMMA ChildMovesKeep ==
  ASSUME WindowsConstants, WindowsIInv, NEW p \in Pids, NEW t \in Threads, ChildMoves(p, t)
  PROVE  WindowsIInv'
<1>1. PICK f \in Creations, c \in Pids, H \in SUBSET Pids :
        \E x : /\ Made(p, t, f, c) /\ ChildBecomes(c, x, H) /\ runner' = runner
               /\ GivesBack(p, t) \/ \E g : GoesOn(p, t, f, c, x, g)
  BY DEF ChildMoves
<1> QED BY <1>1, ChildStep

-----------------------------------------------------------------------------
(* A process goes on in its life: its library attaches, it is let go, it   *)
(* is about to end or it ends, and then its calls end with it.             *)
LifeBecomes(c, x) ==
  /\ procs' = [procs EXCEPT ![c] = x]
  /\ x \in ProcessSet /\ Same(x, procs[c])
  /\ x.library = procs[c].library /\ x.payload = procs[c].payload /\ x.told = procs[c].told
  /\ Begun(c) => x.client = procs[c].client /\ x.hooked = procs[c].hooked
  /\ x.told # "yes" =>
       /\ x.state \in {"suspended", "dead"}
       /\ x.client = procs[c].client /\ x.hooked = procs[c].hooked
  /\ x.state = "suspended" => procs[c].state = "suspended"

CallsEnd(c) ==
  /\ frames' = [frames EXCEPT ![c] = [t \in Threads |-> <<>>]]
  /\ hooking' = [hooking EXCEPT ![c] = [t \in Threads |-> FALSE]]

LEMMA LifeStep ==
  ASSUME WindowsConstants, WindowsIInv, NEW c \in Pids, NEW x, procs[c] # None, LifeBecomes(c, x),
         UNCHANGED runner, c = 1 => runner \in {"waiting", "closed"},
         UNCHANGED <<frames, hooking>> \/ CallsEnd(c)
  PROVE  WindowsIInv'
<1>t. WindowsTypeOK /\ Unborn(c) /\ Raised(c) /\ None \notin ProcessSet /\ None \notin Pids
  BY DEF WindowsIInv, WindowsConstants
<1>x. /\ procs' = [procs EXCEPT ![c] = x]
      /\ x \in ProcessSet /\ x # None
      /\ x.parent = procs[c].parent /\ x.for = procs[c].for /\ x.asked = procs[c].asked
      /\ x.library = procs[c].library /\ x.payload = procs[c].payload /\ x.told = procs[c].told
      /\ Begun(c) => x.client = procs[c].client /\ x.hooked = procs[c].hooked
      /\ x.told # "yes" =>
           /\ x.state \in {"suspended", "dead"}
           /\ x.client = procs[c].client /\ x.hooked = procs[c].hooked
      /\ x.state = "suspended" => procs[c].state = "suspended"
  BY <1>t DEF LifeBecomes, Same
<1>1. /\ procs'[c] = x /\ \A d \in Pids \ {c} : procs'[d] = procs[d]
      /\ DOMAIN procs' = Pids
      /\ \A d \in Pids : procs'[d] # None => procs'[d] \in ProcessSet
  BY <1>t, <1>x, ProcessSetTo
<1>2. ASSUME NEW q \in Pids, NEW u \in Threads
      PROVE  \/ frames'[q][u] = frames[q][u] /\ hooking'[q][u] = hooking[q][u]
             \/ frames'[q][u] = <<>> /\ hooking'[q][u] = FALSE
  BY <1>t DEF CallsEnd, WindowsTypeOK
<1>3. /\ DOMAIN frames' = Pids /\ \A q \in Pids : DOMAIN frames'[q] = Threads
      /\ hooking' \in [Pids -> [Threads -> BOOLEAN]]
  <2>1. CASE UNCHANGED <<frames, hooking>>
    BY <1>t, <2>1 DEF WindowsTypeOK
  <2>2. CASE CallsEnd(c)
    <3>1. PICK z, w : z = [t \in Threads |-> <<>>] /\ w = [t \in Threads |-> FALSE]
      OBVIOUS
    <3>2. frames' = [frames EXCEPT ![c] = z] /\ hooking' = [hooking EXCEPT ![c] = w]
      BY <2>2, <3>1 DEF CallsEnd
    <3>3. DOMAIN z = Threads /\ w \in [Threads -> BOOLEAN]
      BY <3>1
    <3> QED BY <1>t, <3>2, <3>3 DEF WindowsTypeOK
  <2> QED BY <2>1, <2>2
<1>4. WindowsTypeOK'
  <2>1. \A q \in Pids, u \in Threads : frames'[q][u] = frames[q][u] \/ frames'[q][u] = <<>>
    BY <1>2
  <2>2. runner' \in Runners
    BY <1>t DEF WindowsTypeOK
  <2>3. None \notin Pids
    BY <1>t
  <2>4. PICK p : p = None
    OBVIOUS
  <2> QED BY <1>t, <1>1, <1>3, <2>1, <2>2, <2>3, <2>4, TypesKept
<1>5. RootHeld'
  <2>1. CASE c = 1
    BY <1>t, <1>x, <1>1, <2>1 DEF WindowsIInv, RootHeld
  <2>2. CASE c # 1
    <3>1. runner # "idle" /\ procs[1] # None /\ procs'[1] = procs[1]
      BY <1>1, <2>2 DEF WindowsIInv, RootHeld, WindowsConstants
    <3> QED BY <3>1, RootKept
  <2> QED BY <2>1, <2>2
<1>6. \A d \in Pids : procs'[d] # None => procs[d] # None /\ procs'[d].parent = procs[d].parent
  BY <1>x, <1>1
<1>7. Unborn(c)'
  <2> SUFFICES ASSUME procs'[c].told # "yes"
               PROVE  /\ procs'[c].state \in {"suspended", "dead"}
                      /\ procs'[c].client = "none" /\ ~procs'[c].hooked
                      /\ \A u \in Threads : frames'[c][u] = <<>>
                      /\ \A d \in Pids : procs'[d] # None => procs'[d].parent # c
    BY DEF Unborn
  <2>1. procs[c].told # "yes"
    BY <1>x, <1>1
  <2>2. \A u \in Threads : frames'[c][u] = <<>>
    BY <1>t, <1>2, <2>1 DEF Unborn
  <2>3. procs[c].client = "none" /\ ~procs[c].hooked
    BY <1>t, <2>1 DEF Unborn
  <2>4. \A d \in Pids : procs'[d] # None => procs'[d].parent # c
    BY <1>t, <1>6, <2>1 DEF Unborn
  <2>5. ~procs'[c].hooked
    <3>1. procs'[c].hooked = procs[c].hooked
      BY <1>x, <1>1
    <3> QED BY <2>3, <3>1
  <2> QED BY <1>x, <1>1, <2>1, <2>2, <2>3, <2>4, <2>5
<1>8. Begun(c) => Begun(c)' /\ procs'[c].hooked = procs[c].hooked
  BY <1>x, <1>1 DEF Begun
<1>9. Raised(c)'
  <2>1. CASE procs[c].parent = None
    BY <1>t, <1>x, <1>1, <2>1 DEF Raised
  <2>2. CASE procs[c].parent # None
    <3>1. PICK q : q = procs[c].parent
      OBVIOUS
    <3>2. q \in Pids /\ procs[q] # None /\ Begun(q) /\ c # 1
      BY <1>t, <2>2, <3>1 DEF Raised, WindowsTypeOK, ProcessSet
    <3>3. procs'[q] # None /\ Begun(q)' /\ procs'[q].hooked = procs[q].hooked
      <4>1. CASE q = c
        BY <1>x, <1>1, <1>8, <3>2, <4>1
      <4>2. CASE q # c
        BY <1>1, <3>2, <4>2 DEF Begun
      <4> QED BY <4>1, <4>2
    <3> QED BY <1>t, <1>x, <1>1, <2>2, <3>1, <3>2, <3>3 DEF Raised
  <2> QED BY <2>1, <2>2
<1>10. PICK p : p = None
  OBVIOUS
<1>11. Shifts({c}, p, p)
  <2>1. /\ procs'[c] # None /\ procs'[c].parent = procs[c].parent /\ procs'[c].for = procs[c].for
        /\ procs'[c].asked = procs[c].asked /\ procs'[c].told = procs[c].told
        /\ procs'[c].payload = procs[c].payload /\ procs'[c].library = procs[c].library
    BY <1>x, <1>1
  <2>2. \A d \in Pids \ {c} : procs'[d] = procs[d]
    BY <1>1
  <2>3. p \notin Pids
    BY <1>t, <1>10
  <2> QED BY <1>2, <1>8, <2>1, <2>2, <2>3 DEF Shifts
<1> QED BY <1>t, <1>4, <1>5, <1>7, <1>9, <1>10, <1>11, ShiftsKeep

LEMMA LifeStates ==
  ASSUME WindowsConstants, WindowsIInv, NEW c \in Pids, procs[c] # None
  PROVE  /\ procs[c] \in ProcessSet /\ Unborn(c) /\ DOMAIN procs = Pids
         /\ procs[c].state \in {"running", "exiting"} => procs[c].told = "yes"
         /\ c = 1 /\ procs[c].told = "yes" => runner \in {"waiting", "closed"}
  BY DEF WindowsIInv, WindowsTypeOK, RootHeld, Unborn, Runners

LEMMA AttachKeeps ==
  ASSUME WindowsConstants, WindowsIInv, NEW c \in Pids, Attach(c)
  PROVE  WindowsIInv'
<1>1. /\ procs[c] # None /\ procs[c].state = "running" /\ procs[c].library
      /\ procs[c].client = "none" /\ UNCHANGED <<runner, frames, hooking>>
  BY DEF Attach, unchangedCalls
<1>2. /\ procs[c] \in ProcessSet /\ procs[c].told = "yes"
      /\ c = 1 => runner \in {"waiting", "closed"}
  BY <1>1, LifeStates
<1>3. PICK k \in Clients, b \in BOOLEAN :
        procs' = [procs EXCEPT ![c].client = k, ![c].hooked = b]
  BY DEF Attach, Clients
<1>4. PICK y : y = procs[c]
  OBVIOUS
<1>5. PICK w, x : w = [y EXCEPT !.client = k] /\ x = [w EXCEPT !.hooked = b]
  OBVIOUS
<1>6. /\ w \in ProcessSet /\ Same(w, y) /\ w.state = y.state /\ w.library = y.library
      /\ w.payload = y.payload /\ w.told = y.told
  BY <1>2, <1>4, <1>5, ClientSet
<1>7. /\ x \in ProcessSet /\ Same(x, y) /\ x.state = y.state /\ x.library = y.library
      /\ x.payload = y.payload /\ x.told = y.told
  BY <1>5, <1>6, HookedSet DEF Same
<1>8. procs' = [procs EXCEPT ![c] = x]
  BY <1>1, <1>3, <1>4, <1>5, LifeStates
<1>9. ~Begun(c)
  BY <1>1 DEF Begun
<1>10. LifeBecomes(c, x)
  BY <1>2, <1>4, <1>7, <1>8, <1>9 DEF LifeBecomes
<1> QED BY <1>1, <1>2, <1>10, LifeStep

LEMMA StateKeeps ==
  ASSUME WindowsConstants, WindowsIInv, NEW c \in Pids, NEW s \in States \ {"suspended"},
         procs[c] # None, procs' = [procs EXCEPT ![c].state = s],
         s # "dead" => procs[c].told = "yes",
         UNCHANGED runner, c = 1 => runner \in {"waiting", "closed"},
         UNCHANGED <<frames, hooking>> \/ CallsEnd(c)
  PROVE  WindowsIInv'
<1>1. procs[c] \in ProcessSet /\ DOMAIN procs = Pids
  BY LifeStates
<1>2. PICK y : y = procs[c]
  OBVIOUS
<1>3. PICK x : x = [y EXCEPT !.state = s]
  OBVIOUS
<1>4. /\ x \in ProcessSet /\ Same(x, y) /\ x.state = s /\ x.library = y.library
      /\ x.payload = y.payload /\ x.client = y.client /\ x.hooked = y.hooked /\ x.told = y.told
  BY <1>1, <1>2, <1>3, StateSet
<1>5. procs' = [procs EXCEPT ![c] = x]
  BY <1>1, <1>2, <1>3
<1>6. LifeBecomes(c, x)
  BY <1>2, <1>4, <1>5 DEF LifeBecomes
<1> QED BY <1>6, LifeStep

LEMMA LifeKeeps ==
  ASSUME WindowsConstants, WindowsIInv, NEW c \in Pids, NEW p \in Pids,
         Detach(c) \/ Die(c) \/ ResumeAsked(p, c)
  PROVE  WindowsIInv'
<1>1. /\ "dead" \in States \ {"suspended"} /\ "exiting" \in States \ {"suspended"}
      /\ "running" \in States \ {"suspended"}
  BY DEF States
<1>2. CASE Detach(c)
  <2>1. /\ procs[c] # None /\ procs[c].told = "yes"
        /\ procs' = [procs EXCEPT ![c].state = "exiting"] /\ UNCHANGED <<runner, frames, hooking>>
        /\ c = 1 => runner \in {"waiting", "closed"}
    BY <1>2, LifeStates DEF Detach, Program, Running, unchangedCalls
  <2> QED BY <1>1, <2>1, StateKeeps
<1>3. CASE Die(c)
  <2>1. /\ procs[c] # None /\ procs' = [procs EXCEPT ![c].state = "dead"] /\ UNCHANGED runner
        /\ c = 1 => runner \in {"waiting", "closed"}
        /\ CallsEnd(c)
    BY <1>3 DEF Die, CallsEnd
  <2> QED BY <1>1, <2>1, StateKeeps
<1>4. CASE ResumeAsked(p, c)
  <2>1. /\ procs[c] # None /\ procs[c].told = "yes"
        /\ procs' = [procs EXCEPT ![c].state = "running"] /\ UNCHANGED <<runner, frames, hooking>>
    BY <1>4 DEF ResumeAsked, unchangedCalls
  <2>2. c = 1 => runner \in {"waiting", "closed"}
    BY <2>1, LifeStates
  <2> QED BY <1>1, <2>1, <2>2, StateKeeps
<1> QED BY <1>2, <1>3, <1>4

-----------------------------------------------------------------------------
(* The runner.  Until it has let the first process go, there is only that. *)
LEMMA SpawnRootKeeps ==
  ASSUME WindowsConstants, WindowsIInv, SpawnRoot
  PROVE  WindowsIInv'
<1>1. /\ WindowsTypeOK /\ \A c \in Pids : procs[c] = None
      /\ None \notin ProcessSet /\ None \notin Pids /\ 1 \in Pids
  BY DEF WindowsIInv, RootHeld, SpawnRoot, WindowsConstants
<1>2. PICK x : x = Process(None, None, "suspended", FALSE, FALSE, None)
  OBVIOUS
<1>3. /\ x \in ProcessSet /\ x.parent = None /\ x.for = None /\ x.state = "suspended"
      /\ x.told = "pending" /\ x.client = "none" /\ ~x.hooked /\ ~x.library /\ ~x.payload
  BY <1>2 DEF Process, ProcessSet, Images, States, Clients, Answers
<1>4. /\ procs' = [procs EXCEPT ![1] = x] /\ runner' = "spawned" /\ UNCHANGED <<frames, hooking>>
  BY <1>2 DEF SpawnRoot, unchangedCalls
<1>5. /\ procs'[1] = x /\ \A d \in Pids \ {1} : procs'[d] = None
      /\ DOMAIN procs' = Pids /\ \A d \in Pids : procs'[d] # None => procs'[d] \in ProcessSet
  BY <1>1, <1>3, <1>4, ProcessSetTo
<1>6. ASSUME NEW p \in Pids, NEW t \in Threads PROVE frames[p][t] = <<>> /\ ~hooking[p][t]
  <2>1. Creating(p, t) /\ frames[p][t] = <<>>
    BY <1>1 DEF WindowsIInv, Creating
  <2>2. hooking[p][t] \in BOOLEAN
    BY <1>1 DEF WindowsTypeOK
  <2> QED BY <2>1, <2>2 DEF Creating, InCreation
<1>7. WindowsTypeOK'
  <2>1. \A q \in Pids, u \in Threads : FramesOK(q, u)'
    BY <1>4, <1>6 DEF FramesOK
  <2> QED BY <1>1, <1>4, <1>5, <2>1 DEF WindowsTypeOK, Runners
<1>8. RootHeld'
  BY <1>1, <1>3, <1>4, <1>5 DEF RootHeld
<1>9. Unborn(1)' /\ Raised(1)'
  <2>1. \A u \in Threads : frames'[1][u] = <<>>
    BY <1>1, <1>4, <1>6
  <2>2. \A d \in Pids : procs'[d] # None => procs'[d].parent # 1
    BY <1>1, <1>3, <1>5
  <2> QED BY <1>1, <1>3, <1>5, <2>1, <2>2 DEF Unborn, Raised
<1>10. ASSUME NEW p \in Pids, NEW t \in Threads PROVE Creating(p, t)'
  <2>1. frames'[p][t] = <<>> /\ hooking'[p][t] = FALSE
    BY <1>1, <1>4, <1>6 DEF WindowsTypeOK
  <2> QED BY <2>1 DEF Creating, InCreation
<1> QED BY <1>5, <1>7, <1>8, <1>9, <1>10 DEF WindowsIInv

LEMMA RootStep ==
  ASSUME WindowsConstants, WindowsIInv, NEW x \in ProcessSet,
         runner \in {"spawned", "injected", "prepared"},
         procs' = [procs EXCEPT ![1] = x], UNCHANGED <<frames, hooking>>,
         Same(x, procs[1]), x.client = procs[1].client, x.hooked = procs[1].hooked,
         runner' \in Runners \ {"idle"}, RootHeld',
         x.told # "yes" => x.state \in {"suspended", "dead"},
         x.told = "yes" => x.state = "running" /\ x.library /\ x.payload
  PROVE  WindowsIInv'
<1>1. /\ WindowsTypeOK /\ 1 \in Pids /\ procs[1] # None /\ procs[1].parent = None
      /\ procs[1].for = None /\ procs[1].told = "pending" /\ x # None
      /\ x.parent = None /\ x.for = None
      /\ None \notin Pids /\ None \notin ProcessSet
  BY DEF WindowsIInv, RootHeld, WindowsConstants, Same
<1>2. Unborn(1) /\ Raised(1) /\ ~Begun(1)
  BY <1>1 DEF WindowsIInv, Begun
<1>3. /\ procs'[1] = x /\ \A d \in Pids \ {1} : procs'[d] = procs[d]
      /\ DOMAIN procs' = Pids
      /\ \A d \in Pids : procs'[d] # None => procs'[d] \in ProcessSet
  BY <1>1, ProcessSetTo
<1>4. WindowsTypeOK'
  <2>1. \A q \in Pids, u \in Threads : frames'[q][u] = frames[q][u]
    OBVIOUS
  <2>2. PICK p : p = None
    OBVIOUS
  <2>3. /\ DOMAIN frames' = Pids /\ \A q \in Pids : DOMAIN frames'[q] = Threads
        /\ hooking' \in [Pids -> [Threads -> BOOLEAN]]
    BY <1>1 DEF WindowsTypeOK
  <2> QED BY <1>1, <1>3, <2>1, <2>2, <2>3, TypesKept
<1>5. Unborn(1)' /\ Raised(1)'
  <2>1. \A u \in Threads : frames'[1][u] = <<>>
    BY <1>1, <1>2 DEF Unborn
  <2>2. \A d \in Pids : procs'[d] # None => procs'[d].parent # 1
    BY <1>1, <1>2, <1>3 DEF Unborn
  <2>3. x.client = "none" /\ x.hooked = FALSE
    BY <1>1, <1>2 DEF Unborn, WindowsTypeOK, ProcessSet
  <2> QED BY <1>1, <1>3, <2>1, <2>2, <2>3 DEF Unborn, Raised
<1>6. ASSUME NEW q \in Pids, NEW u \in Threads, InCreation(q, u) PROVE frames[q][u][1].child # 1
  <2>1. Creating(q, u) /\ q # None
    BY <1>1 DEF WindowsIInv
  <2>2. PICK g : g = frames[q][u][1]
    OBVIOUS
  <2> QED BY <1>1, <1>6, <2>1, <2>2 DEF Creating
<1>7. PICK p : p = None
  OBVIOUS
<1>8. Shifts({1}, p, p)
  <2>1. procs'[1] # None /\ procs'[1].parent = procs[1].parent /\ procs'[1].for = procs[1].for
        /\ procs'[1].asked = procs[1].asked
    BY <1>1, <1>3 DEF Same
  <2>2. \A q \in Pids, u \in Threads :
          frames'[q][u] = frames[q][u] /\ hooking'[q][u] = hooking[q][u]
    OBVIOUS
  <2>3. p \notin Pids
    BY <1>1, <1>7
  <2>4. ASSUME NEW c \in {1}
        PROVE  /\ c = 1 /\ procs[c] # None /\ ~Begun(c)
               /\ \A q \in Pids, u \in Threads : InCreation(q, u) => frames[q][u][1].child # c
    BY <1>1, <1>2, <1>6
  <2> QED BY <1>3, <2>1, <2>2, <2>3, <2>4 DEF Shifts
<1> QED BY <1>1, <1>4, <1>5, <1>7, <1>8, ShiftsKeep

LEMMA RunnerKeeps ==
  ASSUME WindowsConstants, WindowsIInv,
         UpdateRoot \/ CopyToRoot \/ ResumeRoot \/ PreparationFails
  PROVE  WindowsIInv'
<1>1. /\ runner \in {"spawned", "injected", "prepared"} /\ UNCHANGED <<frames, hooking>>
      /\ 1 \in Pids /\ DOMAIN procs = Pids
  BY DEF UpdateRoot, CopyToRoot, ResumeRoot, PreparationFails, unchangedCalls, WindowsConstants,
         WindowsIInv, WindowsTypeOK
<1>2. PICK y : y = procs[1]
  OBVIOUS
<1>3. /\ y \in ProcessSet /\ y # None /\ y.parent = None /\ y.for = None /\ y.told = "pending"
      /\ y.state = "suspended"
      /\ runner \in {"injected", "prepared"} => y.library
      /\ runner = "prepared" => y.payload
  BY <1>1, <1>2 DEF WindowsIInv, RootHeld, WindowsTypeOK
<1>n. None \notin ProcessSet
  BY DEF WindowsConstants
<1>4. CASE UpdateRoot
  <2>1. PICK x : x = [y EXCEPT !.library = TRUE]
    OBVIOUS
  <2>2. /\ x \in ProcessSet /\ Same(x, y) /\ x.state = y.state /\ x.library
        /\ x.payload = y.payload /\ x.client = y.client /\ x.hooked = y.hooked /\ x.told = y.told
    BY <1>3, <2>1, LibrarySet
  <2>3. procs' = [procs EXCEPT ![1] = x] /\ runner' = "injected"
    BY <1>1, <1>2, <1>4, <2>1 DEF UpdateRoot
  <2>4. procs'[1] = x
    BY <1>1, <2>3
  <2>5. RootHeld'
    BY <1>3, <1>n, <2>2, <2>3, <2>4 DEF RootHeld, Same
  <2> QED BY <1>1, <1>2, <1>3, <2>2, <2>3, <2>5, RootStep DEF Runners
<1>5. CASE CopyToRoot
  <2>1. PICK x : x = [y EXCEPT !.payload = TRUE]
    OBVIOUS
  <2>2. /\ x \in ProcessSet /\ Same(x, y) /\ x.state = y.state /\ x.library = y.library
        /\ x.payload /\ x.client = y.client /\ x.hooked = y.hooked /\ x.told = y.told
    BY <1>3, <2>1, PayloadSet
  <2>3. procs' = [procs EXCEPT ![1] = x] /\ runner' = "prepared" /\ runner = "injected"
    BY <1>1, <1>2, <1>5, <2>1 DEF CopyToRoot
  <2>4. procs'[1] = x
    BY <1>1, <2>3
  <2>5. RootHeld'
    BY <1>3, <1>n, <2>2, <2>3, <2>4 DEF RootHeld, Same
  <2> QED BY <1>1, <1>2, <1>3, <2>2, <2>3, <2>5, RootStep DEF Runners
<1>6. ASSUME NEW s \in {"running", "dead"}, NEW a \in {"yes", "no"},
             procs' = [procs EXCEPT ![1].state = s, ![1].told = a]
      PROVE  \E x \in ProcessSet :
               /\ procs' = [procs EXCEPT ![1] = x] /\ procs'[1] = x
               /\ Same(x, y) /\ x.state = s /\ x.library = y.library
               /\ x.payload = y.payload /\ x.client = y.client /\ x.hooked = y.hooked /\ x.told = a
  <2>1. PICK w, x : w = [y EXCEPT !.state = s] /\ x = [w EXCEPT !.told = a]
    OBVIOUS
  <2>2. s \in States /\ a \in Answers
    BY DEF States, Answers
  <2>3. /\ w \in ProcessSet /\ Same(w, y) /\ w.state = s /\ w.library = y.library
        /\ w.payload = y.payload /\ w.client = y.client /\ w.hooked = y.hooked
    BY <1>3, <2>1, <2>2, StateSet
  <2>4. /\ x \in ProcessSet /\ Same(x, y) /\ x.state = s /\ x.library = y.library
        /\ x.payload = y.payload /\ x.client = y.client /\ x.hooked = y.hooked /\ x.told = a
    BY <2>1, <2>2, <2>3, ToldSet DEF Same
  <2>5. procs' = [procs EXCEPT ![1] = x] /\ procs'[1] = x
    BY <1>1, <1>2, <1>6, <2>1
  <2> QED BY <2>4, <2>5
<1>7. CASE ResumeRoot
  <2>1. procs' = [procs EXCEPT ![1].state = "running", ![1].told = "yes"]
        /\ runner' = "waiting" /\ runner = "prepared"
    BY <1>7 DEF ResumeRoot
  <2>2. PICK x \in ProcessSet :
          /\ procs' = [procs EXCEPT ![1] = x] /\ procs'[1] = x
          /\ Same(x, y) /\ x.state = "running" /\ x.library = y.library
          /\ x.payload = y.payload /\ x.client = y.client /\ x.hooked = y.hooked /\ x.told = "yes"
    BY <1>6, <2>1
  <2>3. RootHeld'
    BY <1>3, <1>n, <2>1, <2>2 DEF RootHeld, Same
  <2> QED BY <1>1, <1>2, <1>3, <2>1, <2>2, <2>3, RootStep DEF Runners
<1>8. CASE PreparationFails
  <2>1. procs' = [procs EXCEPT ![1].state = "dead", ![1].told = "no"] /\ runner' = "failed"
    BY <1>8 DEF PreparationFails
  <2>2. PICK x \in ProcessSet :
          /\ procs' = [procs EXCEPT ![1] = x] /\ procs'[1] = x
          /\ Same(x, y) /\ x.state = "dead" /\ x.library = y.library
          /\ x.payload = y.payload /\ x.client = y.client /\ x.hooked = y.hooked /\ x.told = "no"
    BY <1>6, <2>1
  <2>3. RootHeld'
    BY <1>3, <1>n, <2>1, <2>2 DEF RootHeld, Same
  <2> QED BY <1>1, <1>2, <1>3, <2>1, <2>2, <2>3, RootStep DEF Runners
<1> QED BY <1>4, <1>5, <1>7, <1>8

LEMMA StandingKeeps ==
  ASSUME WindowsIInv, UNCHANGED windowsVars \/ CloseChannel
  PROVE  WindowsIInv'
<1>1. UNCHANGED <<procs, frames, hooking>>
  BY DEF windowsVars, CloseChannel, unchangedCalls
<1>2. WindowsTypeOK' /\ RootHeld'
  <2>1. \A p \in Pids, t \in Threads : FramesOK(p, t)'
    BY <1>1 DEF WindowsIInv, WindowsTypeOK, FramesOK
  <2> QED BY <1>1, <2>1 DEF WindowsIInv, WindowsTypeOK, RootHeld, windowsVars, CloseChannel, Runners
<1>3. ASSUME NEW c \in Pids, procs'[c] # None PROVE Unborn(c)' /\ Raised(c)'
  <2>1. Unborn(c) /\ Raised(c)
    BY <1>1, <1>3 DEF WindowsIInv
  <2> QED BY <1>1, <2>1 DEF Unborn, Raised, Begun
<1>4. ASSUME NEW p \in Pids, NEW t \in Threads PROVE Creating(p, t)'
  <2>1. Creating(p, t)
    BY DEF WindowsIInv
  <2> QED BY <1>1, <2>1 DEF Creating, InCreation, Begun
<1> QED BY <1>2, <1>3, <1>4 DEF WindowsIInv

-----------------------------------------------------------------------------
(* The calls of a thread.                                                  *)
KeepsChild(p, t) ==
  InCreation(p, t)' =>
    \A d \in Pids : procs[d] # None /\ frames'[p][t][1].child = d =>
      InCreation(p, t) /\ frames[p][t][1].child = d

LEMMA CallStep ==
  ASSUME WindowsConstants, WindowsIInv, NEW p \in Pids, NEW t \in Threads,
         UNCHANGED <<runner, procs>>, NEW v, frames' = [frames EXCEPT ![p][t] = v],
         UNCHANGED hooking \/ \E b \in BOOLEAN : hooking' = [hooking EXCEPT ![p][t] = b],
         FramesOK(p, t)', Creating(p, t)', KeepsChild(p, t)
  PROVE  WindowsIInv'
<1>1. WindowsTypeOK
  BY DEF WindowsIInv
<1>2. /\ DOMAIN frames' = Pids /\ \A q \in Pids : DOMAIN frames'[q] = Threads
      /\ \A q \in Pids, u \in Threads : q # p \/ u # t => frames'[q][u] = frames[q][u]
  BY <1>1, CallsSet
<1>3. /\ hooking' \in [Pids -> [Threads -> BOOLEAN]]
      /\ \A q \in Pids, u \in Threads : q # p \/ u # t => hooking'[q][u] = hooking[q][u]
  BY <1>1, HookingSet DEF WindowsTypeOK
<1>4. WindowsTypeOK'
  <2>1. /\ runner' \in Runners /\ DOMAIN procs' = Pids
        /\ \A d \in Pids : procs'[d] # None => procs'[d] \in ProcessSet
    BY <1>1 DEF WindowsTypeOK
  <2> QED BY <1>1, <1>2, <1>3, <2>1, TypesKept
<1>5. RootHeld'
  BY DEF WindowsIInv, RootHeld
<1>6. Shifts({}, p, t)
  <2>1. frames'[p][t] # <<>> => procs[p] # None /\ Begun(p)
    BY DEF Creating, Begun
  <2> QED BY <1>2, <1>3, <2>1 DEF Shifts, KeepsChild
<1> QED BY <1>4, <1>5, <1>6, ShiftsKeep

(* The first call of a thread is as it was.                                *)
LEMMA FirstKept ==
  ASSUME WindowsIInv, NEW p \in Pids, NEW t \in Threads,
         frames[p][t] # <<>>, frames'[p][t] # <<>>, frames'[p][t][1] = frames[p][t][1],
         \A u \in Threads \ {t} : frames'[p][u] = frames[p][u],
         hooking'[p][t] = hooking[p][t],
         \A d \in Pids : procs[d] # None => procs'[d] = procs[d],
         FramesOK(p, t), None \notin ProcessSet
  PROVE  Creating(p, t)' /\ KeepsChild(p, t)
<1>1. PICK f : f = frames[p][t][1]
  OBVIOUS
<1>2. Creating(p, t) /\ procs[p] # None /\ Begun(p) /\ procs'[p] = procs[p]
  BY DEF WindowsIInv, Creating
<1>3. InCreation(p, t)' = InCreation(p, t)
  BY DEF InCreation
<1>4. KeepsChild(p, t)
  BY <1>3 DEF KeepsChild
<1>5. CASE ~InCreation(p, t)
  BY <1>2, <1>3, <1>4, <1>5 DEF Creating, Begun
<1>6. CASE InCreation(p, t) /\ f.child = None
  BY <1>1, <1>2, <1>3, <1>4, <1>6 DEF Creating, Begun
<1>7. CASE InCreation(p, t) /\ f.child # None
  <2>1. f \in Creations
    BY <1>1, <1>7, OneCall, TwoCalls DEF FramesOK, InCreation
  <2>2. PICK c \in Pids : c = f.child
    BY <1>7, <2>1 DEF Creations
  <2>3. procs[c] # None /\ procs'[c] = procs[c]
    BY <1>1, <1>2, <1>7, <2>2 DEF Creating
  <2>4. ASSUME NEW u \in Threads, InCreation(p, u)', frames'[p][u][1].child = c PROVE u = t
    <3>1. InCreation(p, u) /\ frames[p][u][1].child = c
      BY <1>1, <1>7, <2>2, <2>4 DEF InCreation
    <3> QED BY <1>1, <1>2, <1>7, <2>2, <3>1 DEF Creating
  <2>5. Begun(p)'
    BY <1>2 DEF Begun
  <2> QED BY <1>1, <1>2, <1>3, <1>4, <1>7, <2>2, <2>3, <2>4, <2>5 DEF Creating
<1> QED BY <1>5, <1>6, <1>7

(* Whoever runs a program has begun.                                       *)
LEMMA ProgramBegun ==
  ASSUME WindowsIInv, NEW p \in Pids, Program(p)
  PROVE  procs[p] # None /\ Begun(p) /\ procs[p].hooked \in BOOLEAN
BY DEF WindowsIInv, Program, Running, Unborn, Begun, WindowsTypeOK, ProcessSet

LEMMA TouchKeeps ==
  ASSUME WindowsConstants, WindowsIInv, NEW p \in Pids, NEW t \in Threads, Touch(p, t)
  PROVE  WindowsIInv'
<1>1. Program(p) /\ frames[p][t] = <<>> /\ UNCHANGED <<runner, procs, hooking>>
  BY DEF Touch
<1>2. PICK f : Nt(f) /\ Pushed(p, t, f)
  <2>1. PICK call \in Calls : Pushed(p, t, [step |-> "nt", call |-> call])
    BY DEF Touch
  <2>2. PICK f : f = [step |-> "nt", call |-> call]
    OBVIOUS
  <2> QED BY <2>1, <2>2 DEF Nt
<1>3. frames' = [frames EXCEPT ![p][t] = <<f>>]
  <2>1. PICK v : v = frames[p][t]
    OBVIOUS
  <2>2. Append(v, f) = <<f>>
    BY <1>1, <2>1, OneCall
  <2> QED BY <1>2, <2>1, <2>2 DEF Pushed
<1>4. /\ frames'[p][t] = <<f>> /\ frames'[p][t] # <<>> /\ frames'[p][t][1] = f
  <2>1. WindowsTypeOK
    BY DEF WindowsIInv
  <2> QED BY <1>3, <2>1, CallsSet, OneCall
<1>5. FramesOK(p, t)' /\ ~InCreation(p, t)'
  BY <1>2, <1>4 DEF FramesOK, InCreation
<1>6. hooking[p][t] = FALSE
  <2>1. Creating(p, t)
    BY DEF WindowsIInv
  <2> QED BY <1>1, <2>1 DEF Creating, InCreation
<1>7. Begun(p)' /\ procs'[p] # None
  BY <1>1, ProgramBegun DEF Begun
<1>8. Creating(p, t)' /\ KeepsChild(p, t)
  BY <1>1, <1>5, <1>6, <1>7 DEF Creating, KeepsChild
<1> QED BY <1>1, <1>3, <1>5, <1>8, CallStep

LEMMA ForwardKeeps ==
  ASSUME WindowsConstants, WindowsIInv, NEW p \in Pids, NEW t \in Threads, Forward(p, t)
  PROVE  WindowsIInv'
<1>1. /\ frames[p][t] # <<>> /\ Last(frames[p][t]).step = "nt"
      /\ frames' = [frames EXCEPT ![p][t] = Front(@)] /\ UNCHANGED <<runner, procs, hooking>>
  BY DEF Forward, Stands
<1>2. PICK f : frames[p][t] = <<f>> /\ Nt(f)
  <2>1. FramesOK(p, t)
    BY DEF WindowsIInv, WindowsTypeOK
  <2>2. ASSUME NEW f, frames[p][t] = <<f>> PROVE Nt(f)
    <3>1. Last(<<f>>) = f
      BY OneCall
    <3> QED BY <1>1, <2>2, <3>1 DEF Nt
  <2>3. ASSUME NEW f, NEW g, frames[p][t] = <<f, g>> PROVE g.step = "nt"
    <3>1. Last(<<f, g>>) = g
      BY TwoCalls
    <3> QED BY <1>1, <2>3, <3>1
  <2> QED BY <1>1, <2>1, <2>2, <2>3 DEF FramesOK
<1>3. frames' = [frames EXCEPT ![p][t] = <<>>]
  <2>1. Front(<<f>>) = <<>>
    BY OneCall
  <2> QED BY <1>1, <1>2, <2>1
<1>4. frames'[p][t] = <<>>
  <2>1. WindowsTypeOK
    BY DEF WindowsIInv
  <2> QED BY <1>3, <2>1, CallsSet
<1>5. hooking[p][t] = FALSE
  <2>1. Creating(p, t) /\ ~InCreation(p, t)
    BY <1>2, OneCall DEF WindowsIInv, InCreation
  <2> QED BY <2>1 DEF Creating
<1>6. FramesOK(p, t)' /\ Creating(p, t)' /\ KeepsChild(p, t)
  BY <1>1, <1>4, <1>5 DEF FramesOK, Creating, KeepsChild, InCreation
<1> QED BY <1>1, <1>3, <1>6, CallStep

(* Whichever way a program calls CreateProcess, the detour is in it.       *)
LEMMA Reached ==
  ASSUME WindowsConstants, NEW p, procs[p].hooked \in BOOLEAN,
         NEW symbol \in {"CreateProcessW", "CreateProcessA"}, NEW via \in Libraries
  PROVE  Intercepted(p, symbol, via) = procs[p].hooked
<1>1. symbol \in Exports.kernelbase /\ None # "kernelbase"
  BY DEF WindowsConstants
<1>2. Target(symbol) = "kernelbase" /\ Implementation(symbol, via) = "kernelbase"
  BY <1>1 DEF Target, Implementation, Libraries
<1> QED BY <1>1, <1>2 DEF Intercepted

LEMMA CreateProcessKeeps ==
  ASSUME WindowsConstants, WindowsIInv, NEW p \in Pids, NEW t \in Threads,
         NEW symbol \in {"CreateProcessW", "CreateProcessA"}, NEW via \in Libraries,
         NEW asked \in BOOLEAN, NEW foreign \in BOOLEAN,
         CreateProcess(p, t, symbol, via, asked, foreign)
  PROVE  WindowsIInv'
<1>1. Program(p) /\ procs[p] # None /\ Begun(p) /\ procs[p].hooked \in BOOLEAN
      /\ UNCHANGED <<runner, procs>> /\ WindowsTypeOK /\ Creating(p, t) /\ FramesOK(p, t)
      /\ None \notin Pids /\ None \notin ProcessSet
  BY ProgramBegun DEF CreateProcess, Free, WindowsIInv, WindowsTypeOK, WindowsConstants
<1>2. Intercepted(p, symbol, via) = procs[p].hooked
  BY <1>1, Reached
<1>3. hooking[p][t] \in BOOLEAN
  BY <1>1 DEF WindowsTypeOK
<1>4. PICK f : f = [step |-> "called", child |-> None,
                    detoured |-> Intercepted(p, symbol, via) /\ ~AlreadyHooking(p, t),
                    asked |-> asked, foreign |-> foreign, for |-> HelperFor(p, t)]
  OBVIOUS
<1>5. PICK v, w : v = frames[p][t] /\ w = Append(v, f)
  OBVIOUS
<1>6. frames' = [frames EXCEPT ![p][t] = w]
  BY <1>4, <1>5 DEF CreateProcess, Pushed
<1>7. frames'[p][t] = w /\ \A q \in Pids, u \in Threads : q # p \/ u # t => frames'[q][u] = frames[q][u]
  <2>1. WindowsTypeOK
    BY <1>1
  <2> QED BY <1>6, <2>1, CallsSet, ZenonT(40)
<1>8. hooking' = IF procs[p].hooked THEN [hooking EXCEPT ![p][t] = TRUE] ELSE hooking
  BY <1>2 DEF CreateProcess
<1>9. UNCHANGED hooking \/ \E b \in BOOLEAN : hooking' = [hooking EXCEPT ![p][t] = b]
  BY <1>8
<1>10. /\ procs[p].hooked => hooking'[p][t] = TRUE
       /\ ~procs[p].hooked => hooking'[p][t] = hooking[p][t]
  BY <1>1, <1>8 DEF WindowsTypeOK
<1>11. CASE frames[p][t] = <<>>
  <2>1. hooking[p][t] = FALSE
    BY <1>1, <1>11 DEF Creating, InCreation
  <2>2. /\ f \in Creations /\ f.step = "called" /\ f.child = None /\ f.for = None
        /\ f.detoured = procs[p].hooked
    BY <1>1, <1>2, <1>4, <1>11, <2>1 DEF HelperFor, AlreadyHooking, Creations, Steps
  <2>3. w = <<f>>
    BY <1>5, <1>11, OneCall
  <2>4. frames'[p][t] = <<f>> /\ frames'[p][t] # <<>> /\ frames'[p][t][1] = f
    BY <1>7, <2>3, OneCall
  <2>5. InCreation(p, t)'
    BY <2>2, <2>4 DEF InCreation, Nt
  <2>6. hooking'[p][t] = (InCreation(p, t)' /\ f.detoured)
    BY <1>1, <1>10, <2>1, <2>2, <2>5
  <2>7. FramesOK(p, t)'
    BY <2>2, <2>4 DEF FramesOK
  <2>8. Creating(p, t)'
    BY <1>1, <2>2, <2>4, <2>5, <2>6 DEF Creating, Begun
  <2>9. KeepsChild(p, t)
    <3>1. procs[None] = None \/ None \notin Pids
      BY <1>1
    <3> QED BY <1>1, <2>2, <2>4 DEF KeepsChild
  <2> QED BY <1>1, <1>6, <1>9, <2>7, <2>8, <2>9, CallStep
<1>12. CASE frames[p][t] # <<>>
  <2>1. Stands(p, t, "helping") /\ "helping" \in Steps \ {"called"}
    BY <1>12 DEF CreateProcess, Free, Program, Stands, Steps
  <2>2. PICK g \in Creations, c \in Pids :
          frames[p][t] = <<g>> /\ g.step = "helping" /\ Made(p, t, g, c)
    BY <2>1, Waiting
  <2>3. Last(<<g>>) = g /\ g.child = c /\ hooking[p][t] = TRUE /\ procs[p].hooked
    BY <1>3, <2>2, OneCall DEF Made
  <2>4. HelperFor(p, t) = c
    BY <1>12, <2>2, <2>3 DEF HelperFor
  <2>5. /\ f \in Creations /\ f.step = "called" /\ f.child = None /\ f.for # None /\ ~f.detoured
    BY <1>1, <1>2, <1>4, <2>3, <2>4 DEF AlreadyHooking, Creations, Steps
  <2>6. w = <<g, f>>
    BY <1>5, <2>2, TwoCalls
  <2>7. /\ frames'[p][t] = <<g, f>> /\ frames'[p][t] # <<>> /\ frames'[p][t][1] = g
        /\ frames[p][t][1] = g
    BY <1>7, <2>2, <2>6, OneCall, TwoCalls
  <2>8. FramesOK(p, t)'
    BY <2>2, <2>5, <2>7 DEF FramesOK
  <2>9. hooking'[p][t] = hooking[p][t]
    BY <1>10, <2>3
  <2>10. Creating(p, t)' /\ KeepsChild(p, t)
    BY <1>1, <1>7, <1>12, <2>7, <2>9, FirstKept
  <2> QED BY <1>1, <1>6, <1>9, <2>8, <2>10, CallStep
<1> QED BY <1>11, <1>12

(* A call that has made nothing yet is the only one of its thread, or the  *)
(* one by which its first call starts a helper.                            *)
LEMMA Called ==
  ASSUME WindowsConstants, WindowsIInv, NEW p \in Pids, NEW t \in Threads, Stands(p, t, "called")
  PROVE  /\ procs[p] # None /\ Begun(p) /\ procs[p].hooked \in BOOLEAN
         /\ \/ \E f \in Creations :
                 /\ frames[p][t] = <<f>> /\ Last(frames[p][t]) = f /\ Front(frames[p][t]) = <<>>
                 /\ Len(frames[p][t]) = 1
                 /\ f.step = "called" /\ f.child = None /\ f.for = None
                 /\ f.detoured = procs[p].hooked /\ hooking[p][t] = f.detoured
            \/ \E f, g \in Creations, c \in Pids :
                 /\ frames[p][t] = <<f, g>> /\ Last(frames[p][t]) = g
                 /\ Front(frames[p][t]) = <<f>> /\ Len(frames[p][t]) = 2
                 /\ frames[p][t][1] = f
                 /\ f.step = "helping" /\ Made(p, t, f, c)
                 /\ ~g.detoured /\ g.for # None
<1>1. Creating(p, t) /\ frames[p][t] # <<>> /\ "called" \in Steps /\ WindowsTypeOK
  BY DEF WindowsIInv, Stands, Steps
<1>2. procs[p] # None /\ Begun(p) /\ procs[p].hooked \in BOOLEAN
  BY <1>1 DEF Creating, WindowsTypeOK, ProcessSet
<1>3. ASSUME NEW f \in Creations, frames[p][t] = <<f>>, f.step = "called"
      PROVE  /\ Last(frames[p][t]) = f /\ Front(frames[p][t]) = <<>> /\ Len(frames[p][t]) = 1
             /\ f.child = None /\ f.for = None
             /\ f.detoured = procs[p].hooked /\ hooking[p][t] = f.detoured
  <2>1. /\ Last(frames[p][t]) = f /\ Front(frames[p][t]) = <<>> /\ Len(frames[p][t]) = 1
        /\ frames[p][t][1] = f
    BY <1>3, OneCall
  <2>2. InCreation(p, t)
    BY <1>1, <1>3, <2>1 DEF InCreation, Nt
  <2>3. f.child = None /\ f.for = None /\ f.detoured = procs[p].hooked
    BY <1>1, <1>3, <2>1, <2>2 DEF Creating
  <2>4. hooking[p][t] = f.detoured
    <3>1. f.detoured \in BOOLEAN
      BY DEF Creations
    <3> QED BY <1>1, <2>1, <2>2, <3>1 DEF Creating
  <2> QED BY <2>1, <2>3, <2>4
<1>4. ASSUME NEW f \in Creations, NEW g \in Creations, frames[p][t] = <<f, g>>, f.step = "helping"
      PROVE  /\ Last(frames[p][t]) = g /\ Front(frames[p][t]) = <<f>> /\ Len(frames[p][t]) = 2
             /\ frames[p][t][1] = f /\ \E c \in Pids : Made(p, t, f, c)
  <2>1. /\ Last(frames[p][t]) = g /\ Front(frames[p][t]) = <<f>> /\ Len(frames[p][t]) = 2
        /\ frames[p][t][1] = f
    <3>1. /\ Last(<<f, g>>) = g /\ Front(<<f, g>>) = <<f>> /\ Len(<<f, g>>) = 2
          /\ <<f, g>>[1] = f
      BY TwoCalls
    <3> QED BY <1>4, <3>1
  <2> QED BY <1>1, <1>4, <2>1, MadeBy
<1>5. CASE \E f \in Creations : frames[p][t] = <<f>> /\ f.step = "called"
  BY <1>2, <1>3, <1>5
<1>6. CASE \E f, g \in Creations :
             /\ frames[p][t] = <<f, g>> /\ f.step = "helping"
             /\ g.step = "called" /\ g.child = None /\ ~g.detoured /\ g.for # None
  <2>1. PICK f \in Creations, g \in Creations :
          frames[p][t] = <<f, g>> /\ f.step = "helping" /\ ~g.detoured /\ g.for # None
    BY <1>6
  <2>2. PICK c \in Pids : Made(p, t, f, c)
    BY <1>4, <2>1
  <2> QED BY <1>2, <1>4, <2>1, <2>2
<1> QED BY <1>1, <1>5, <1>6, Shape

LEMMA RealCreateFailsKeeps ==
  ASSUME WindowsConstants, WindowsIInv, NEW p \in Pids, NEW t \in Threads, RealCreateFails(p, t)
  PROVE  WindowsIInv'
<1>1. /\ Stands(p, t, "called") /\ UNCHANGED <<runner, procs>>
      /\ IF Len(frames[p][t]) = 1 THEN Returns(p, t)
         ELSE /\ frames' = [frames EXCEPT ![p][t] = <<[@[1] EXCEPT !.step = "unhelped"]>>]
              /\ UNCHANGED hooking
      /\ WindowsTypeOK
  BY DEF RealCreateFails, WindowsIInv
<1>2. CASE \E f \in Creations :
             /\ frames[p][t] = <<f>> /\ Last(frames[p][t]) = f /\ Front(frames[p][t]) = <<>>
             /\ Len(frames[p][t]) = 1 /\ hooking[p][t] = f.detoured
  <2>1. PICK f \in Creations :
          /\ Last(frames[p][t]) = f /\ Front(frames[p][t]) = <<>>
          /\ Len(frames[p][t]) = 1 /\ hooking[p][t] = f.detoured
    BY <1>2
  <2>2. /\ frames' = [frames EXCEPT ![p][t] = <<>>]
        /\ hooking' = IF f.detoured THEN [hooking EXCEPT ![p][t] = FALSE] ELSE hooking
    BY <1>1, <2>1 DEF Returns
  <2>3. frames'[p][t] = <<>>
    <3>1. WindowsTypeOK /\ frames' = [frames EXCEPT ![p][t] = <<>>]
      BY <1>1, <2>2
    <3> QED BY <3>1, CallsSet
  <2>4. hooking'[p][t] = FALSE
    <3>1. WindowsTypeOK
      BY <1>1
    <3>2. CASE f.detoured
      BY <2>2, <3>1, <3>2 DEF WindowsTypeOK
    <3>3. CASE ~f.detoured
      <4>1. f.detoured = FALSE
        BY <3>3 DEF Creations
      <4> QED BY <2>1, <2>2, <3>3, <4>1
    <3> QED BY <3>2, <3>3
  <2>5. UNCHANGED hooking \/ \E b \in BOOLEAN : hooking' = [hooking EXCEPT ![p][t] = b]
    BY <2>2
  <2>6. FramesOK(p, t)' /\ Creating(p, t)' /\ KeepsChild(p, t)
    BY <2>3, <2>4 DEF FramesOK, Creating, KeepsChild, InCreation
  <2> QED BY <1>1, <2>2, <2>5, <2>6, CallStep
<1>3. CASE \E f \in Creations, c \in Pids :
             /\ Len(frames[p][t]) = 2 /\ frames[p][t][1] = f /\ f.step = "helping"
             /\ Made(p, t, f, c)
  <2>1. PICK f \in Creations, c \in Pids :
          /\ Len(frames[p][t]) = 2 /\ frames[p][t][1] = f /\ f.step = "helping"
          /\ Made(p, t, f, c)
    BY <1>3
  <2>2. PICK g : g = [f EXCEPT !.step = "unhelped"]
    OBVIOUS
  <2>3. /\ g \in Creations /\ g.step = "unhelped" /\ g.child = c /\ g.for = None
        /\ g.detoured /\ g.asked = f.asked
    <3>1. /\ g \in Creations /\ g.step = "unhelped" /\ g.child = f.child /\ g.for = f.for
          /\ g.detoured = f.detoured /\ g.asked = f.asked
      <4>1. "unhelped" \in Steps
        BY DEF Steps
      <4> QED BY <2>2, <4>1, StepSet
    <3>2. f.child = c /\ f.for = None /\ f.detoured
      BY <2>1 DEF Made
    <3>3. g.detoured
      BY <3>1, <3>2
    <3> QED BY <3>1, <3>2, <3>3
  <2>4. frames' = [frames EXCEPT ![p][t] = <<g>>] /\ UNCHANGED hooking
    BY <1>1, <2>1, <2>2
  <2>5. /\ procs[c] \in ProcessSet /\ DOMAIN procs = Pids /\ procs[c].told = "pending"
        /\ procs[c].state \in {"suspended", "dead"} /\ procs[c].payload
    BY <1>1, <2>1 DEF WindowsIInv, WindowsTypeOK, Made, Unborn
  <2>6. PICK x : x = procs[c]
    OBVIOUS
  <2>7. GoesOn(p, t, f, c, x, g)
    BY <2>3, <2>4, <2>5, <2>6 DEF GoesOn
  <2>8. ChildBecomes(c, x, {})
    BY <1>1, <2>5, <2>6 DEF ChildBecomes, Same
  <2> QED BY <1>1, <2>1, <2>7, <2>8, ChildStep
<1> QED BY <1>1, <1>2, <1>3, Called

-----------------------------------------------------------------------------
(* The kernel makes a process.                                             *)
LEMMA NewChild ==
  ASSUME WindowsConstants, WindowsIInv, NEW p \in Pids, NEW t \in Threads,
         NEW c \in Pids, procs[c] = None, NEW x \in ProcessSet, procs' = [procs EXCEPT ![c] = x],
         x.parent = p, ~x.library, ~x.payload, x.client = "none", ~x.hooked,
         \/ x.told = "pending" /\ x.state = "suspended"
         \/ /\ x.told = "yes" /\ (x.state = "suspended" => x.asked)
            /\ x.for = None => ~procs[p].hooked,
         procs[p] # None, Begun(p), UNCHANGED <<runner, hooking>>,
         NEW v, frames' = [frames EXCEPT ![p][t] = v],
         FramesOK(p, t)', Creating(p, t)', KeepsChild(p, t)
  PROVE  WindowsIInv'
<1>1. WindowsTypeOK /\ None \notin ProcessSet /\ None \notin Pids /\ c # p /\ x # None
      /\ RootHeld
  BY DEF WindowsIInv, WindowsConstants
<1>2. /\ procs'[c] = x /\ \A d \in Pids \ {c} : procs'[d] = procs[d]
      /\ DOMAIN procs' = Pids /\ \A d \in Pids : procs'[d] # None => procs'[d] \in ProcessSet
  <2>1. WindowsTypeOK
    BY <1>1
  <2> QED BY <2>1, ProcessSetTo
<1>3. /\ DOMAIN frames' = Pids /\ \A q \in Pids : DOMAIN frames'[q] = Threads
      /\ \A q \in Pids, u \in Threads : q # p \/ u # t => frames'[q][u] = frames[q][u]
  <2>1. DOMAIN frames = Pids /\ \A q \in Pids : DOMAIN frames[q] = Threads
    BY <1>1 DEF WindowsTypeOK
  <2>2. frames' = [frames EXCEPT ![p][t] = v]
    OBVIOUS
  <2> QED BY <2>1, <2>2
<1>4. runner # "idle" /\ procs[1] # None /\ c # 1
  BY <1>1 DEF RootHeld
<1>5. WindowsTypeOK'
  <2>1. runner' \in Runners /\ hooking' \in [Pids -> [Threads -> BOOLEAN]] /\ WindowsTypeOK
    BY <1>1 DEF WindowsTypeOK
  <2> QED BY <1>2, <1>3, <2>1, TypesKept
<1>6. RootHeld'
  <2>1. procs'[1] = procs[1]
    BY <1>2, <1>4 DEF WindowsConstants
  <2> QED BY <1>4, <2>1, RootKept
<1>7. \A d \in Pids : procs[d] # None => procs[d].parent # c
  <2>1. ASSUME NEW d \in Pids, procs[d] # None, procs[d].parent = c PROVE FALSE
    <3>1. Raised(d)
      BY <2>1 DEF WindowsIInv
    <3> QED BY <1>1, <2>1, <3>1 DEF Raised
  <2> QED BY <2>1
<1>8. Unborn(c)'
  <2>1. ASSUME NEW u \in Threads PROVE frames'[c][u] = <<>>
    <3>1. Creating(c, u)
      BY DEF WindowsIInv
    <3> QED BY <1>1, <1>3, <3>1 DEF Creating
  <2>2. \A d \in Pids : procs'[d] # None => procs'[d].parent # c
    BY <1>1, <1>2, <1>7
  <2> QED BY <1>2, <2>1, <2>2 DEF Unborn
<1>9. Raised(c)'
  <2>1. procs'[p] = procs[p] /\ Begun(p)'
    BY <1>1, <1>2 DEF Begun
  <2> QED BY <1>1, <1>2, <1>4, <2>1 DEF Raised
<1>10. Shifts({c}, p, t)
  <2>1. \A q \in Pids, u \in Threads :
          q # p \/ u # t => frames'[q][u] = frames[q][u] /\ hooking'[q][u] = hooking[q][u]
    BY <1>3
  <2>2. procs'[c] # None /\ procs'[c].parent = p
    BY <1>1, <1>2
  <2> QED BY <1>2, <1>7, <2>1, <2>2 DEF Shifts, KeepsChild
<1> QED BY <1>5, <1>6, <1>8, <1>9, <1>10, ShiftsKeep

LEMMA LeastFree ==
  ASSUME NEW S \in SUBSET Nat, S # {}
  PROVE  \E c \in S : \A q \in S : c <= q
<1> DEFINE R == OpToRel(<, Nat)
<1>1. IsWellFoundedOn(R, Nat)
  BY NatLessThanWellFounded
<1>2. PICK m \in S : \A k \in S : <<k, m>> \notin R
  <2> HIDE DEF R
  <2> QED BY <1>1, WFMin
<1>3. R = {ss \in Nat \X Nat : ss[1] < ss[2]}
  BY DEF OpToRel
<1> HIDE DEF R
<1>4. ASSUME NEW k \in S PROVE m <= k
  <2>1. k \in Nat /\ m \in Nat
    OBVIOUS
  <2>2. <<k, m>> \in R <=> k < m
    BY <1>3, <2>1
  <2> QED BY <1>2, <2>1, <2>2
<1> QED BY <1>4

LEMMA FirstFree ==
  ASSUME WindowsConstants, NEW p, NEW t, RealCreate(p, t), NEW c,
         c = CHOOSE d \in Pids : procs[d] = None /\ \A q \in Pids : procs[q] = None => d <= q
  PROVE  c \in Pids /\ procs[c] = None
<1>1. PICK e \in Pids : procs[e] = None
  BY DEF RealCreate
<1>2. {d \in Pids : procs[d] = None} \in SUBSET Nat /\ {d \in Pids : procs[d] = None} # {}
  BY <1>1 DEF WindowsConstants
<1>3. \E d \in {b \in Pids : procs[b] = None} : \A q \in {b \in Pids : procs[b] = None} : d <= q
  BY <1>2, LeastFree
<1>4. \E d \in Pids : procs[d] = None /\ \A q \in Pids : procs[q] = None => d <= q
  BY <1>3
<1> QED BY <1>4

(* What the kernel makes of a call.                                        *)
Born(p, frame) ==
  [Process(p, Image(frame), IF frame.detoured \/ frame.asked THEN "suspended" ELSE "running",
           frame.asked, frame.foreign, frame.for)
     EXCEPT !.told = IF frame.detoured THEN "pending" ELSE "yes"]

LEMMA BornSet ==
  ASSUME NEW p \in Pids, NEW g \in Creations, NEW x, x = Born(p, g)
  PROVE  /\ x \in ProcessSet /\ x.parent = p /\ ~x.library /\ ~x.payload /\ x.client = "none"
         /\ ~x.hooked /\ x.for = g.for /\ x.asked = g.asked /\ x.image = Image(g)
         /\ g.detoured => x.told = "pending" /\ x.state = "suspended"
         /\ ~g.detoured => x.told = "yes" /\ (x.state = "suspended" => x.asked)
<1>1. PICK s : s = IF g.detoured \/ g.asked THEN "suspended" ELSE "running"
  OBVIOUS
<1>2. PICK a : a = IF g.detoured THEN "pending" ELSE "yes"
  OBVIOUS
<1>3. PICK i : i = Image(g)
  OBVIOUS
<1>4. x = [parent |-> p, image |-> i, state |-> s, asked |-> g.asked, foreign |-> g.foreign,
           for |-> g.for, library |-> FALSE, payload |-> FALSE, client |-> "none",
           hooked |-> FALSE, told |-> a]
  BY <1>1, <1>2, <1>3 DEF Born, Process
<1>5. s \in States /\ a \in Answers /\ i \in Images /\ g.asked \in BOOLEAN /\ g.foreign \in BOOLEAN
      /\ g.for \in Pids \cup {None} /\ "none" \in Clients
  BY <1>1, <1>2, <1>3 DEF States, Answers, Images, Image, Creations, Clients
<1>6. x \in ProcessSet
  BY <1>4, <1>5 DEF ProcessSet
<1>7. x.image = Image(g)
  BY <1>3, <1>4
<1> QED BY <1>1, <1>2, <1>4, <1>6, <1>7

LEMMA RealCreateKeeps ==
  ASSUME WindowsConstants, WindowsIInv, NEW p \in Pids, NEW t \in Threads, RealCreate(p, t)
  PROVE  WindowsIInv'
<1>1. PICK g : g = Last(frames[p][t])
  OBVIOUS
<1>2. PICK c : c = CHOOSE d \in Pids : procs[d] = None /\ \A q \in Pids : procs[q] = None => d <= q
  OBVIOUS
<1>3. c \in Pids /\ procs[c] = None
  BY <1>2, FirstFree
<1>4. PICK x : x = Born(p, g)
  OBVIOUS
<1>5. /\ Stands(p, t, "called") /\ UNCHANGED runner
      /\ procs' = [procs EXCEPT ![c] = x]
      /\ IF g.detoured
         THEN /\ frames' = [frames EXCEPT ![p][t] =
                              Append(Front(@), [g EXCEPT !.step = "created", !.child = c])]
              /\ UNCHANGED hooking
         ELSE Returns(p, t)
  BY <1>1, <1>2, <1>4 DEF RealCreate, Born
<1>6. /\ procs[p] # None /\ Begun(p) /\ procs[p].hooked \in BOOLEAN /\ WindowsTypeOK
      /\ None \notin ProcessSet /\ None \notin Pids /\ c # p
  BY <1>3, <1>5, Called DEF WindowsIInv, WindowsConstants
<1>7. ASSUME x \in ProcessSet
      PROVE  procs'[c] = x /\ \A d \in Pids \ {c} : procs'[d] = procs[d]
  <2>1. WindowsTypeOK
    BY <1>6
  <2> QED BY <1>3, <1>5, <1>7, <2>1, ProcessSetTo
<1>8. CASE \E f \in Creations :
             /\ frames[p][t] = <<f>> /\ Last(frames[p][t]) = f /\ Front(frames[p][t]) = <<>>
             /\ f.child = None /\ f.for = None
             /\ f.detoured = procs[p].hooked /\ hooking[p][t] = f.detoured
  <2>1. /\ g \in Creations /\ Front(frames[p][t]) = <<>> /\ g.for = None
        /\ g.detoured = procs[p].hooked /\ hooking[p][t] = g.detoured
    BY <1>1, <1>8
  <2>2. /\ x \in ProcessSet /\ x.parent = p /\ ~x.library /\ ~x.payload /\ x.client = "none"
        /\ ~x.hooked /\ x.for = None /\ x.asked = g.asked
        /\ g.detoured => x.told = "pending" /\ x.state = "suspended"
        /\ ~g.detoured => x.told = "yes" /\ (x.state = "suspended" => x.asked)
    BY <1>4, <2>1, BornSet
  <2>3. procs'[c] = x /\ procs'[p] = procs[p]
    BY <1>6, <1>7, <2>2
  <2>4. CASE g.detoured
    <3>1. PICK h : h = [g EXCEPT !.step = "created", !.child = c]
      OBVIOUS
    <3>2. /\ h \in Creations /\ h.step = "created" /\ h.child = c /\ h.for = None
          /\ h.detoured = g.detoured /\ h.asked = g.asked
      BY <1>3, <2>1, <3>1 DEF Creations, Steps
    <3>3. frames' = [frames EXCEPT ![p][t] = <<h>>] /\ UNCHANGED hooking
      <4>1. PICK w : w = frames[p][t]
        OBVIOUS
      <4>2. Append(Front(w), h) = <<h>>
        BY <2>1, <4>1, OneCall
      <4> QED BY <1>5, <2>4, <3>1, <4>1, <4>2
    <3>4. /\ frames'[p][t] = <<h>> /\ frames'[p][t] # <<>> /\ frames'[p][t][1] = h
          /\ \A u \in Threads : u # t => frames'[p][u] = frames[p][u]
      <4>1. WindowsTypeOK
        BY <1>6
      <4> QED BY <3>3, <4>1, CallsSet, OneCall, ZenonT(40)
    <3>5. InCreation(p, t)' /\ FramesOK(p, t)'
      BY <3>2, <3>4 DEF InCreation, FramesOK, Nt
    <3>6. hooking'[p][t] = (InCreation(p, t)' /\ h.detoured)
      BY <2>1, <2>4, <3>2, <3>3, <3>5
    <3>7. ASSUME NEW u \in Threads, InCreation(p, u)', frames'[p][u][1].child = c PROVE u = t
      <4>1. CASE u # t
        <5>1. InCreation(p, u) /\ frames[p][u][1].child = c
          BY <3>4, <3>7, <4>1 DEF InCreation
        <5>2. PICK k : k = frames[p][u][1]
          OBVIOUS
        <5>3. Creating(p, u) /\ c # None
          BY <1>3, <1>6 DEF WindowsIInv
        <5>4. procs[c] # None
          BY <5>1, <5>2, <5>3 DEF Creating
        <5> QED BY <1>3, <5>4
      <4> QED BY <4>1
    <3>8. Begun(p)' /\ procs'[p] # None /\ h.detoured = procs'[p].hooked
      BY <1>6, <2>1, <2>3, <3>2 DEF Begun
    <3>9. /\ procs'[c] # None /\ procs'[c].parent = p /\ procs'[c].for = None
          /\ procs'[c].told = "pending" /\ procs'[c].asked = h.asked
      BY <1>6, <2>2, <2>3, <2>4, <3>2
    <3>10. h.detoured
      BY <2>4, <3>2
    <3>11. Creating(p, t)'
      BY <1>3, <1>6, <3>2, <3>4, <3>5, <3>6, <3>7, <3>8, <3>9, <3>10 DEF Creating
    <3>12. KeepsChild(p, t)
      BY <1>3, <3>2, <3>4 DEF KeepsChild
    <3> QED BY <1>3, <1>5, <1>6, <2>2, <2>4, <3>3, <3>5, <3>11, <3>12, NewChild
  <2>5. CASE ~g.detoured
    <3>1. frames' = [frames EXCEPT ![p][t] = <<>>] /\ UNCHANGED hooking
      BY <1>1, <1>5, <2>1, <2>5 DEF Returns
    <3>2. frames'[p][t] = <<>>
      <4>1. WindowsTypeOK
        BY <1>6
      <4> QED BY <3>1, <4>1, CallsSet
    <3>3. hooking'[p][t] = FALSE
      BY <1>6, <2>1, <2>5, <3>1
    <3>4. FramesOK(p, t)' /\ Creating(p, t)' /\ KeepsChild(p, t)
      BY <3>2, <3>3 DEF FramesOK, Creating, KeepsChild, InCreation
    <3>5. ~procs[p].hooked
      BY <2>1, <2>5
    <3> QED BY <1>3, <1>5, <1>6, <2>2, <2>5, <3>1, <3>4, <3>5, NewChild
  <2> QED BY <2>4, <2>5
<1>9. CASE \E f, k \in Creations, d \in Pids :
             /\ frames[p][t] = <<f, k>> /\ Last(frames[p][t]) = k /\ Front(frames[p][t]) = <<f>>
             /\ frames[p][t][1] = f /\ ~k.detoured /\ k.for # None
  <2>1. PICK f \in Creations, k \in Creations :
          /\ frames[p][t] = <<f, k>> /\ Last(frames[p][t]) = k /\ Front(frames[p][t]) = <<f>>
          /\ frames[p][t][1] = f /\ ~k.detoured /\ k.for # None
    BY <1>9
  <2>2. g = k
    BY <1>1, <2>1
  <2>3. /\ x \in ProcessSet /\ x.parent = p /\ ~x.library /\ ~x.payload /\ x.client = "none"
        /\ ~x.hooked /\ x.for # None
        /\ x.told = "yes" /\ (x.state = "suspended" => x.asked)
    BY <1>4, <2>1, <2>2, BornSet
  <2>4. \A d \in Pids : procs[d] # None => procs'[d] = procs[d]
    BY <1>3, <1>7, <2>3
  <2>5. frames' = [frames EXCEPT ![p][t] = <<f>>] /\ UNCHANGED hooking
    BY <1>5, <2>1, <2>2 DEF Returns
  <2>6. /\ frames'[p][t] = <<f>> /\ frames'[p][t] # <<>> /\ frames'[p][t][1] = f
        /\ \A u \in Threads \ {t} : frames'[p][u] = frames[p][u]
    <3>1. WindowsTypeOK
      BY <1>6
    <3> QED BY <2>5, <3>1, CallsSet, OneCall, ZenonT(40)
  <2>7. FramesOK(p, t)'
    BY <2>6 DEF FramesOK
  <2>8. Creating(p, t)' /\ KeepsChild(p, t)
    <3>1. FramesOK(p, t) /\ frames[p][t] # <<>> /\ None \notin ProcessSet
      BY <1>5, <1>6 DEF WindowsTypeOK, Stands
    <3> QED BY <2>1, <2>4, <2>5, <2>6, <3>1, FirstKept
  <2> QED BY <1>3, <1>5, <1>6, <2>3, <2>5, <2>7, <2>8, NewChild
<1> QED BY <1>5, <1>8, <1>9, Called

-----------------------------------------------------------------------------
(* The invariant holds, and with it what it says of the tree.              *)
LEMMA WindowsNextKeeps ==
  ASSUME WindowsConstants, WindowsIInv, [WindowsNext]_windowsVars
  PROVE  WindowsIInv'
<1>1. CASE SpawnRoot
  BY <1>1, SpawnRootKeeps
<1>2. CASE UpdateRoot \/ CopyToRoot \/ ResumeRoot \/ PreparationFails
  BY <1>2, RunnerKeeps
<1>3. CASE UNCHANGED windowsVars \/ CloseChannel
  BY <1>3, StandingKeeps
<1>4. CASE \E p \in Pids : Attach(p) \/ Detach(p) \/ Die(p)
  BY <1>4, AttachKeeps, LifeKeeps
<1>5. CASE \E p, c \in Pids : ResumeAsked(p, c)
  BY <1>5, LifeKeeps
<1>6. CASE \E p \in Pids, t \in Threads :
             \/ Touch(p, t) \/ Forward(p, t)
             \/ \E via \in Libraries, asked, foreign \in BOOLEAN :
                  \/ CreateProcessW(p, t, via, asked, foreign)
                  \/ CreateProcessA(p, t, via, asked, foreign)
             \/ RealCreate(p, t) \/ RealCreateFails(p, t)
             \/ PrepareChild(p, t) \/ PrepareFails(p, t)
             \/ Inject(p, t) \/ Helped(p, t) \/ InjectFails(p, t) \/ ResumeChild(p, t)
  <2>1. PICK p \in Pids, t \in Threads :
             \/ Touch(p, t) \/ Forward(p, t)
             \/ \E via \in Libraries, asked, foreign \in BOOLEAN :
                  \/ CreateProcessW(p, t, via, asked, foreign)
                  \/ CreateProcessA(p, t, via, asked, foreign)
             \/ RealCreate(p, t) \/ RealCreateFails(p, t)
             \/ PrepareChild(p, t) \/ PrepareFails(p, t)
             \/ Inject(p, t) \/ Helped(p, t) \/ InjectFails(p, t) \/ ResumeChild(p, t)
    BY <1>6
  <2>2. CASE Touch(p, t) \/ Forward(p, t)
    BY <2>2, TouchKeeps, ForwardKeeps
  <2>3. CASE \E via \in Libraries, asked, foreign \in BOOLEAN :
               \/ CreateProcessW(p, t, via, asked, foreign)
               \/ CreateProcessA(p, t, via, asked, foreign)
    BY <2>3, CreateProcessKeeps DEF CreateProcessW, CreateProcessA
  <2>4. CASE RealCreate(p, t) \/ RealCreateFails(p, t)
    BY <2>4, RealCreateKeeps, RealCreateFailsKeeps
  <2>5. CASE \/ PrepareChild(p, t) \/ PrepareFails(p, t)
             \/ Inject(p, t) \/ Helped(p, t) \/ InjectFails(p, t) \/ ResumeChild(p, t)
    BY <2>5, ChildMovesOn, ChildMovesKeep
  <2> QED BY <2>1, <2>2, <2>3, <2>4, <2>5
<1> QED BY <1>1, <1>2, <1>3, <1>4, <1>5, <1>6 DEF WindowsNext

LEMMA WindowsBegins ==
  ASSUME WindowsConstants, WindowsInit
  PROVE  WindowsIInv
<1>1. \A p \in Pids, t \in Threads : frames[p][t] = <<>> /\ hooking[p][t] = FALSE
  BY DEF WindowsInit
<1>2. WindowsTypeOK
  BY <1>1 DEF WindowsInit, WindowsTypeOK, FramesOK, Runners
<1>3. RootHeld
  BY DEF WindowsInit, RootHeld
<1>4. \A p \in Pids, t \in Threads : Creating(p, t)
  BY <1>1 DEF Creating, InCreation
<1> QED BY <1>2, <1>3, <1>4 DEF WindowsIInv, WindowsInit

(* Whatever fails, is killed or races, the runner, the processes and their *)
(* calls keep to the invariant.                                            *)
THEOREM WindowsInvariant ==
  ASSUME WindowsConstants
  PROVE  WindowsSpec => []WindowsIInv
<1>1. WindowsInit => WindowsIInv
  BY WindowsConstants, WindowsBegins
<1>2. WindowsIInv /\ [WindowsNext]_windowsVars => WindowsIInv'
  BY WindowsConstants, WindowsNextKeeps
<1> QED BY <1>1, <1>2, PTL DEF WindowsSpec

(* No process that a detoured one has started runs without the library and *)
(* its payload (fspy_preload_windows, detours/create_process.rs), and none *)
(* is left waiting that nobody asked to wait.                              *)
THEOREM WindowsTreeTracked ==
  ASSUME WindowsConstants
  PROVE  WindowsSpec => []TreeTracked
<1>1. WindowsIInv => TreeTracked
  <2> SUFFICES ASSUME WindowsIInv PROVE TreeTracked
    OBVIOUS
  <2>1. RootHeld
    BY DEF WindowsIInv
  <2>2. ASSUME NEW c \in Pids, procs[c] # None
        PROVE  /\ (Running(c) /\ procs[c].for = None /\ (c = 1 \/ procs[procs[c].parent].hooked))
                    => procs[c].library /\ procs[c].payload
               /\ procs[c].for # None => ~procs[c].library /\ ~procs[c].payload
               /\ procs[c].told = "yes" /\ procs[c].state = "suspended" => procs[c].asked
    <3>1. Unborn(c) /\ Raised(c)
      BY <2>2 DEF WindowsIInv
    <3>2. ASSUME Running(c) PROVE procs[c].told = "yes"
      BY <3>1, <3>2 DEF Running, Unborn
    <3>3. c = 1 => procs[c].parent = None
      BY <2>1, <2>2 DEF RootHeld
    <3> QED BY <3>1, <3>2, <3>3 DEF Raised
  <2> QED BY <2>1, <2>2 DEF TreeTracked, RootHeld
<1> QED BY WindowsConstants, <1>1, WindowsInvariant, PTL

-----------------------------------------------------------------------------
(* What a detour sends.                                                    *)
Nts == {"NtCreateFile", "NtOpenFile", "NtOpenSymbolicLinkObject", "NtQueryAttributesFile",
        "NtQueryFullAttributesFile", "NtQueryInformationByName", "NtQueryDirectoryFile",
        "NtQueryDirectoryFileEx", "NtSetInformationFile", "NtFsControlFile", "NtCreateUserProcess"}

(* What the proofs about NT calls need of the constants: a path has at     *)
(* least one name, which is no wildcard, None is no path and no name, and  *)
(* the symbols of NT are exported by ntdll alone.                          *)
CallsConstants ==
  /\ \E names :
       /\ Objects \subseteq Seq(names) \ {<<>>}
       /\ "source" \in names /\ "*" \notin names
       /\ None \notin Seq(names \cup {"*"})
  /\ \A root, absolute, name : None # At(root, absolute, name)
  /\ Nts \subseteq Exports.ntdll \ (Exports.kernelbase \cup Exports.kernel32)
  /\ None # "ntdll"

(* A path and its parts.                                                   *)
LEMMA PathParts ==
  ASSUME NEW names, NEW o \in Seq(names), o # <<>>
  PROVE  /\ Front(o) \in Seq(names) /\ Last(o) \in names
         /\ Front(o) \o <<Last(o)>> = o /\ o \o <<>> = o
<1>1. Len(o) \in Nat \ {0} /\ Last(o) \in names
      BY EmptySeq DEF Last
<1>2. Front(o) \in Seq(names) /\ Len(Front(o)) = Len(o) - 1
      /\ \A i \in 1 .. Len(o) - 1 : Front(o)[i] = o[i]
  <2>1. PICK n \in Nat : n = Len(o) - 1
        BY <1>1
  <2>2. \A i \in 1 .. n : o[i] \in names
        BY <1>1, <2>1
  <2>3. /\ SubSeq(o, 1, n) \in Seq(names) /\ Len(SubSeq(o, 1, n)) = n
        /\ \A i \in 1 .. n : SubSeq(o, 1, n)[i] = o[i]
        BY <2>1, <2>2, SubSeqProperties
  <2>. QED BY <2>1, <2>3 DEF Front
<1>3. Front(o) \o <<Last(o)>> = o
  <2>1. PICK x, f : x = Last(o) /\ f = Front(o)
        OBVIOUS
  <2>2. f \o <<x>> \in Seq(names) /\ Len(f \o <<x>>) = Len(o)
        BY <1>1, <1>2, <2>1
  <2>3. \A i \in 1 .. Len(o) : (f \o <<x>>)[i] = o[i]
        BY <1>1, <1>2, <2>1 DEF Last
  <2>. QED BY <2>1, <2>2, <2>3, SeqEqual
<1>. QED BY <1>1, <1>2, <1>3, ConcatEmptySeq

(* The folder that a wildcard is in.                                       *)
LEMMA Wildcard ==
  ASSUME NEW names, "*" \notin names, NEW o \in Seq(names), NEW m, NEW path, path = o \o <<"*">>,
         path # None
  PROVE  HandleOpen(m, path) = {[mode |-> "ReadDir", path |-> o]}
<1>1. /\ path \in Seq(names \cup {"*"}) /\ Len(path) = Len(o) + 1 /\ path[Len(o) + 1] = "*"
      /\ \A i \in 1 .. Len(o) : path[i] = o[i] /\ path[i] # "*"
      /\ DOMAIN path = 1 .. Len(o) + 1 /\ Len(o) \in Nat
  <2>1. o \in Seq(names \cup {"*"}) /\ <<"*">> \in Seq(names \cup {"*"})
        OBVIOUS
  <2>2. \A i \in 1 .. Len(o) : o[i] \in names
        OBVIOUS
  <2>. QED BY <2>1, <2>2
<1>2. {i \in DOMAIN path : path[i] = "*"} = {Len(o) + 1}
      BY <1>1
<1>3. (CHOOSE i \in {Len(o) + 1} : \A j \in {Len(o) + 1} : j <= i) = Len(o) + 1
      BY <1>1
<1>4. SubSeq(path, 1, Len(o)) = o
  <2>1. \A i \in 1 .. Len(o) : path[i] \in names
        BY <1>1
  <2>2. /\ SubSeq(path, 1, Len(o)) \in Seq(names) /\ Len(SubSeq(path, 1, Len(o))) = Len(o)
        /\ \A i \in 1 .. Len(o) : SubSeq(path, 1, Len(o))[i] = o[i]
        BY <1>1, <2>1, SubSeqProperties
  <2>. QED BY <2>2, SeqEqual
<1>5. PICK wild : wild = {i \in DOMAIN path : path[i] = "*"}
      OBVIOUS
<1>6. wild = {Len(o) + 1} /\ wild # {} /\ (CHOOSE i \in wild : \A j \in wild : j <= i) - 1 = Len(o)
  <2>1. wild = {Len(o) + 1}
        BY <1>2, <1>5, Zenon
  <2>2. (CHOOSE i \in wild : \A j \in wild : j <= i) = Len(o) + 1
        BY <1>3, <2>1, Zenon
  <2>. QED BY <1>1, <2>1, <2>2
<1>. QED BY <1>4, <1>5, <1>6 DEF HandleOpen

(* Without one, the path itself.                                           *)
LEMMA NoWildcard ==
  ASSUME NEW names, "*" \notin names, NEW o \in Seq(names), NEW m, o # None
  PROVE  HandleOpen(m, o) = {[mode |-> m, path |-> o]}
<1>1. \A i \in DOMAIN o : o[i] # "*"
      OBVIOUS
<1>. QED BY <1>1 DEF HandleOpen

(* Every way to give an object leads to it.                                *)
LEMMA NamedLeads ==
  ASSUME CallsConstants, NEW names, Objects \subseteq Seq(names) \ {<<>>}, "source" \in names,
         None \notin Seq(names \cup {"*"}), NEW o \in Objects, NEW n \in Named(o)
  PROVE  AbsolutePath(n) = o
<1>1. Front(o) \in Seq(names) /\ Front(o) \o <<Last(o)>> = o /\ o \o <<>> = o
      BY PathParts
<1>2. Front(o) # None /\ o # None
  <2>1. Front(o) \in Seq(names \cup {"*"}) /\ o \in Seq(names \cup {"*"})
        BY <1>1
  <2>. QED BY <2>1
<1>3. CASE n = At(None, TRUE, o)
      BY <1>3 DEF At, AbsolutePath
<1>4. CASE n = At(Front(o), FALSE, <<Last(o)>>)
      BY <1>1, <1>2, <1>4 DEF At, AbsolutePath
<1>5. CASE n = At(o, FALSE, <<>>)
      BY <1>1, <1>2, <1>5 DEF At, AbsolutePath
<1>. QED BY <1>3, <1>4, <1>5 DEF Named

Reported(accesses, call) ==
  \A effect \in call.does :
    \E r \in accesses : r.path = call.object /\ r.mode \in Covers[effect]

(* One access that is right for each effect reports the call.              *)
LEMMA ReportedBy ==
  ASSUME NEW accesses, NEW call, NEW m, NEW o, accesses = {[mode |-> m, path |-> o]}, call.object = o,
         \A effect \in call.does : m \in Covers[effect]
  PROVE  Reported(accesses, call)
<1>1. [mode |-> m, path |-> o].mode = m /\ [mode |-> m, path |-> o].path = o
      OBVIOUS
<1>. QED BY <1>1 DEF Reported

LEMMA OpensSent ==
  ASSUME CallsConstants, NEW o \in Objects, NEW call \in Opens(o)
  PROVE  Reported(Sent(call), call) /\ call.api \in Nts
<1>1. PICK names : /\ Objects \subseteq Seq(names) \ {<<>>}
                   /\ "source" \in names /\ "*" \notin names
                   /\ None \notin Seq(names \cup {"*"})
      BY DEF CallsConstants
<1>2. /\ \A n \in Named(o) : AbsolutePath(n) = o
      /\ \A m : HandleOpen(m, o) = {[mode |-> m, path |-> o]}
  <2>1. o \in Seq(names) /\ o \in Seq(names \cup {"*"})
        BY <1>1
  <2>2. o # None
        BY <1>1, <2>1
  <2>. QED BY <1>1, <2>1, <2>2, NamedLeads, NoWildcard
<1>3. ASSUME NEW api \in {"NtCreateFile", "NtOpenFile", "NtOpenSymbolicLinkObject"},
             NEW a \in SUBSET {"read", "write"}, NEW n \in Named(o),
             call = Opening(api, a, o, n)
      PROVE  Reported(Sent(call), call) /\ call.api \in Nts
  <2>1. /\ call.api = api /\ call.does = Accesses(a) /\ call.object = o /\ call.at = n
        /\ call.access = a /\ call.folder = FALSE
        BY <1>3 DEF Call, Opening
  <2>2. Sent(call) = {[mode |-> AccessMaskToMode(a), path |-> o]}
        BY <1>2, <1>3, <2>1 DEF Sent, NtCreateFile, NtOpenFile, NtOpenSymbolicLinkObject
  <2>3. \A effect \in Accesses(a) : AccessMaskToMode(a) \in Covers[effect]
        BY DEF Accesses, AccessMaskToMode, Covers
  <2>4. Reported(Sent(call), call)
        BY <2>1, <2>2, <2>3, ReportedBy
  <2>. QED BY <1>3, <2>1, <2>4 DEF Nts
<1>4. ASSUME NEW n \in Named(o), NEW d \in {"create", "open_if"},
             call = Making(o, n, d)
      PROVE  Reported(Sent(call), call) /\ call.api \in Nts
  <2>1. /\ call.api = "NtCreateFile" /\ call.does = {"make"} /\ call.object = o /\ call.at = n
        /\ call.folder = TRUE /\ call.disposition = d
        BY <1>4 DEF Call, Making
  <2>2. Sent(call) = {[mode |-> "Mkdir", path |-> o]}
        BY <1>2, <2>1 DEF Sent, NtCreateFile
  <2>8. \A effect \in call.does : "Mkdir" \in Covers[effect]
        BY <2>1, <2>2 DEF Covers
  <2>9. Reported(Sent(call), call)
        BY <2>1, <2>2, <2>8, ReportedBy
  <2>. QED BY <2>1, <2>2, <2>9 DEF Nts
<1>5. ASSUME call = Listing(o)
      PROVE  Reported(Sent(call), call) /\ call.api \in Nts
  <2>1. /\ call.api = "NtOpenFile" /\ call.does = {"list"} /\ call.object = o
        /\ call.at = At(None, TRUE, o \o <<"*">>)
        BY <1>5 DEF Call, Listing
  <2>2. PICK path : path = o \o <<"*">>
        OBVIOUS
  <2>3. o \in Seq(names) /\ path \in Seq(names \cup {"*"})
    <3>1. o \in Seq(names) /\ o \in Seq(names \cup {"*"}) /\ <<"*">> \in Seq(names \cup {"*"})
          BY <1>1
    <3>. QED BY <2>2, <3>1
  <2>4. path # None
        BY <1>1, <2>3
  <2>5. \A m : HandleOpen(m, path) = {[mode |-> "ReadDir", path |-> o]}
        BY <1>1, <2>2, <2>3, <2>4, Wildcard
  <2>6. AbsolutePath(call.at) = path
        BY <2>1, <2>2 DEF At, AbsolutePath
  <2>7. Sent(call) = {[mode |-> "ReadDir", path |-> o]}
        BY <2>1, <2>5, <2>6 DEF Sent, NtOpenFile
  <2>8. \A effect \in call.does : "ReadDir" \in Covers[effect]
        BY <2>1, <2>7 DEF Covers
  <2>9. Reported(Sent(call), call)
        BY <2>1, <2>7, <2>8, ReportedBy
  <2>. QED BY <2>1, <2>7, <2>9 DEF Nts
<1>. QED BY <1>3, <1>4, <1>5 DEF Opens

LEMMA QueriesSent ==
  ASSUME CallsConstants, NEW o \in Objects, NEW call \in Queries(o)
  PROVE  Reported(Sent(call), call) /\ call.api \in Nts
<1>1. PICK names : /\ Objects \subseteq Seq(names) \ {<<>>}
                   /\ "source" \in names /\ "*" \notin names
                   /\ None \notin Seq(names \cup {"*"})
      BY DEF CallsConstants
<1>2. /\ \A n \in Named(o) : AbsolutePath(n) = o
      /\ \A m : HandleOpen(m, o) = {[mode |-> m, path |-> o]}
  <2>1. o \in Seq(names) /\ o \in Seq(names \cup {"*"})
        BY <1>1
  <2>2. o # None
        BY <1>1, <2>1
  <2>. QED BY <1>1, <2>1, <2>2, NamedLeads, NoWildcard
<1>3. ASSUME NEW api \in {"NtQueryAttributesFile", "NtQueryFullAttributesFile",
                          "NtQueryInformationByName"},
             NEW n \in Named(o), call = Query(api, o, n)
      PROVE  Reported(Sent(call), call) /\ call.api \in Nts
  <2>1. call.api = api /\ call.does = {"read"} /\ call.object = o /\ call.at = n
        BY <1>3 DEF Call, Query
  <2>2. Sent(call) = {[mode |-> "Read", path |-> o]}
        BY <1>2, <1>3, <2>1 DEF Sent, NtQueryAttributesFile, NtQueryFullAttributesFile,
                                NtQueryInformationByName, AccessMaskToMode
  <2>8. \A effect \in call.does : "Read" \in Covers[effect]
        BY <1>3, <2>1, <2>2 DEF Covers
  <2>9. Reported(Sent(call), call)
        BY <1>3, <2>1, <2>2, <2>8, ReportedBy
  <2>. QED BY <1>3, <2>1, <2>2, <2>9 DEF Nts
<1>4. ASSUME NEW api \in {"NtQueryDirectoryFile", "NtQueryDirectoryFileEx"},
             call = Enumeration(api, o)
      PROVE  Reported(Sent(call), call) /\ call.api \in Nts
  <2>1. call.api = api /\ call.does = {"list"} /\ call.object = o /\ call.handle = o
        BY <1>4 DEF Call, Enumeration
  <2>2. Sent(call) = {[mode |-> "ReadDir", path |-> o]}
        BY <1>2, <1>4, <2>1 DEF Sent, NtQueryDirectoryFile, NtQueryDirectoryFileEx
  <2>8. \A effect \in call.does : "ReadDir" \in Covers[effect]
        BY <1>4, <2>1, <2>2 DEF Covers
  <2>9. Reported(Sent(call), call)
        BY <1>4, <2>1, <2>2, <2>8, ReportedBy
  <2>. QED BY <1>4, <2>1, <2>2, <2>9 DEF Nts
<1>. QED BY <1>3, <1>4 DEF Queries

LEMMA ChangesSent ==
  ASSUME CallsConstants, NEW o \in Objects, NEW call \in Changes(o)
  PROVE  Reported(Sent(call), call) /\ call.api \in Nts
<1>1. PICK names : /\ Objects \subseteq Seq(names) \ {<<>>}
                   /\ "source" \in names /\ "*" \notin names
                   /\ None \notin Seq(names \cup {"*"})
      BY DEF CallsConstants
<1>2. /\ \A n \in Named(o) : AbsolutePath(n) = o
      /\ \A m : HandleOpen(m, o) = {[mode |-> m, path |-> o]}
  <2>1. o \in Seq(names) /\ o \in Seq(names \cup {"*"})
        BY <1>1
  <2>2. o # None
        BY <1>1, <2>1
  <2>. QED BY <1>1, <2>1, <2>2, NamedLeads, NoWildcard
<1>3. ASSUME NEW class, NEW effect, NEW n \in Destinations(o), call = Change(class, effect, o, n)
      PROVE  /\ class = "rename" /\ effect = "move" => Reported(Sent(call), call)
             /\ class = "link" /\ effect = "write" => Reported(Sent(call), call)
             /\ call.api \in Nts
  <2>1. /\ call.api = "NtSetInformationFile" /\ call.does = {effect} /\ call.object = o
        /\ call.at = n /\ call.handle = Front(o) \o <<"source">> /\ call.class = class
        BY <1>3 DEF Call, Change
  <2>2. Destination(call) # None /\ AbsolutePath(Destination(call)) = o
    <3>1. /\ Front(o) \in Seq(names) /\ Front(o) \o <<Last(o)>> = o /\ Last(o) \in names
          /\ o \in Seq(names)
          BY <1>1, PathParts
    <3>2. CASE n = At(None, FALSE, <<Last(o)>>)
      <4>1. PICK h : h = Front(o) \o <<"source">>
            OBVIOUS
      <4>2. h \in Seq(names) /\ h # <<>> /\ Len(h) = Len(Front(o)) + 1
            /\ \A i \in 1 .. Len(Front(o)) : h[i] = Front(o)[i]
            BY <1>1, <3>1, <4>1
      <4>3. Front(h) = Front(o)
        <5>1. PICK k \in Nat : k = Len(Front(o))
              BY <3>1
        <5>2. \A i \in 1 .. k : h[i] \in names
              BY <4>2, <5>1
        <5>3. /\ SubSeq(h, 1, k) \in Seq(names) /\ Len(SubSeq(h, 1, k)) = k
              /\ \A i \in 1 .. k : SubSeq(h, 1, k)[i] = h[i]
              BY <5>1, <5>2, <4>2, SubSeqProperties
        <5>4. Front(h) = SubSeq(h, 1, k)
              BY <4>2, <5>1 DEF Front
        <5>. QED BY <3>1, <4>2, <5>1, <5>3, <5>4, SeqEqual
      <4>4. h # None
        <5>1. h \in Seq(names \cup {"*"})
              BY <4>2
        <5>. QED BY <1>1, <5>1
      <4>5. Destination(call) = At(None, TRUE, Front(h) \o <<Last(o)>>)
            BY <2>1, <3>2, <4>1, <4>4 DEF Destination, At
      <4>. QED BY <3>1, <4>3, <4>5 DEF At, AbsolutePath, CallsConstants
    <3>3. CASE n \in Named(o)
      <4>1. Front(o) # None /\ o # None
        <5>1. Front(o) \in Seq(names \cup {"*"}) /\ o \in Seq(names \cup {"*"})
              BY <3>1
        <5>. QED BY <1>1, <5>1
      <4>2. ~(n.root = None /\ ~n.absolute)
            BY <3>3, <4>1 DEF Named, At
      <4>3. Destination(call) = n
            BY <2>1, <4>2 DEF Destination
      <4>4. n # None
            BY <3>3 DEF CallsConstants, Named
      <4>. QED BY <1>2, <3>3, <4>3, <4>4
    <3>. QED BY <1>3, <3>2, <3>3 DEF Destinations
  <2>3. ASSUME class = "rename", effect = "move" PROVE Reported(Sent(call), call)
    <3>1. call.class = "rename" /\ call.does = {"move"}
          BY <2>1, <2>3
    <3>2. Sent(call) = {[mode |-> "RenameTarget", path |-> o]}
          BY <1>2, <2>1, <2>2, <3>1 DEF Sent, NtSetInformationFile
    <3>8. \A e \in call.does : "RenameTarget" \in Covers[e]
          BY <3>1 DEF Covers
    <3>9. Reported(Sent(call), call)
          BY <2>1, <3>1, <3>2, <3>8, ReportedBy
    <3>. QED BY <3>9
  <2>4. ASSUME class = "link", effect = "write" PROVE Reported(Sent(call), call)
    <3>1. call.class = "link" /\ call.does = {"write"}
          BY <2>1, <2>4
    <3>2. Sent(call) = {[mode |-> "Write", path |-> o]}
          BY <1>2, <2>1, <2>2, <3>1 DEF Sent, NtSetInformationFile
    <3>8. \A e \in call.does : "Write" \in Covers[e]
          BY <3>1 DEF Covers
    <3>9. Reported(Sent(call), call)
          BY <2>1, <3>1, <3>2, <3>8, ReportedBy
    <3>. QED BY <3>9
  <2>. QED BY <2>1, <2>3, <2>4 DEF Nts
<1>4. ASSUME call = Reparse(o)
      PROVE  Reported(Sent(call), call) /\ call.api \in Nts
  <2>1. /\ call.api = "NtFsControlFile" /\ call.does = {"write"} /\ call.object = o
        /\ call.handle = o /\ call.code = "set_reparse_point"
        BY <1>4 DEF Call, Reparse
  <2>2. Sent(call) = {[mode |-> "Write", path |-> o]}
        BY <1>2, <2>1 DEF Sent, NtFsControlFile
  <2>8. \A effect \in call.does : "Write" \in Covers[effect]
        BY <2>1, <2>2 DEF Covers
  <2>9. Reported(Sent(call), call)
        BY <2>1, <2>2, <2>8, ReportedBy
  <2>. QED BY <2>1, <2>2, <2>9 DEF Nts
<1>. QED BY <1>3, <1>4 DEF Changes

(* What a detour sends of a call says what the call does, under the path   *)
(* that the kernel takes it to.                                            *)
LEMMA DetourSays ==
  ASSUME CallsConstants, NEW call \in Calls
  PROVE  Reported(Sent(call), call) /\ call.api \in Nts
BY OpensSent, QueriesSent, ChangesSent DEF Calls

-----------------------------------------------------------------------------
(* The invariant of what is recorded.                                      *)
NtUnder(p, t) == frames[p][t] # <<>> /\ Nt(frames[p][t][1])

(* Detours come with a client, which is over once the channel is.          *)
Tracks(c) ==
  /\ procs[c].client = "over" => ~Open
  /\ procs[c].hooked => procs[c].client # "none"

ImageSaid(c) ==
  (procs[c].parent # None /\ procs[procs[c].parent].hooked
   /\ procs[procs[c].parent].client = "sends" /\ Open)
    => [mode |-> "Read", path |-> procs[c].image] \in recorded

UnderSaid(p, t) ==
  /\ frames[p][t][1].call \in Calls
  /\ procs[p].hooked /\ Open => Reported(recorded, frames[p][t][1].call)

ForwardedSaid(f) ==
  /\ f.pid \in Pids /\ procs[f.pid] # None /\ Begun(f.pid)
  /\ procs[f.pid].hooked => Reported(recorded, f.call)

CallsIInv ==
  /\ \A c \in Pids : procs[c] # None => Tracks(c) /\ ImageSaid(c)
  /\ \A p \in Pids, t \in Threads : NtUnder(p, t) => UnderSaid(p, t)
  /\ \A f \in forwarded : ForwardedSaid(f)

(* What every step keeps of a process: what it is, and what it has of the  *)
(* library once it has begun.                                              *)
KeptAs(d) ==
  /\ procs'[d] # None /\ procs'[d].parent = procs[d].parent /\ procs'[d].image = procs[d].image
  /\ Begun(d) => /\ Begun(d)'
                 /\ procs'[d].hooked = procs[d].hooked /\ procs'[d].client = procs[d].client
  /\ \/ procs'[d].hooked = procs[d].hooked /\ procs'[d].client = procs[d].client
     \/ Tracks(d)'

LEMMA CallsKept ==
  ASSUME WindowsIInv, CallsIInv, (Open)' => Open, recorded \subseteq recorded',
         \A d \in Pids : procs[d] # None => KeptAs(d),
         \A d \in Pids : procs[d] = None /\ procs'[d] # None => Tracks(d)' /\ ImageSaid(d)',
         \A p \in Pids, t \in Threads :
           NtUnder(p, t)' => frames'[p][t] = frames[p][t] \/ UnderSaid(p, t)',
         \A f \in forwarded' : f \in forwarded \/ ForwardedSaid(f)'
  PROVE  CallsIInv'
<1>1. ASSUME NEW call, Reported(recorded, call) PROVE Reported(recorded', call)
  BY <1>1 DEF Reported
<1>2. ASSUME NEW d \in Pids, procs'[d] # None PROVE Tracks(d)' /\ ImageSaid(d)'
  <2>1. CASE procs[d] = None
    BY <1>2, <2>1
  <2>2. CASE procs[d] # None
    <3>1. KeptAs(d) /\ Tracks(d) /\ ImageSaid(d) /\ Raised(d) /\ procs[d] \in ProcessSet
      BY <2>2 DEF CallsIInv, WindowsIInv, WindowsTypeOK
    <3>2. Tracks(d)'
      BY <3>1 DEF KeptAs, Tracks
    <3>3. CASE procs[d].parent = None
      BY <3>1, <3>2, <3>3 DEF KeptAs, ImageSaid
    <3>4. CASE procs[d].parent # None
      <4>1. PICK q : q = procs[d].parent
        OBVIOUS
      <4>2. q \in Pids /\ procs[q] # None /\ Begun(q)
        BY <3>1, <3>4, <4>1 DEF Raised, ProcessSet
      <4>3. procs'[q].hooked = procs[q].hooked /\ procs'[q].client = procs[q].client
        BY <4>2 DEF KeptAs
      <4>4. procs'[d].parent = q /\ procs'[d].image = procs[d].image
        BY <3>1, <4>1 DEF KeptAs
      <4> QED BY <3>1, <3>2, <3>4, <4>1, <4>3, <4>4 DEF ImageSaid
    <3> QED BY <3>3, <3>4
  <2> QED BY <2>1, <2>2
<1>3. ASSUME NEW p \in Pids, NEW t \in Threads, NtUnder(p, t)' PROVE UnderSaid(p, t)'
  <2>1. CASE frames'[p][t] = frames[p][t]
    <3>1. frames[p][t] # <<>> /\ NtUnder(p, t) /\ Creating(p, t)
      BY <1>3, <2>1 DEF NtUnder, WindowsIInv
    <3>2. procs[p] # None /\ Begun(p) /\ UnderSaid(p, t)
      BY <3>1 DEF Creating, CallsIInv
    <3>3. procs'[p].hooked = procs[p].hooked
      BY <3>2 DEF KeptAs
    <3>4. PICK call : call = frames[p][t][1].call
      OBVIOUS
    <3>5. call \in Calls /\ (procs'[p].hooked /\ (Open)' => Reported(recorded', call))
      BY <1>1, <3>2, <3>3, <3>4 DEF UnderSaid
    <3> QED BY <2>1, <3>4, <3>5 DEF UnderSaid
  <2> QED BY <1>3, <2>1
<1>4. ASSUME NEW f \in forwarded' PROVE ForwardedSaid(f)'
  <2>1. CASE f \in forwarded
    <3>1. /\ f.pid \in Pids /\ procs[f.pid] # None /\ Begun(f.pid)
          /\ procs[f.pid].hooked => Reported(recorded, f.call)
      BY <2>1 DEF CallsIInv, ForwardedSaid
    <3>2. PICK q \in Pids : q = f.pid
      BY <3>1
    <3>3. procs'[q] # None /\ Begun(q)' /\ procs'[q].hooked = procs[q].hooked
      BY <3>1, <3>2 DEF KeptAs
    <3>4. procs'[q].hooked => Reported(recorded', f.call)
      BY <1>1, <3>1, <3>2, <3>3
    <3> QED BY <3>2, <3>3, <3>4 DEF ForwardedSaid, Begun
  <2> QED BY <1>4, <2>1
<1> QED BY <1>2, <1>3, <1>4 DEF CallsIInv

(* A process stays as it is, or its state alone is another.                *)
LEMMA Stays ==
  ASSUME NEW d, procs[d] # None, procs'[d] = procs[d]
  PROVE  KeptAs(d)
BY DEF KeptAs, Begun

LEMMA StateStays ==
  ASSUME None \notin ProcessSet, NEW d, procs[d] \in ProcessSet, NEW s \in States,
         procs'[d] = [procs[d] EXCEPT !.state = s]
  PROVE  KeptAs(d)
<1>1. PICK y, x : y = procs[d] /\ x = procs'[d]
  OBVIOUS
<1>2. /\ x \in ProcessSet /\ x.parent = y.parent /\ x.image = y.image /\ x.told = y.told
      /\ x.library = y.library /\ x.client = y.client /\ x.hooked = y.hooked
  BY <1>1, StateSet DEF Same
<1> QED BY <1>1, <1>2 DEF KeptAs, Begun

-----------------------------------------------------------------------------
(* What the actions do to what is recorded.                                *)
LEMMA RunnerKeepsCalls ==
  ASSUME WindowsConstants, WindowsIInv, CallsIInv,
         \/ SpawnRoot \/ UpdateRoot \/ CopyToRoot \/ ResumeRoot \/ PreparationFails
         \/ CloseChannel \/ UNCHANGED windowsVars
  PROVE  CallsIInv'
<1>1. UNCHANGED <<frames, recorded, forwarded>> /\ ((Open)' => Open)
  BY DEF SpawnRoot, UpdateRoot, CopyToRoot, ResumeRoot, PreparationFails, CloseChannel, windowsVars,
         unchangedCalls, Open
<1>2. /\ WindowsTypeOK /\ RootHeld /\ 1 \in Pids /\ None \notin ProcessSet /\ DOMAIN procs = Pids
  BY DEF WindowsIInv, WindowsTypeOK, WindowsConstants
<1>3. CASE SpawnRoot
  <2>1. /\ \A d \in Pids : procs[d] = None
        /\ procs' = [procs EXCEPT ![1] = Process(None, None, "suspended", FALSE, FALSE, None)]
    BY <1>2, <1>3 DEF SpawnRoot, RootHeld
  <2>2. PICK x : x = Process(None, None, "suspended", FALSE, FALSE, None)
    OBVIOUS
  <2>3. x.client = "none" /\ ~x.hooked /\ x.parent = None
    BY <2>2 DEF Process
  <2>4. procs'[1] = x /\ \A d \in Pids \ {1} : procs'[d] = None
    BY <1>2, <2>1, <2>2
  <2>5. ASSUME NEW d \in Pids, procs'[d] # None PROVE Tracks(d)' /\ ImageSaid(d)'
    <3>1. procs'[d] = x
      BY <2>4, <2>5
    <3> QED BY <2>3, <3>1 DEF Tracks, ImageSaid
  <2> QED BY <1>1, <2>1, <2>5, CallsKept
<1>4. CASE UpdateRoot \/ CopyToRoot \/ ResumeRoot \/ PreparationFails
  <2>1. procs[1] # None /\ procs[1].told = "pending"
    BY <1>2, <1>4 DEF RootHeld, UpdateRoot, CopyToRoot, ResumeRoot, PreparationFails
  <2>2. PICK y : y = procs[1]
    OBVIOUS
  <2>3. y \in ProcessSet
    BY <1>2, <2>1, <2>2 DEF WindowsTypeOK
  <2>4. PICK x : x = procs'[1]
    OBVIOUS
  <2>5. /\ \A d \in Pids \ {1} : procs'[d] = procs[d]
        /\ x \in {[y EXCEPT !.library = TRUE], [y EXCEPT !.payload = TRUE],
                  [y EXCEPT !.state = "running", !.told = "yes"],
                  [y EXCEPT !.state = "dead", !.told = "no"]}
    BY <1>2, <1>4, <2>2, <2>4 DEF UpdateRoot, CopyToRoot, ResumeRoot, PreparationFails
  <2>6. /\ x # None /\ x.parent = y.parent /\ x.image = y.image
        /\ x.client = y.client /\ x.hooked = y.hooked
    <3>1. CASE x = [y EXCEPT !.library = TRUE]
      BY <1>2, <2>3, <3>1, LibrarySet DEF Same
    <3>2. CASE x = [y EXCEPT !.payload = TRUE]
      BY <1>2, <2>3, <3>2, PayloadSet DEF Same
    <3>3. ASSUME NEW s \in {"running", "dead"}, NEW a \in {"yes", "no"},
                 x = [y EXCEPT !.state = s, !.told = a]
          PROVE  /\ x # None /\ x.parent = y.parent /\ x.image = y.image
                 /\ x.client = y.client /\ x.hooked = y.hooked
      <4>1. x \in ProcessSet /\ x.parent = y.parent /\ x.image = y.image
            /\ x.client = y.client /\ x.hooked = y.hooked
        BY <2>3, <3>3 DEF ProcessSet, States, Answers
      <4> QED BY <1>2, <4>1
    <3> QED BY <2>5, <3>1, <3>2, <3>3
  <2>7. KeptAs(1)
    BY <2>1, <2>2, <2>4, <2>6 DEF KeptAs, Begun
  <2>8. \A d \in Pids : procs[d] # None => KeptAs(d)
    BY <2>5, <2>7, Stays
  <2>9. \A d \in Pids : procs[d] = None => procs'[d] = None
    BY <2>1, <2>5
  <2> QED BY <1>1, <2>8, <2>9, CallsKept
<1>5. CASE CloseChannel \/ UNCHANGED windowsVars
  <2>1. procs' = procs
    BY <1>5 DEF CloseChannel, windowsVars
  <2> QED BY <1>1, <2>1, Stays, CallsKept
<1> QED BY <1>3, <1>4, <1>5

LEMMA AttachKeepsCalls ==
  ASSUME WindowsConstants, WindowsIInv, CallsIInv, NEW c \in Pids, Attach(c)
  PROVE  CallsIInv'
<1>1. /\ UNCHANGED <<runner, frames, recorded, forwarded>> /\ ((Open)' <=> Open)
      /\ procs[c] # None /\ procs[c].library /\ procs[c].client = "none"
      /\ procs[c] \in ProcessSet /\ None \notin ProcessSet /\ DOMAIN procs = Pids
  BY DEF Attach, unchangedCalls, Open, WindowsIInv, WindowsTypeOK, WindowsConstants
<1>2. PICK b \in BOOLEAN :
        procs' = [procs EXCEPT ![c].client = IF Open THEN "sends" ELSE "over", ![c].hooked = b]
  BY DEF Attach
<1>3. PICK y, k : y = procs[c] /\ k = IF Open THEN "sends" ELSE "over"
  OBVIOUS
<1>4. k \in Clients /\ k # "none" /\ (k = "over" => ~Open)
  BY <1>3 DEF Clients
<1>5. PICK w, x : w = [y EXCEPT !.client = k] /\ x = [w EXCEPT !.hooked = b]
  OBVIOUS
<1>6. procs' = [procs EXCEPT ![c] = x]
  BY <1>1, <1>2, <1>3, <1>5
<1>7. x \in ProcessSet /\ x.parent = y.parent /\ x.image = y.image /\ x.client = k
  <2>1. w \in ProcessSet /\ w.parent = y.parent /\ w.image = y.image /\ w.client = k
    BY <1>1, <1>3, <1>4, <1>5, ClientSet DEF Same
  <2> QED BY <1>5, <2>1, HookedSet DEF Same
<1>8. procs'[c] = x /\ \A d \in Pids \ {c} : procs'[d] = procs[d]
  BY <1>1, <1>6
<1>9. KeptAs(c)
  <2>1. ~Begun(c)
    BY <1>1 DEF Begun
  <2>2. Tracks(c)'
    BY <1>1, <1>4, <1>7, <1>8 DEF Tracks
  <2> QED BY <1>1, <1>3, <1>7, <1>8, <2>1, <2>2 DEF KeptAs
<1>10. \A d \in Pids : procs[d] # None => KeptAs(d)
  BY <1>8, <1>9, Stays
<1>11. \A d \in Pids : procs[d] = None => procs'[d] = None
  BY <1>1, <1>8
<1> QED BY <1>1, <1>10, <1>11, CallsKept

LEMMA LifeKeepsCalls ==
  ASSUME WindowsConstants, WindowsIInv, CallsIInv, NEW c \in Pids, NEW p \in Pids,
         Detach(c) \/ Die(c) \/ ResumeAsked(p, c)
  PROVE  CallsIInv'
<1>1. /\ UNCHANGED <<runner, recorded, forwarded>> /\ ((Open)' => Open)
      /\ procs[c] # None /\ procs[c] \in ProcessSet
      /\ None \notin ProcessSet /\ DOMAIN procs = Pids /\ WindowsTypeOK
  BY DEF Detach, Die, ResumeAsked, Program, Running, unchangedCalls, Open, WindowsIInv, WindowsTypeOK,
         WindowsConstants
<1>2. PICK s \in States : procs' = [procs EXCEPT ![c].state = s]
  BY DEF Detach, Die, ResumeAsked, States
<1>3. procs'[c] = [procs[c] EXCEPT !.state = s] /\ \A d \in Pids \ {c} : procs'[d] = procs[d]
  BY <1>1, <1>2
<1>4. \A d \in Pids : procs[d] # None => KeptAs(d)
  BY <1>1, <1>3, Stays, StateStays
<1>5. \A d \in Pids : procs[d] = None => procs'[d] = None
  BY <1>1, <1>3
<1>6. \A q \in Pids, u \in Threads : frames'[q][u] = frames[q][u] \/ frames'[q][u] = <<>>
  <2>1. CASE frames' = frames
    BY <2>1
  <2>2. CASE Die(c)
    BY <1>1, <2>2 DEF Die, WindowsTypeOK
  <2> QED BY <2>1, <2>2 DEF Detach, ResumeAsked, unchangedCalls
<1>7. \A q \in Pids, u \in Threads : NtUnder(q, u)' => frames'[q][u] = frames[q][u]
  BY <1>6 DEF NtUnder
<1> QED BY <1>1, <1>4, <1>5, <1>7, CallsKept

(* A call that is no NT call, or none, takes the place of another.         *)
LEMMA OneThread ==
  ASSUME WindowsIInv, NEW p \in Pids, NEW t \in Threads, NEW v,
         frames' = [frames EXCEPT ![p][t] = v], v = <<>> \/ ~Nt(v[1])
  PROVE  \A q \in Pids, u \in Threads : NtUnder(q, u)' => frames'[q][u] = frames[q][u]
<1>1. WindowsTypeOK
  BY DEF WindowsIInv
<1>2. frames'[p][t] = v /\ \A q \in Pids, u \in Threads : q # p \/ u # t => frames'[q][u] = frames[q][u]
  BY <1>1, CallsSet
<1>3. ~NtUnder(p, t)'
  BY <1>2 DEF NtUnder, Nt
<1> QED BY <1>2, <1>3

LEMMA ChildKeepsCalls ==
  ASSUME WindowsConstants, WindowsIInv, CallsIInv, NEW p \in Pids, NEW t \in Threads,
         ChildMoves(p, t), UNCHANGED <<recorded, forwarded>>
  PROVE  CallsIInv'
<1>1. PICK f \in Creations, c \in Pids, H \in SUBSET Pids :
        \E x : /\ Made(p, t, f, c) /\ ChildBecomes(c, x, H) /\ runner' = runner
               /\ GivesBack(p, t) \/ \E g : GoesOn(p, t, f, c, x, g)
  BY DEF ChildMoves
<1>2. PICK x : /\ Made(p, t, f, c) /\ ChildBecomes(c, x, H) /\ runner' = runner
               /\ GivesBack(p, t) \/ \E g : GoesOn(p, t, f, c, x, g)
  BY <1>1
<1>3. /\ c \notin H /\ procs'[c] = x
      /\ \A d \in Pids \ (H \cup {c}) : procs'[d] = procs[d]
      /\ \A h \in H : procs[h] # None /\ procs'[h] = [procs[h] EXCEPT !.state = "dead"]
      /\ x \in ProcessSet /\ Same(x, procs[c])
      /\ x.client = procs[c].client /\ x.hooked = procs[c].hooked
      /\ procs[c] # None /\ procs[c].told = "pending" /\ None \notin ProcessSet
  BY <1>2 DEF ChildBecomes, Made, WindowsConstants
<1>4. KeptAs(c)
  BY <1>3 DEF KeptAs, Same, Begun
<1>5. ASSUME NEW h \in H PROVE KeptAs(h)
  <2>1. procs[h] \in ProcessSet /\ "dead" \in States
    BY <1>3 DEF WindowsIInv, WindowsTypeOK, States
  <2> QED BY <1>3, <2>1, StateStays
<1>6. \A d \in Pids : procs[d] # None => KeptAs(d)
  BY <1>3, <1>4, <1>5, Stays
<1>7. \A d \in Pids : procs[d] = None => procs'[d] = None
  BY <1>3
<1>8. PICK v : frames' = [frames EXCEPT ![p][t] = v] /\ (v = <<>> \/ ~Nt(v[1]))
  <2>1. CASE GivesBack(p, t)
    BY <2>1 DEF GivesBack
  <2>2. ASSUME NEW g, GoesOn(p, t, f, c, x, g)
        PROVE  frames' = [frames EXCEPT ![p][t] = <<g>>] /\ ~Nt(<<g>>[1])
    <3>1. g \in Creations /\ frames' = [frames EXCEPT ![p][t] = <<g>>]
      BY <2>2 DEF GoesOn
    <3>2. ~Nt(g) /\ <<g>>[1] = g
      BY <3>1 DEF Nt, Creations, Steps
    <3> QED BY <3>1, <3>2
  <2> QED BY <1>2, <2>1, <2>2
<1>9. \A q \in Pids, u \in Threads : NtUnder(q, u)' => frames'[q][u] = frames[q][u]
  BY <1>8, OneThread
<1>10. (Open)' => Open
  BY <1>2 DEF Open
<1> QED BY <1>6, <1>7, <1>9, <1>10, CallsKept

-----------------------------------------------------------------------------
(* The calls themselves.                                                   *)

(* The detours of NT are in what every library calls.                      *)
LEMMA NtReached ==
  ASSUME CallsConstants, NEW p, procs[p].hooked \in BOOLEAN, NEW symbol \in Nts
  PROVE  Intercepted(p, symbol, "ntdll") = procs[p].hooked
<1>1. /\ symbol \in Exports.ntdll /\ symbol \notin Exports.kernelbase
      /\ symbol \notin Exports.kernel32 /\ None # "ntdll"
  BY DEF CallsConstants
<1>2. Target(symbol) = "ntdll" /\ Implementation(symbol, "ntdll") = "ntdll"
  BY <1>1 DEF Target, Implementation
<1> QED BY <1>1, <1>2 DEF Intercepted

(* While the channel is open, whoever has detours sends.                   *)
LEMMA HookedSends ==
  ASSUME WindowsIInv, CallsIInv, NEW p \in Pids, procs[p] # None, procs[p].hooked, Open
  PROVE  Sends(p)
<1>1. Tracks(p) /\ procs[p] \in ProcessSet
  BY DEF CallsIInv, WindowsIInv, WindowsTypeOK
<1> QED BY <1>1 DEF Tracks, Sends, ProcessSet, Clients

LEMMA TouchKeepsCalls ==
  ASSUME WindowsConstants, CallsConstants, WindowsIInv, CallsIInv,
         NEW p \in Pids, NEW t \in Threads, Touch(p, t)
  PROVE  CallsIInv'
<1>1. /\ Program(p) /\ procs[p] # None /\ Begun(p) /\ procs[p].hooked \in BOOLEAN
      /\ frames[p][t] = <<>> /\ UNCHANGED <<runner, procs, forwarded>> /\ WindowsTypeOK
  BY ProgramBegun DEF Touch, WindowsIInv
<1>2. PICK call \in Calls :
        /\ IF Intercepted(p, call.api, "ntdll") THEN Record(p, Sent(call)) ELSE UNCHANGED recorded
        /\ Pushed(p, t, [step |-> "nt", call |-> call])
  BY DEF Touch
<1>3. Reported(Sent(call), call) /\ Intercepted(p, call.api, "ntdll") = procs[p].hooked
  BY <1>1, DetourSays, NtReached
<1>4. recorded \subseteq recorded'
  BY <1>2 DEF Record
<1>5. procs[p].hooked /\ Open => Reported(recorded', call)
  <2>1. ASSUME procs[p].hooked, Open PROVE Reported(recorded', call)
    <3>1. recorded' = recorded \cup Sent(call)
      BY <1>1, <1>2, <1>3, <2>1, HookedSends DEF Record
    <3> QED BY <1>3, <3>1 DEF Reported
  <2> QED BY <2>1
<1>6. PICK f : f = [step |-> "nt", call |-> call]
  OBVIOUS
<1>7. frames' = [frames EXCEPT ![p][t] = <<f>>]
  <2>1. PICK v : v = frames[p][t]
    OBVIOUS
  <2>2. Append(v, f) = <<f>>
    BY <1>1, <2>1, OneCall
  <2> QED BY <1>2, <1>6, <2>1, <2>2 DEF Pushed
<1>8. /\ frames'[p][t] = <<f>> /\ frames'[p][t][1] = f
      /\ \A q \in Pids, u \in Threads : q # p \/ u # t => frames'[q][u] = frames[q][u]
  BY <1>1, <1>7, CallsSet, OneCall
<1>9. UnderSaid(p, t)'
  <2>1. frames'[p][t][1].call = call
    BY <1>6, <1>8
  <2>2. procs'[p].hooked /\ (Open)' => Reported(recorded', call)
    BY <1>1, <1>5 DEF Open
  <2> QED BY <1>2, <2>1, <2>2 DEF UnderSaid
<1>10. \A q \in Pids, u \in Threads : frames'[q][u] = frames[q][u] \/ UnderSaid(q, u)'
  BY <1>8, <1>9
<1>11. ((Open)' => Open) /\ procs' = procs
  BY <1>1 DEF Open
<1> QED BY <1>1, <1>4, <1>10, <1>11, Stays, CallsKept

LEMMA ForwardKeepsCalls ==
  ASSUME WindowsConstants, WindowsIInv, CallsIInv, NEW p \in Pids, NEW t \in Threads, Forward(p, t)
  PROVE  CallsIInv'
<1>1. /\ frames[p][t] # <<>> /\ Last(frames[p][t]).step = "nt" /\ WindowsTypeOK
      /\ frames' = [frames EXCEPT ![p][t] = Front(@)] /\ UNCHANGED <<runner, procs, recorded>>
  BY DEF Forward, Stands, WindowsIInv
<1>2. PICK f : frames[p][t] = <<f>> /\ Nt(f)
  <2>1. FramesOK(p, t)
    BY <1>1 DEF WindowsTypeOK
  <2>2. ASSUME NEW f, frames[p][t] = <<f>> PROVE Nt(f)
    <3>1. Last(<<f>>) = f
      BY OneCall
    <3> QED BY <1>1, <2>2, <3>1 DEF Nt
  <2>3. ASSUME NEW f, NEW g, frames[p][t] = <<f, g>> PROVE g.step = "nt"
    <3>1. Last(<<f, g>>) = g
      BY TwoCalls
    <3> QED BY <1>1, <2>3, <3>1
  <2> QED BY <1>1, <2>1, <2>2, <2>3 DEF FramesOK
<1>3. Front(frames[p][t]) = <<>> /\ Last(frames[p][t]) = f /\ frames[p][t][1] = f
  BY <1>2, OneCall
<1>4. frames' = [frames EXCEPT ![p][t] = <<>>]
  BY <1>1, <1>3
<1>5. \A q \in Pids, u \in Threads : NtUnder(q, u)' => frames'[q][u] = frames[q][u]
  BY <1>4, OneThread
<1>6. procs[p] # None /\ Begun(p) /\ UnderSaid(p, t)
  <2>1. Creating(p, t) /\ NtUnder(p, t)
    BY <1>1, <1>2, <1>3 DEF WindowsIInv, NtUnder
  <2> QED BY <1>1, <2>1 DEF Creating, CallsIInv
<1>7. forwarded' = IF Open THEN forwarded \cup {[pid |-> p, call |-> f.call]} ELSE forwarded
  BY <1>3 DEF Forward
<1>8. ASSUME NEW x \in forwarded' PROVE x \in forwarded \/ ForwardedSaid(x)'
  <2>1. CASE x = [pid |-> p, call |-> f.call] /\ Open
    <3>1. x.pid = p /\ x.call = f.call
      BY <2>1
    <3>2. procs[p].hooked => Reported(recorded, f.call)
      BY <1>3, <1>6, <2>1 DEF UnderSaid
    <3>3. procs'[p] # None /\ Begun(p)' /\ (procs'[p].hooked => Reported(recorded', f.call))
      BY <1>1, <1>6, <3>2 DEF Begun
    <3> QED BY <3>1, <3>3 DEF ForwardedSaid, Begun
  <2> QED BY <1>7, <1>8, <2>1
<1>9. ((Open)' => Open) /\ procs' = procs /\ recorded' = recorded
  BY <1>1 DEF Open
<1> QED BY <1>5, <1>8, <1>9, Stays, CallsKept

LEMMA CreateKeepsCalls ==
  ASSUME WindowsConstants, WindowsIInv, CallsIInv, NEW p \in Pids, NEW t \in Threads,
         NEW symbol, NEW via, NEW asked, NEW foreign, CreateProcess(p, t, symbol, via, asked, foreign)
  PROVE  CallsIInv'
<1>1. Free(p, t) /\ UNCHANGED <<runner, procs, recorded, forwarded>>
  BY DEF CreateProcess
<1>2. PICK f : f.step = "called" /\ Pushed(p, t, f)
  <2>1. PICK f : f = [step |-> "called", child |-> None,
                      detoured |-> Intercepted(p, symbol, via) /\ ~AlreadyHooking(p, t),
                      asked |-> asked, foreign |-> foreign, for |-> HelperFor(p, t)]
    OBVIOUS
  <2> QED BY <2>1 DEF CreateProcess
<1>3. PICK v, w : v = frames[p][t] /\ w = Append(v, f)
  OBVIOUS
<1>4. frames' = [frames EXCEPT ![p][t] = w]
  BY <1>2, <1>3 DEF Pushed
<1>5. ~Nt(w[1])
  <2>1. CASE v = <<>>
    <3>1. w = <<f>> /\ <<f>>[1] = f
      BY <1>3, <2>1, OneCall
    <3> QED BY <1>2, <3>1 DEF Nt
  <2>2. CASE v # <<>>
    <3>1. Stands(p, t, "helping") /\ "helping" \in Steps \ {"called"}
      BY <1>1, <1>3, <2>2 DEF Free, Program, Stands, Steps
    <3>2. PICK g \in Creations : frames[p][t] = <<g>>
      BY <3>1, Waiting
    <3>3. w = <<g, f>> /\ <<g, f>>[1] = g
      BY <1>3, <3>2, TwoCalls
    <3> QED BY <3>3 DEF Nt, Creations, Steps
  <2> QED BY <2>1, <2>2
<1>6. \A q \in Pids, u \in Threads : NtUnder(q, u)' => frames'[q][u] = frames[q][u]
  BY <1>4, <1>5, OneThread
<1>7. ((Open)' => Open) /\ procs' = procs /\ recorded' = recorded
  BY <1>1 DEF Open
<1> QED BY <1>1, <1>6, <1>7, Stays, CallsKept

(* The kernel's answer is no NT call.                                      *)
LEMMA MakingFrames ==
  ASSUME WindowsConstants, WindowsIInv, NEW p \in Pids, NEW t \in Threads,
         RealCreate(p, t) \/ RealCreateFails(p, t)
  PROVE  \A q \in Pids, u \in Threads : NtUnder(q, u)' => frames'[q][u] = frames[q][u]
<1>1. Stands(p, t, "called")
  BY DEF RealCreate, RealCreateFails
<1>2. PICK v, g : v = frames[p][t] /\ g = Last(v)
  OBVIOUS
<1>3. \/ Front(v) = <<>> /\ Len(v) = 1
      \/ \E f \in Creations : Front(v) = <<f>> /\ v[1] = f /\ Len(v) = 2 /\ ~g.detoured
  BY <1>1, <1>2, Called
<1>4. PICK w : /\ frames' = [frames EXCEPT ![p][t] = w]
               /\ \/ w = Front(v)
                  \/ \E x : x.step # "nt" /\ w = <<x>>
  <2>1. CASE Returns(p, t)
    BY <1>2, <2>1 DEF Returns
  <2>2. CASE RealCreateFails(p, t) /\ Len(v) # 1
    <3>1. PICK x : x = [v[1] EXCEPT !.step = "unhelped"]
      OBVIOUS
    <3>2. v[1] \in Creations
      BY <1>3, <2>2
    <3>3. x.step = "unhelped"
      BY <3>1, <3>2 DEF Creations
    <3> QED BY <1>2, <2>2, <3>1, <3>3 DEF RealCreateFails
  <2>3. CASE RealCreate(p, t) /\ g.detoured
    <3>1. PICK c : frames' = [frames EXCEPT ![p][t] =
                                Append(Front(@), [g EXCEPT !.step = "created", !.child = c])]
      BY <1>2, <2>3 DEF RealCreate
    <3>2. PICK x : x = [g EXCEPT !.step = "created", !.child = c]
      OBVIOUS
    <3>3. Append(Front(v), x) = <<x>>
      BY <1>3, <2>3, OneCall
    <3>4. g \in Creations
      BY <1>1, <1>2, Called
    <3>5. x.step = "created"
      BY <3>2, <3>4 DEF Creations
    <3> QED BY <1>2, <3>1, <3>2, <3>3, <3>5
  <2> QED BY <1>2, <2>1, <2>2, <2>3 DEF RealCreate, RealCreateFails
<1>5. w = <<>> \/ ~Nt(w[1])
  <2>1. ASSUME NEW x, w = <<x>>, x.step # "nt" PROVE ~Nt(w[1])
    BY <2>1, OneCall DEF Nt
  <2>2. ASSUME NEW x \in Creations PROVE x.step # "nt"
    BY DEF Creations, Steps
  <2> QED BY <1>3, <1>4, <2>1, <2>2
<1> QED BY <1>4, <1>5, OneThread

LEMMA MakingKeepsCalls ==
  ASSUME WindowsConstants, CallsConstants, WindowsIInv, CallsIInv,
         NEW p \in Pids, NEW t \in Threads, RealCreate(p, t) \/ RealCreateFails(p, t)
  PROVE  CallsIInv'
<1>1. /\ Stands(p, t, "called") /\ UNCHANGED <<runner, forwarded>> /\ ((Open)' <=> Open)
      /\ WindowsTypeOK /\ None \notin ProcessSet /\ DOMAIN procs = Pids
  BY DEF RealCreate, RealCreateFails, Open, WindowsIInv, WindowsConstants, WindowsTypeOK
<1>2. procs[p] # None /\ procs[p].hooked \in BOOLEAN
  BY <1>1, Called
<1>3. PICK g : g = Last(frames[p][t])
  OBVIOUS
<1>4. RecordImage(p, g)
  BY <1>3 DEF RealCreate, RealCreateFails
<1>5. recorded \subseteq recorded'
  BY <1>4 DEF RecordImage, Record
<1>6. procs[p].hooked /\ Open => [mode |-> "Read", path |-> Image(g)] \in recorded'
  <2>1. ASSUME procs[p].hooked, Open PROVE [mode |-> "Read", path |-> Image(g)] \in recorded'
    <3>1. Intercepted(p, "NtCreateUserProcess", "ntdll")
      <4>1. PICK symbol \in Nts : symbol = "NtCreateUserProcess"
        BY DEF Nts
      <4>2. Intercepted(p, symbol, "ntdll") = procs[p].hooked
        BY <1>2, NtReached
      <4> QED BY <2>1, <4>1, <4>2
    <3>2. Sends(p)
      BY <1>2, <2>1, HookedSends
    <3> QED BY <1>4, <3>1, <3>2 DEF RecordImage, Record, NtCreateUserProcess
  <2> QED BY <2>1
<1>7. \A q \in Pids, u \in Threads : NtUnder(q, u)' => frames'[q][u] = frames[q][u]
  BY MakingFrames
<1>8. CASE RealCreateFails(p, t)
  <2>1. procs' = procs
    BY <1>8 DEF RealCreateFails
  <2> QED BY <1>1, <1>5, <1>7, <2>1, Stays, CallsKept
<1>9. CASE RealCreate(p, t)
  <2>1. PICK c : c = CHOOSE d \in Pids : procs[d] = None /\ \A q \in Pids : procs[q] = None => d <= q
    OBVIOUS
  <2>2. c \in Pids /\ procs[c] = None
    BY <1>9, <2>1, FirstFree
  <2>3. PICK x : x = Born(p, g)
    OBVIOUS
  <2>4. procs' = [procs EXCEPT ![c] = x]
    BY <1>3, <1>9, <2>1, <2>3 DEF RealCreate, Born
  <2>5. g \in Creations
    BY <1>1, <1>3, Called
  <2>6. x.parent = p /\ x.client = "none" /\ ~x.hooked /\ x.image = Image(g)
    BY <2>3, <2>5, BornSet
  <2>7. procs'[c] = x /\ \A d \in Pids \ {c} : procs'[d] = procs[d]
    BY <1>1, <2>2, <2>4
  <2>8. procs'[p] = procs[p]
    BY <1>2, <2>2, <2>7
  <2>9. Tracks(c)' /\ ImageSaid(c)'
    BY <1>1, <1>6, <2>6, <2>7, <2>8 DEF Tracks, ImageSaid
  <2>10. /\ \A d \in Pids : procs[d] # None => KeptAs(d)
         /\ \A d \in Pids : procs[d] = None /\ procs'[d] # None => Tracks(d)' /\ ImageSaid(d)'
    BY <2>2, <2>7, <2>9, Stays
  <2> QED BY <1>1, <1>5, <1>7, <2>10, CallsKept
<1> QED BY <1>8, <1>9

-----------------------------------------------------------------------------
LEMMA WindowsNextKeepsCalls ==
  ASSUME WindowsConstants, CallsConstants, WindowsIInv, CallsIInv, [WindowsNext]_windowsVars
  PROVE  CallsIInv'
<1>1. CASE \/ SpawnRoot \/ UpdateRoot \/ CopyToRoot \/ ResumeRoot \/ PreparationFails
           \/ CloseChannel \/ UNCHANGED windowsVars
  BY <1>1, RunnerKeepsCalls
<1>2. CASE \E p \in Pids : Attach(p) \/ Detach(p) \/ Die(p)
  BY <1>2, AttachKeepsCalls, LifeKeepsCalls
<1>3. CASE \E p, c \in Pids : ResumeAsked(p, c)
  BY <1>3, LifeKeepsCalls
<1>4. CASE \E p \in Pids, t \in Threads :
             \/ Touch(p, t) \/ Forward(p, t)
             \/ \E via \in Libraries, asked, foreign \in BOOLEAN :
                  \/ CreateProcessW(p, t, via, asked, foreign)
                  \/ CreateProcessA(p, t, via, asked, foreign)
             \/ RealCreate(p, t) \/ RealCreateFails(p, t)
             \/ PrepareChild(p, t) \/ PrepareFails(p, t)
             \/ Inject(p, t) \/ Helped(p, t) \/ InjectFails(p, t) \/ ResumeChild(p, t)
  <2>1. PICK p \in Pids, t \in Threads :
             \/ Touch(p, t) \/ Forward(p, t)
             \/ \E via \in Libraries, asked, foreign \in BOOLEAN :
                  \/ CreateProcessW(p, t, via, asked, foreign)
                  \/ CreateProcessA(p, t, via, asked, foreign)
             \/ RealCreate(p, t) \/ RealCreateFails(p, t)
             \/ PrepareChild(p, t) \/ PrepareFails(p, t)
             \/ Inject(p, t) \/ Helped(p, t) \/ InjectFails(p, t) \/ ResumeChild(p, t)
    BY <1>4
  <2>2. CASE Touch(p, t) \/ Forward(p, t)
    BY <2>2, TouchKeepsCalls, ForwardKeepsCalls
  <2>3. CASE \E via \in Libraries, asked, foreign \in BOOLEAN :
               \/ CreateProcessW(p, t, via, asked, foreign)
               \/ CreateProcessA(p, t, via, asked, foreign)
    BY <2>3, CreateKeepsCalls DEF CreateProcessW, CreateProcessA
  <2>4. CASE RealCreate(p, t) \/ RealCreateFails(p, t)
    BY <2>4, MakingKeepsCalls
  <2>5. CASE \/ PrepareChild(p, t) \/ PrepareFails(p, t)
             \/ Inject(p, t) \/ Helped(p, t) \/ InjectFails(p, t) \/ ResumeChild(p, t)
    <3>1. UNCHANGED <<recorded, forwarded>>
      BY <2>5 DEF PrepareChild, PrepareFails, Inject, Helped, InjectFails, ResumeChild
    <3> QED BY <2>5, <3>1, ChildMovesOn, ChildKeepsCalls
  <2> QED BY <2>1, <2>2, <2>3, <2>4, <2>5
<1> QED BY <1>1, <1>2, <1>3, <1>4 DEF WindowsNext

(* Whatever the processes do, and whichever of them end, fail to start or  *)
(* are too late for the channel, what their calls did is recorded.         *)
THEOREM WindowsCallsInvariant ==
  ASSUME WindowsConstants, CallsConstants
  PROVE  WindowsSpec => [](WindowsIInv /\ CallsIInv)
<1>1. WindowsInit => WindowsIInv /\ CallsIInv
  <2>1. ASSUME WindowsInit PROVE CallsIInv
    <3>1. forwarded = {} /\ (\A c \in Pids : procs[c] = None)
          /\ \A p \in Pids, t \in Threads : frames[p][t] = <<>>
      BY <2>1 DEF WindowsInit
    <3> QED BY <3>1 DEF CallsIInv, NtUnder
  <2> QED BY WindowsConstants, <2>1, WindowsBegins
<1>2. WindowsIInv /\ CallsIInv /\ [WindowsNext]_windowsVars => WindowsIInv' /\ CallsIInv'
  BY WindowsConstants, CallsConstants, WindowsNextKeeps, WindowsNextKeepsCalls
<1> QED BY <1>1, <1>2, PTL DEF WindowsSpec

(* Every call of a detoured process that reached the kernel while the      *)
(* channel was open is recorded (fspy_preload_windows, detours/nt.rs), as  *)
(* what it did and under the path it led to, whichever way that was given; *)
(* and the image of every child of such a process.                         *)
THEOREM WindowsCallsRecorded ==
  ASSUME WindowsConstants, CallsConstants
  PROVE  WindowsSpec => []CallsRecorded
<1>1. WindowsIInv /\ CallsIInv => CallsRecorded
  <2> SUFFICES ASSUME WindowsIInv, CallsIInv PROVE CallsRecorded
    OBVIOUS
  <2>1. ASSUME NEW f \in forwarded, procs[f.pid].hooked
        PROVE  \A effect \in f.call.does :
                 \E r \in recorded : r.path = f.call.object /\ r.mode \in Covers[effect]
    BY <2>1 DEF CallsIInv, ForwardedSaid, Reported
  <2>2. ASSUME NEW c \in Pids, procs[c] # None, procs[c].parent # None,
               procs[procs[c].parent].hooked, procs[procs[c].parent].client = "sends", Open
        PROVE  [mode |-> "Read", path |-> procs[c].image] \in recorded
    BY <2>2 DEF CallsIInv, ImageSaid
  <2> QED BY <2>1, <2>2 DEF CallsRecorded
<1> QED BY WindowsConstants, CallsConstants, <1>1, WindowsCallsInvariant, PTL
=============================================================================
